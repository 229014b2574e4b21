------------------------------ MODULE HostWrite -----------------------------
(***************************************************************************)
(* A host programs a K1: the flasher's session (radio-flasher:             *)
(* workflow.rs), the link, the serial task (radio-app: serial.rs) and the  *)
(* K1's memory view (radio-firmware-k1: main.rs over PlaceLog).            *)
(*                                                                         *)
(* The host writes the blocks of an image that differ, reads each back and *)
(* the image at the end, and then writes the blocks of a start place.  A   *)
(* request nobody answers is sent again.  The radio stages the blocks in   *)
(* memory, gathers the place in RAM, and takes both once the link has been *)
(* quiet for a second.  A commit may fail part of the way, and a load may  *)
(* fail to read what is there; nobody repeats either.                      *)
(***************************************************************************)
EXTENDS PlaceLog, Sequences, FiniteSetsExt

CONSTANTS
    ImageBlocks,   \* blocks of the image that the host changes or reads back
    PlaceBlocks,   \* blocks of a place record
    Before,        \* what of the image the region may hold already
    HostedPlace,   \* the place the host writes
    Attempts,      \* EXCHANGE_ATTEMPTS
    StalePackets,  \* EXCHANGE_STALE_PACKETS
    MaxFaults      \* bound of the model on lost, late and refused messages, and
                   \* on failures of the memory

Image == 1..ImageBlocks
PlacePart == (ImageBlocks + 1)..(ImageBlocks + PlaceBlocks)
Whole == 0

ASSUME HostAssumption ==
    /\ ImageBlocks \in Nat \ {0} /\ PlaceBlocks \in Nat \ {0}
    /\ Before \subseteq SUBSET Image /\ HostedPlace \in Place
    /\ Attempts \in Nat \ {0} /\ StalePackets \in Nat \ {0} /\ MaxFaults \in Nat

VARIABLES
    host,                \* the session
    toRadio, toHost,     \* the link, in order in each direction
    radio,               \* the serial task and the memory view
    staging,             \* the host write open in Staged
    stored,              \* image blocks the configuration region holds new
    running, at,         \* what the radio last loaded, and the place it was given
    faults,              \* faults so far
    harm                 \* what no promise is made about (history)

hostVars == <<host, toRadio, toHost>>
radioVars == <<radio, staging, stored, running, at>>
vars == <<hostVars, radioVars, faults, harm, placeVars>>

\* changed: blocks of the image the first reading found old.
Steps == {"hello", "live", "write", "verify", "final", "place", "done", "failed"}
Host == [step : Steps, block : Whole..(ImageBlocks + PlaceBlocks),
         attempt : 1..Attempts, stale : 0..StalePackets, changed : SUBSET Image]

\* A write carries new contents; data is the blocks a reading found new.
Request == [op : {"hello", "read", "write"}, block : Whole..(ImageBlocks + PlaceBlocks)]
Reply == [request : Request, data : SUBSET Image]

\* gathered: Memory::place.  loading: between the end of a write, or of a boot,
\* and the publication.
Radio == [written : BOOLEAN, placeWritten : BOOLEAN,
          gathered : SUBSET PlacePart, loading : BOOLEAN]

\* tried: a commit of this write has failed.  blocks: those staged as the host
\* sent them; spoilt: those staged over what a failed commit had filled in.
\* kept: those the configuration region held new when the write was opened.
Staging == [open : BOOLEAN, tried : BOOLEAN, blocks : SUBSET Image,
            spoilt : SUBSET Image, kept : SUBSET Image]
Shut == [open |-> FALSE, tried |-> FALSE, blocks |-> {}, spoilt |-> {}, kept |-> {}]

NewHost == [step |-> "hello", block |-> Whole, attempt |-> 1, stale |-> 0, changed |-> {}]
Hello == [op |-> "hello", block |-> Whole]
NewRadio == [written |-> FALSE, placeWritten |-> TRUE, gathered |-> {}, loading |-> TRUE]

Init ==
    /\ host = NewHost /\ toRadio = <<Hello>> /\ toHost = <<>>
    /\ stored \in Before
    /\ radio = NewRadio /\ staging = Shut
    /\ running = "blank" /\ at = None
    /\ faults = 0 /\ harm = [image |-> FALSE, place |-> FALSE]
    /\ PlaceInit

-----------------------------------------------------------------------------
(* The host.                                                               *)

Ended == host.step \in {"done", "failed"}

Asked(h) ==
    [op    |-> CASE h.step = "hello" -> "hello"
                 [] h.step \in {"live", "verify", "final"} -> "read"
                 [] OTHER -> "write",
     block |-> h.block]

\* The step after the image block h is at: the next that differs, or the end.
NextBlockUnread(h) ==
    LET rest == {b \in h.changed : b > h.block}
    IN  IF rest = {} THEN [h EXCEPT !.step = "place", !.block = Min(PlacePart)]
        ELSE [h EXCEPT !.step = "write", !.block = Min(rest)]
NextBlock(h) ==
    LET rest == {b \in h.changed : b > h.block}
    IN  IF rest = {} THEN [h EXCEPT !.step = "final", !.block = Whole]
        ELSE [h EXCEPT !.step = "write", !.block = Min(rest)]

\* The last reading finds the image whole.
ReadAny(data) == TRUE
ReadWhole(data) == data = Image

\* The session after an answer to what was asked.
Stepped(h, data) ==
    CASE h.step = "hello"  -> [h EXCEPT !.step = "live"]
      [] h.step = "live"   -> NextBlock([h EXCEPT !.changed = Image \ data])
      [] h.step = "write"  -> [h EXCEPT !.step = "verify"]
      [] h.step = "verify" -> IF h.block \in data THEN NextBlock(h)
                              ELSE [h EXCEPT !.step = "failed"]
      [] h.step = "final"  -> IF ReadWhole(data)
                                THEN [h EXCEPT !.step = "place", !.block = Min(PlacePart)]
                                ELSE [h EXCEPT !.step = "failed"]
      [] h.step = "place"  -> IF h.block = Max(PlacePart) THEN [h EXCEPT !.step = "done"]
                              ELSE [h EXCEPT !.block = @ + 1]

\* The next exchange sends its request at once.
Advance(h) ==
    /\ host' = [h EXCEPT !.attempt = 1, !.stale = 0]
    /\ toRadio' = IF h.step \in {"done", "failed"} THEN toRadio
                  ELSE Append(toRadio, Asked(h))

\* Whatever has arrived is discarded and the same request sent again.
TryForever ==
    /\ host' = [host EXCEPT !.stale = 0]
    /\ toHost' = <<>> /\ toRadio' = Append(toRadio, Asked(host))
TryAgain ==
    IF host.attempt < Attempts
      THEN /\ host' = [host EXCEPT !.attempt = @ + 1, !.stale = 0]
           /\ toHost' = <<>>
           /\ toRadio' = Append(toRadio, Asked(host))
      ELSE /\ host' = [host EXCEPT !.step = "failed", !.attempt = 1, !.stale = 0]
           /\ UNCHANGED <<toRadio, toHost>>

\* A packet that answers something else is skipped.
AnswersAny(reply) == reply.request.op = Asked(host).op
Answers(reply) == reply.request = Asked(host)

HostReceives ==
    /\ ~Ended /\ toHost # <<>>
    /\ IF Answers(Head(toHost))
         THEN toHost' = Tail(toHost) /\ Advance(Stepped(host, Head(toHost).data))
         ELSE IF host.stale + 1 < StalePackets
           THEN /\ host' = [host EXCEPT !.stale = @ + 1]
                /\ toHost' = Tail(toHost) /\ UNCHANGED toRadio
           ELSE TryAgain
    /\ UNCHANGED <<radioVars, faults, harm, placeVars>>

\* No answer in 1.2 seconds: none will come, or it is late.
HostWaits ==
    /\ ~Ended /\ toHost = <<>>
    /\ \/ toRadio = <<>> /\ UNCHANGED faults
       \/ toRadio # <<>> /\ faults < MaxFaults /\ faults' = faults + 1
    /\ TryAgain
    /\ UNCHANGED <<radioVars, harm, placeVars>>

-----------------------------------------------------------------------------
(* The link.                                                               *)

Lose ==
    /\ faults < MaxFaults /\ faults' = faults + 1
    /\ \/ toRadio # <<>> /\ toRadio' = Tail(toRadio) /\ UNCHANGED toHost
       \/ toHost # <<>> /\ toHost' = Tail(toHost) /\ UNCHANGED toRadio
    /\ UNCHANGED <<host, radioVars, harm, placeVars>>

-----------------------------------------------------------------------------
(* The serial task.                                                        *)

Serves == save = Idle /\ ~radio.loading
Quiet == toRadio = <<>> /\ (toHost = <<>> \/ Ended)

Replied(data) ==
    toHost' = Append(toHost, [request |-> Head(toRadio), data |-> data])

\* The image through Staged::read: staged blocks over the configuration region.
View == (staging.blocks \cup stored) \ staging.spoilt

\* A place is read from its log.  A reading that fails is not answered (Lose).
Answered ==
    /\ Serves /\ toRadio # <<>>
    /\ Head(toRadio).op # "write"
    /\ Replied(IF Head(toRadio).op = "hello" THEN {}
               ELSE IF Head(toRadio).block = Whole THEN View
               ELSE View \cap {Head(toRadio).block})
    /\ toRadio' = Tail(toRadio)
    /\ UNCHANGED <<host, radioVars, faults, harm, placeVars>>

\* The first image block opens the write in Staged; after a failed commit it is
\* open already, and its blocks and the fill of that commit are still there.
Opened == IF staging.open THEN staging ELSE [Shut EXCEPT !.open = TRUE, !.kept = stored]

\* The block is staged whole, or over the old block the failed commit filled in.
Stages(block) ==
    /\ block \notin staging.spoilt
    /\ \/ staging' = [Opened EXCEPT !.blocks = @ \cup {block}]
       \/ /\ staging.tried /\ block \notin staging.blocks \cup staging.kept
          /\ staging' = [staging EXCEPT !.spoilt = @ \cup {block}]

StoresImage(block) ==
    /\ block \in Image
    /\ Stages(block)
    /\ radio' = [radio EXCEPT !.written = TRUE]

StoresPlace(block) ==
    /\ block \in PlacePart
    /\ radio' = [radio EXCEPT !.written = TRUE, !.placeWritten = TRUE,
                              !.gathered = @ \cup {block}]
    /\ UNCHANGED staging

\* A spoilt block would need bits set again; or the memory fails, perhaps after
\* it has opened the write.  Nothing is acknowledged.
Refuses(block) ==
    /\ block \in Image
    /\ \/ block \in staging.spoilt /\ UNCHANGED <<staging, faults>>
       \/ /\ faults < MaxFaults /\ faults' = faults + 1
          /\ staging' \in {staging, Opened}
    /\ radio' = [radio EXCEPT !.written = TRUE]

\* The first block of a write blanks the configuration.
Write ==
    /\ Serves /\ toRadio # <<>>
    /\ Head(toRadio).op = "write"
    /\ \/ /\ StoresImage(Head(toRadio).block) \/ StoresPlace(Head(toRadio).block)
          /\ Replied({}) /\ UNCHANGED faults
       \/ Refuses(Head(toRadio).block) /\ UNCHANGED toHost
    /\ toRadio' = Tail(toRadio)
    /\ running' = IF radio.written THEN running ELSE "blank"
    /\ UNCHANGED <<host, stored, at, harm, placeVars>>

\* A reload between the blocks of the place leaves none of them.
Parts == host.step = "place" /\ host.block # Min(PlacePart)
Sent == host.step \in {"place", "done"}
ReadBack == host.step = "final" \/ Sent

\* What a commit makes of the configuration region: the staged blocks, and for
\* the rest what was there when the write was opened.
Committed ==
    IF staging.open THEN (staging.blocks \cup staging.kept) \ staging.spoilt ELSE stored

CommitSucceeds ==
    /\ stored' = Committed /\ staging' = Shut
    /\ UNCHANGED faults

\* The memory fails in the fill, the erase or the copy: the region is left with
\* any part of the image, and the write stays open.
CommitFails ==
    /\ staging.open
    /\ faults < MaxFaults /\ faults' = faults + 1
    /\ stored' \in SUBSET Committed
    /\ staging' = [staging EXCEPT !.tried = TRUE]

\* A place gathered whole is saved, whatever became of the image.
GatheredPlace == radio.gathered = PlacePart

TakesPlace ==
    \/ GatheredPlace /\ BeginSave(HostedPlace)
    \/ GatheredPlace /\ Unreadable
    \/ ~GatheredPlace /\ UNCHANGED placeVars

\* A second without a byte: the write is committed, and nobody asks how that
\* went.
Reload ==
    /\ Serves /\ Quiet /\ radio.written
    /\ CommitSucceeds \/ CommitFails
    /\ radio' = [radio EXCEPT !.written = FALSE, !.gathered = {}, !.loading = TRUE]
    /\ TakesPlace
    /\ harm' = [image |-> harm.image \/ (staging'.open /\ ReadBack),
                place |-> harm.place \/ IF GatheredPlace THEN save' = Idle ELSE Parts]
    /\ UNCHANGED <<hostVars, running, at>>

\* Anything but the whole new image loads as what was there before, or as none.
Loaded(image) == IF image = Image THEN "new" ELSE "other"

\* The index is rebuilt through Staged::read; it is empty if any reading fails.
Loads ==
    \/ running' = Loaded(View) /\ UNCHANGED faults
    \/ faults < MaxFaults /\ faults' = faults + 1 /\ running' = "unread"

\* The image is loaded, and the place read if it was written, or at boot.
Publish ==
    /\ save = Idle /\ radio.loading
    /\ Loads
    /\ radio' = [radio EXCEPT !.loading = FALSE, !.placeWritten = FALSE]
    /\ IF radio.placeWritten
         THEN /\ \E found \in Place \cup {None} :
                   /\ Walk(found)
                   /\ at' = IF found = None THEN at ELSE found
              /\ harm' = [harm EXCEPT !.place = @ \/ (next' = None /\ Sent)]
              /\ UNCHANGED <<log, save, recent, programs>>
         ELSE UNCHANGED <<at, harm, placeVars>>
    /\ UNCHANGED <<hostVars, staging, stored>>

\* The operator has moved, and the place has settled, on a quiet link.
TakePlace ==
    /\ Serves /\ Quiet /\ ~radio.written
    /\ \E place \in Place \ {at} :
         /\ at' = place
         /\ BeginSave(place) \/ Unreadable
    /\ UNCHANGED <<hostVars, radio, staging, stored, running, faults, harm>>

\* write_operator_state runs on.
SaveRuns ==
    /\ Erase \/ Program
    /\ UNCHANGED <<hostVars, radioVars, faults, harm>>

SaveFails ==
    /\ faults < MaxFaults /\ faults' = faults + 1
    /\ EraseFails \/ ProgramFails
    /\ harm' = [harm EXCEPT !.place = @ \/ (radio.loading /\ Sent)]
    /\ UNCHANGED <<hostVars, radioVars>>

\* The battery is changed: what was staged and gathered is gone.
Restart ==
    /\ PowerCut
    /\ toRadio' = <<>>
    /\ radio' = NewRadio /\ staging' = Shut
    /\ running' = "blank" /\ at' = None
    /\ harm' = [image |-> harm.image \/ (staging.open /\ ReadBack),
                place |-> harm.place \/ Sent]
    /\ UNCHANGED <<host, toHost, stored, faults>>

HostNext == HostReceives \/ HostWaits
SerialNext == Answered \/ Write \/ Reload \/ Publish \/ TakePlace \/ SaveRuns \/ SaveFails

Next == HostNext \/ Lose \/ SerialNext \/ Restart

Spec == Init /\ [][Next]_vars

\* The host's program runs, the link delivers, and the serial task is polled
\* when bytes or its timers wake it.
FairSpec ==
    /\ Spec
    /\ WF_vars(HostReceives) /\ WF_vars(HostWaits)
    /\ WF_vars(Answered) /\ WF_vars(Write)
    /\ WF_vars(Reload) /\ WF_vars(Publish) /\ WF_vars(SaveRuns \/ SaveFails)

-----------------------------------------------------------------------------
(* Properties.                                                             *)

HostTypeOK ==
    /\ host \in Host /\ radio \in Radio /\ staging \in Staging
    /\ toRadio \in Seq(Request) /\ toHost \in Seq(Reply)
    /\ stored \subseteq Image
    /\ running \in {"blank", "other", "new", "unread"} /\ at \in Place \cup {None}
    /\ faults \in 0..MaxFaults /\ harm \in [image : BOOLEAN, place : BOOLEAN]

\* A session ends whatever the link loses, and a write a host has begun is always
\* taken for finished: the radio is not left waiting with its configuration blanked
\* for it.  What it then loads may still be no image.
SessionEnds ==
    /\ <>Ended
    /\ radio.written ~> ~radio.written

\* write_afik_image, serial.rs: once the image has been read back whole the radio
\* holds all of it, staged or stored, through every reload and repetition, and runs
\* it whenever it is neither taking a write nor loading.  Nothing is promised once
\* a commit has failed, or the battery was pulled with a write uncommitted, after
\* the last reading was asked for; and a load that could not read the memory leaves
\* the radio with no image until the next.
VerifiedRuns ==
    Sent /\ ~harm.image =>
        /\ View = Image
        /\ ~radio.written /\ ~radio.loading => running \in {"new", "unread"}

\* workflow.rs: an image written and read back is what the radio comes to run,
\* through lost, late and repeated messages, refused blocks, and reloads and failed
\* commits in the middle of the write, with the exceptions of VerifiedRuns.
ImageReaches == host.step = "done" ~> running \in {"new", "unread"} \/ harm.image

\* workflow.rs: the radio takes the image and the place together, and is given the
\* place whatever became of the image, unless it reloads between the place's
\* blocks, its memory fails over the place or its battery is pulled.
PlaceReaches ==
    <>(\/ /\ Sent /\ ~radio.written /\ at = HostedPlace
          /\ running \in {"new", "unread"} \/ harm.image
       \/ host.step = "failed" \/ harm.place)
=============================================================================
