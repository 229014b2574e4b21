---------------------------- MODULE ReceivePass ----------------------------
(***************************************************************************)
(* The receive part of the interface task's pass (radio-app::interface):   *)
(* the scan's clock, the publications it adopts, the operator's keys, dual *)
(* watch, battery save, the catch, and the receiver they share.            *)
(*                                                                         *)
(* A pass goes through its turns in order: "clock", "adopt", "keys",       *)
(* "idle" or "acted" (whether the key was an action), "radio", "tune" and, *)
(* after a tune of a dwelling scan, "draw".  The serial task runs where    *)
(* the pass awaits: before "clock", "keys" and "draw", and on the air.     *)
(* Deadlines are not measured: an armed timer expires some time, and       *)
(* battery save and dual watch act when they like, if they may.            *)
(***************************************************************************)
EXTENDS ReceiveControl

CONSTANTS
    View,          \* what a slot's list may be narrowed to
    Duplex,        \* channels heard on both their frequencies
    StartPlace,    \* the slots, and dual watch, the radio starts with
    HostedPlace,   \* the start places a host writes
    Readable,      \* what may be readable in one step, some or all of Channel
    Fails,         \* the outcomes of a bus transfer: {FALSE} or both
    MaxActs        \* bound of the model on acts of the operator and the host

Slot == [mode : {"Vfo", "Memory"}, view : View]

\* The one timer of the pass, and whether it has expired.
Timer == [token : Token, due : BOOLEAN]

\* What becomes of the configuration: blanked by a write, loaded again, loaded
\* with a place the host wrote, or republished for its squelch alone.
Publication == {"Blank", "Image", "Place", "Squelch"}

ASSUME PassAssumption ==
    /\ View \subseteq (SUBSET Channel) \ {{}} /\ Channel \in View
    /\ Duplex \subseteq Channel
    /\ StartPlace \subseteq [slot : Slot, other : Slot, dual : BOOLEAN]
    /\ HostedPlace \subseteq [slot : Slot, kept : Channel] /\ HostedPlace # {}
    /\ Readable \subseteq SUBSET Channel /\ {{}, Channel} \subseteq Readable
    /\ Fails \subseteq BOOLEAN /\ FALSE \in Fails
    /\ MaxActs \in Nat
    /\ None \notin Timer /\ None \notin Publication

VARIABLES
    ui,         \* the interface task
    rx,         \* Receiver
    resume,     \* scan_resume of the configuration
    published,  \* PROGRAMMED
    writing,    \* the host has written, and the image is not loaded again
    turn,       \* where the pass is
    acts        \* acts so far, of MaxActs

vars == <<ui, rx, resume, published, writing, turn, acts>>

\* DualWatch stops 0 and 1 are the two sides of the selected slot, 2 and 3 of
\* the other; 0 is home.
Stop == 0 .. 3

Interface ==
    [slot : Slot, other : Slot,                    \* the shell's two slots
     sel : Controller \cup {None}, oth : Controller \cup {None},
     kept : Channel \cup {None}, okept : Channel \cup {None},
     programmed : BOOLEAN,                         \* it has channels
     pending : Setup \cup {None}, staged : BOOLEAN,
     timer : Timer \cup {None},
     stop : Stop, late : BOOLEAN,   \* the link held a move of dual watch back
     dual : BOOLEAN, busy : BOOLEAN, settled : BOOLEAN,
     catch : {"None", "Asked", "Running"}, screen : {"Operating", "Catch"}]

Receiver ==
    [tuned : Setup \cup {None}, probed : BOOLEAN, asleep : BOOLEAN,
     catching : BOOLEAN, faulted : BOOLEAN]

Turn == {"clock", "adopt", "onair", "keys", "idle", "acted", "radio", "tune", "draw"}

ScanOn(u)   == u.sel # None /\ Scanning(u.sel)
Dwelling(u) == ~u.staged /\ u.sel # None /\ u.sel.phase = "Dwell"
Retune(u)   == IF u.sel = None THEN None ELSE SetupOf(u.sel)

-----------------------------------------------------------------------------
(* Applying an update.                                                     *)

TimerAfter(timer, update) ==
    CASE update.timer = "Unchanged" -> timer
      [] update.timer = "Cancel"    -> None
      [] update.timer = "Arm"       -> [token |-> update.ctl.active, due |-> FALSE]

Applied(u, update) ==
    [u EXCEPT !.pending = IF update.tune = None THEN @ ELSE update.tune,
              !.timer   = TimerAfter(@, update)]
Apply(u, update)      == [Applied(u, update) EXCEPT !.sel = update.ctl]
ApplyOther(u, update) == [Applied(u, update) EXCEPT !.oth = update.ctl]

\* activate_slot.
ActivateSlot(slot, programmed, keep, readable) ==
    CASE slot.mode = "Vfo" -> Activate({Vfo}, None, readable)
      [] slot.mode = "Memory" /\ programmed -> Activate(slot.view, keep, readable)
      [] OTHER -> None

\* The selected slot is built again, and what it asks for is tuned.
Rebuilt(u, keep, readable) ==
    LET sel == ActivateSlot(u.slot, u.programmed, keep, readable)
    IN  [u EXCEPT !.sel = sel, !.staged = FALSE,
                  !.pending = IF sel = None THEN None ELSE SetupOf(sel)]

NewInterface(slot, other, dual, readable) ==
    LET sel == ActivateSlot(slot, TRUE, None, readable)
    IN  [slot |-> slot, other |-> other, sel |-> sel,
         oth |-> ActivateSlot(other, TRUE, None, readable),
         kept |-> None, okept |-> None, programmed |-> TRUE,
         pending |-> IF sel = None THEN None ELSE SetupOf(sel), staged |-> FALSE,
         timer |-> None, stop |-> 0, late |-> FALSE, dual |-> dual, busy |-> FALSE,
         settled |-> FALSE, catch |-> "None", screen |-> "Operating"]

NewReceiver == [tuned |-> None, probed |-> FALSE, asleep |-> FALSE,
                catching |-> FALSE, faulted |-> FALSE]

Init ==
    /\ \E place \in StartPlace, readable \in Readable :
         ui = NewInterface(place.slot, place.other, place.dual, readable)
    /\ rx = NewReceiver
    /\ resume \in Resume
    /\ published = None /\ writing = FALSE
    /\ turn = "clock" /\ acts = 0

Act == acts < MaxActs /\ acts' = acts + 1

-----------------------------------------------------------------------------
(* Time and the serial task.                                               *)

Expire(token) ==
    /\ ui.timer # None /\ ui.timer.token = token /\ ~ui.timer.due
    /\ ui' = [ui EXCEPT !.timer.due = TRUE]
    /\ UNCHANGED <<rx, resume, published, writing, turn, acts>>

Awaits == turn \in {"clock", "keys", "draw", "onair"}

\* The first block of a host's write blanks the configuration ...
HostWrites ==
    /\ Act /\ Awaits /\ ~writing
    /\ published' = "Blank" /\ writing' = TRUE
    /\ UNCHANGED <<ui, rx, resume, turn>>

\* ... and a quiet second after the last the image is loaded again, if it is
\* whole.
HostDone ==
    /\ Awaits /\ writing /\ published # "Blank"
    /\ published' \in {"Image", "Place", "Blank"} /\ writing' = FALSE
    /\ UNCHANGED <<ui, rx, resume, turn, acts>>

-----------------------------------------------------------------------------
(* The top of the pass.                                                    *)

\* The scan's own clock; a staged squelch holds it.
ClockRings == ui.timer # None /\ ui.timer.due /\ ~ui.staged

ScanClock(readable) ==
    /\ turn = "clock" /\ ClockRings
    /\ ui' = LET u == [ui EXCEPT !.timer = None]
             IN  IF u.sel = None THEN u
                 ELSE Apply(u, TimerElapsed(u.sel, ui.timer.token, resume, readable))
    /\ turn' = "adopt"
    /\ UNCHANGED <<rx, resume, published, writing, acts>>

NoClock ==
    /\ turn = "clock" /\ ~ClockRings
    /\ turn' = "adopt"
    /\ UNCHANGED <<ui, rx, resume, published, writing, acts>>

\* adopt_publication and what the pass does around it, for one that says dual
\* watch is `dual`.  A blank one clears the bank filters; a load may.
Adopted(kind, place, dual, readable) ==
    LET blank   == kind = "Blank"
        empty   == ~ui.programmed
        view(s) == [s EXCEPT !.view = IF blank THEN Channel ELSE @]
        memory(s) == [view(s) EXCEPT !.mode = "Memory"]
        chosen  == place = None /\ empty /\ kind \in {"Image", "Place"}
        u == [ui EXCEPT !.programmed = IF kind = "Squelch" THEN @ ELSE ~blank,
                        !.dual   = dual,
                        !.slot   = IF place # None THEN place.slot
                                   ELSE IF chosen THEN memory(@) ELSE view(@),
                        !.other  = IF chosen THEN memory(@) ELSE view(@),
                        !.kept   = IF place # None THEN place.kept
                                   ELSE IF chosen THEN None ELSE @,
                        !.okept  = IF place # None \/ chosen THEN None ELSE @,
                        !.screen = IF place # None THEN "Operating" ELSE @]
    IN  [Rebuilt(u, u.kept, readable)
           EXCEPT !.oth = ActivateSlot(u.other, u.programmed, u.okept, readable),
                  !.timer = None]

Adopt ==
    /\ turn \in {"adopt", "onair"} /\ published # None
    /\ \E place \in IF published = "Place" THEN HostedPlace ELSE {None},
          dual \in IF published = "Blank" THEN {FALSE} ELSE BOOLEAN,
          readable \in Readable :
         ui' = Adopted(published, place, dual, readable)
    /\ published' = None
    /\ UNCHANGED <<rx, resume, writing, turn, acts>>

\* PTT is taken once nothing changes what it would transmit on.
Transmit ==
    /\ turn = "adopt" /\ published = None /\ Act
    /\ ~ScanOn(ui) /\ ui.catch = "None" /\ ui.pending = None /\ ~ui.staged
    /\ ui.sel # None /\ rx.tuned # None /\ ~rx.faulted
    /\ turn' = "onair"
    /\ UNCHANGED <<ui, rx, resume, published, writing>>

ToKeys ==
    /\ turn = "adopt" /\ published = None
    /\ turn' = "keys"
    /\ UNCHANGED <<ui, rx, resume, published, writing, acts>>

TunedTo(setup) == [tuned |-> setup, probed |-> FALSE, asleep |-> FALSE,
                   catching |-> FALSE, faulted |-> FALSE]

\* RestoreReceive tunes what was tuned before; the selected slot is where a
\* reply comes.
Restore ==
    /\ turn = "onair" /\ published = None
    /\ rx' = TunedTo(rx.tuned)
    /\ ui' = [ui EXCEPT !.stop = 0,
                        !.pending = IF ui.stop # 0 THEN Retune(ui) ELSE @]
    /\ turn' = "keys"
    /\ UNCHANGED <<resume, published, writing, acts>>

-----------------------------------------------------------------------------
(* The keys.  The shell acts on a key whatever becomes of its intent.  A   *)
(* staged squelch, or having no channel, swallows most intents.            *)

Swallowed == ui.staged \/ ui.sel = None

\* A key that is free: no scan to stop, and the screen it belongs to.
KeyOn(screen) == turn = "keys" /\ Act /\ ~ScanOn(ui) /\ ui.screen = screen

ActedOn(u) ==
    /\ ui' = u /\ turn' = "acted"
    /\ UNCHANGED <<rx, resume, published, writing>>

NoKey ==
    /\ turn = "keys" /\ turn' = "idle"
    /\ UNCHANGED <<ui, rx, resume, published, writing, acts>>

\* SetSource, and TuneVfo, which rebuilds the VFO at its new frequency.
SetSource ==
    /\ KeyOn("Operating")
    /\ \E slot \in Slot, readable \in Readable :
         /\ slot # ui.slot \/ slot.mode = "Vfo"
         /\ ActedOn(Rebuilt([ui EXCEPT !.slot = slot, !.kept = None], None, readable))

OtherMode(slot) == [slot EXCEPT !.mode = IF @ = "Vfo" THEN "Memory" ELSE "Vfo"]

ToggleVfo ==
    /\ KeyOn("Operating")
    /\ \E readable \in Readable :
         ActedOn([Rebuilt([ui EXCEPT !.slot = OtherMode(@)], ui.kept, readable)
                    EXCEPT !.timer = None])

SwappedUntuned(u) ==
    [u EXCEPT !.slot = u.other, !.other = u.slot, !.sel = u.oth, !.oth = u.sel,
              !.kept = u.okept, !.okept = u.kept, !.staged = FALSE, !.timer = None]
Swapped(u) ==
    [u EXCEPT !.slot = u.other, !.other = u.slot, !.sel = u.oth, !.oth = u.sel,
              !.kept = u.okept, !.okept = u.kept, !.staged = FALSE, !.timer = None,
              !.pending = IF u.oth = None THEN None ELSE SetupOf(u.oth)]

SwapSlot == KeyOn("Operating") /\ ActedOn(Swapped(ui))

\* stage_squelch: the retune is the acknowledgement.
Staged(u) ==
    IF u.sel = None \/ u.pending # None \/ u.staged THEN u
    ELSE [u EXCEPT !.staged = TRUE, !.pending = [SetupOf(u.sel) EXCEPT !.open = FALSE]]

SetSquelch == KeyOn("Operating") /\ ActedOn(Staged(ui))

\* The key for it works on every screen.
ToggleMonitor ==
    /\ \E screen \in {"Operating", "Catch"} : KeyOn(screen)
    /\ ActedOn(IF Swallowed THEN ui
               ELSE Apply(ui, SetMonitor(ui.sel, ~ui.sel.monitor)))

ToggleRxTone ==
    /\ KeyOn("Operating")
    /\ ActedOn(IF Swallowed THEN ui ELSE [ui EXCEPT !.pending = SetupOf(ui.sel)])

StartScan ==
    /\ KeyOn("Operating") /\ ui.slot.mode = "Memory"
    /\ \E readable \in Readable :
         ActedOn(IF Swallowed THEN ui ELSE Apply(ui, StartScanning(ui.sel, readable)))

\* While it scans, every key stops the scan.
StopScan ==
    /\ turn = "keys" /\ Act /\ ScanOn(ui)
    /\ ActedOn(IF Swallowed THEN ui ELSE Apply(ui, StopScanning(ui.sel)))

\* SelectNext, SelectPrevious, SelectIndex and SelectCalling.
SelectChannel ==
    /\ KeyOn("Operating") /\ ui.slot.mode = "Memory"
    /\ \E index \in Channel, readable \in Readable :
         ActedOn(IF Swallowed THEN ui ELSE Apply(ui, Select(ui.sel, index, readable)))

StartCatch ==
    /\ KeyOn("Operating")
    /\ ActedOn([ui EXCEPT !.screen = "Catch",
                          !.catch  = IF Swallowed THEN @ ELSE "Asked"])

StopCatch ==
    /\ KeyOn("Catch")
    /\ ActedOn(IF Swallowed THEN [ui EXCEPT !.screen = "Operating"]
               ELSE [ui EXCEPT !.screen = "Operating", !.catch = "None",
                               !.pending = Retune(ui)])

\* What was caught becomes the VFO.
UseCatch ==
    /\ KeyOn("Catch") /\ ui.catch = "Running" /\ ~Swallowed
    /\ \E readable \in Readable :
         ActedOn([Rebuilt([ui EXCEPT !.slot.mode = "Vfo", !.screen = "Operating",
                                     !.catch = "None"], ui.kept, readable)
                    EXCEPT !.timer = None])

\* The shell flips the switch; the interface only redraws.
ToggleDual ==
    /\ KeyOn("Operating")
    /\ ui' = [ui EXCEPT !.dual = ~@]
    /\ turn' = "idle"
    /\ UNCHANGED <<rx, resume, published, writing>>

Key == \/ SetSource \/ ToggleVfo \/ SwapSlot \/ SetSquelch \/ ToggleMonitor
       \/ ToggleRxTone \/ StartScan \/ StopScan \/ SelectChannel
       \/ StartCatch \/ StopCatch \/ UseCatch \/ ToggleDual

-----------------------------------------------------------------------------
(* Dual watch, and the place.                                              *)

Both(c) == c # None /\ c.index \in Duplex

Stops(u) ==
    LET other == u.dual /\ u.oth # None
    IN  {0} \cup (IF Both(u.sel) THEN {1} ELSE {})
            \cup (IF other THEN {2} ELSE {})
            \cup (IF other /\ Both(u.oth) THEN {3} ELSE {})

Watched(u) == IF u.stop < 2 THEN u.sel ELSE u.oth

\* side_setup.
StopSetup(u) ==
    [SetupOf(Watched(u)) EXCEPT !.side = IF u.stop % 2 = 0 THEN "Receive" ELSE "Transmit"]

Watching(u) ==
    /\ Stops(u) # {0} /\ u.catch = "None" /\ ~u.staged
    /\ u.sel # None /\ ~Scanning(u.sel)

\* The memory channel of each slot is remembered while its VFO is in use.
Placed(u) ==
    [u EXCEPT !.kept  = IF u.sel # None /\ u.slot.mode = "Memory" THEN u.sel.index ELSE @,
              !.okept = IF u.oth # None /\ u.other.mode = "Memory" THEN u.oth.index ELSE @]

Home(u) ==
    [u EXCEPT !.stop = 0,
              !.pending = IF u.stop # 0 /\ @ = None THEN Retune(u) ELSE @]

\* An action, or nothing to watch, brings the receiver home.
WatchHome ==
    /\ turn = "acted" \/ (turn = "idle" /\ ~Watching(ui))
    /\ ui' = Placed(Home(ui))
    /\ turn' = "radio"
    /\ UNCHANGED <<rx, resume, published, writing, acts>>

WatchStays ==
    /\ turn = "idle" /\ Watching(ui)
    /\ ui.pending # None \/ ui.stop \in Stops(ui)
    /\ ui' = Placed(ui)
    /\ turn' = "radio"
    /\ UNCHANGED <<rx, resume, published, writing, acts>>

\* A quiet stop is left when its time is up, and one that is gone at once.
WatchMoves ==
    /\ turn = "idle" /\ Watching(ui) /\ ui.pending = None
    /\ ui.stop \in Stops(ui) => ~ui.busy
    /\ LET u == [ui EXCEPT !.stop = Following(Stops(ui), @)]
       IN  u.stop # ui.stop /\ ui' = Placed([u EXCEPT !.pending = StopSetup(u)])
    /\ turn' = "radio"
    /\ UNCHANGED <<rx, resume, published, writing, acts>>

-----------------------------------------------------------------------------
(* The receiver, while the link leaves it the bus.                         *)

\* A probed channel the scan has stopped on is set up in full.
Settling(u) ==
    [u EXCEPT !.pending = IF rx.probed /\ @ = None /\ ~Dwelling(u) THEN Retune(u) ELSE @]

PassEnds(u) ==
    /\ ui' = u /\ turn' = "clock"
    /\ UNCHANGED <<resume, published, writing, acts>>

\* A receiver that has failed does nothing more.
StayFaulted ==
    /\ turn = "radio" /\ rx.faulted
    /\ PassEnds([ui EXCEPT !.pending = None, !.staged = FALSE])
    /\ UNCHANGED rx

BusBusy ==
    /\ turn = "radio" /\ ~rx.faulted
    /\ PassEnds([Settling(ui) EXCEPT !.late = @ \/ (ui.stop # 0 /\ ui.pending # None)])
    /\ UNCHANGED rx

Routed == rx.tuned # None /\ ~rx.catching

\* What keeps battery save from putting the receiver to sleep.
Active ==
    \/ Watching(ui) \/ ScanOn(ui) \/ ui.staged \/ ui.pending # None
    \/ (ui.sel # None /\ ui.sel.monitor)
    \/ ui.screen # "Operating" \/ ~Routed

Sleep ==
    /\ turn = "radio" /\ ~rx.faulted /\ ~Active /\ ~rx.asleep
    /\ \E fails \in Fails :
         rx' = IF fails THEN [rx EXCEPT !.faulted = TRUE] ELSE [rx EXCEPT !.asleep = TRUE]
    /\ turn' = "tune"
    /\ UNCHANGED <<ui, resume, published, writing, acts>>

Failed == [rx EXCEPT !.faulted = TRUE, !.catching = FALSE]

\* Receiver::tune.
TuneOf(setup, fails) == IF fails THEN Failed ELSE TunedTo(setup)

Wake ==
    /\ turn = "radio" /\ ~rx.faulted /\ rx.asleep
    /\ \E fails \in Fails : rx' = TuneOf(rx.tuned, fails)
    /\ ui' = [ui EXCEPT !.settled = FALSE]
    /\ turn' = "tune"
    /\ UNCHANGED <<resume, published, writing, acts>>

NoSave ==
    /\ turn = "radio" /\ ~rx.faulted /\ ~(rx.asleep /\ Active)
    /\ turn' = "tune"
    /\ UNCHANGED <<ui, rx, resume, published, writing, acts>>

\* start_catch, then poll_catch; until it is over the pass neither tunes nor
\* samples.
CatchRuns ==
    /\ turn = "tune" /\ ui.catch # "None"
    /\ \E fails \in Fails :
         rx' = IF ui.catch = "Running" THEN [rx EXCEPT !.faulted = @ \/ fails]
               ELSE [rx EXCEPT !.asleep = FALSE, !.catching = TRUE,
                               !.faulted = @ \/ fails]
    /\ PassEnds([Settling(ui) EXCEPT !.catch = "Running"])

\* A retune is done; one of dual watch's that was late may be done too late.
Retuned(u) ==
    [u EXCEPT !.pending = None,
              !.late = @ /\ (Watched(u) = None \/ u.pending # StopSetup(u))]

\* A scan only probes the channel it moves to, and passes over a quiet one.
CanProbe == ~rx.faulted /\ rx.tuned # None /\ ~rx.asleep /\ ~rx.catching /\ ~ui.pending.open

ProbeQuiet ==
    /\ turn = "tune" /\ ui.catch = "None" /\ Dwelling(ui) /\ ui.pending # None
    /\ CanProbe
    /\ rx' = [rx EXCEPT !.tuned = ui.pending, !.probed = TRUE]
    /\ \E readable \in Readable :
         PassEnds(Apply(Retuned(ui), SkipQuiet(ui.sel, readable)))

\* Otherwise it is set up in full, and a staged squelch is accepted: the
\* configuration is published again with it (adopt_squelch).
Tune(fails) ==
    /\ turn = "tune" /\ ui.catch = "None" /\ ui.pending # None
    /\ rx' = TuneOf(ui.pending, fails \/ rx.faulted)
    /\ published' = IF ui.staged /\ ~rx'.faulted THEN "Squelch" ELSE published
    /\ ui' = [Retuned(ui) EXCEPT !.staged = FALSE, !.busy = FALSE,
                                 !.settled = FALSE]
    /\ turn' = IF Dwelling(ui) THEN "draw" ELSE "clock"
    /\ UNCHANGED <<resume, writing, acts>>

\* The dwell counts from when its channel is tuned and drawn.
Draw ==
    /\ turn = "draw"
    /\ ui' = IF ui.sel = None THEN ui ELSE Apply(ui, RestartDwell(ui.sel))
    /\ turn' = "clock"
    /\ UNCHANGED <<rx, resume, published, writing, acts>>

CanSampleFirst ==
    /\ turn = "tune" /\ ui.catch = "None"
    /\ Routed /\ ~rx.asleep /\ ~rx.faulted
CanSample ==
    /\ turn = "tune" /\ ui.catch = "None" /\ ui.pending = None
    /\ Routed /\ ~rx.asleep /\ ~rx.faulted

\* The reading belongs to the slot the receiver is on.  Dual watch holds on a
\* carrier, a scan on a signal; the first reading after a tune decides neither.
Observed(u, reading, readable) ==
    LET heard  == [u EXCEPT !.busy = u.settled /\ reading # "Quiet", !.settled = TRUE]
        judged == ~u.staged /\ (u.settled \/ ~ScanOn(u))
        signal == reading = "Signal"
    IN  IF Watched(u) = None THEN u
        ELSE IF ~judged THEN heard
        ELSE IF u.stop < 2 THEN Apply(heard, Observe(u.sel, signal, resume, readable))
        ELSE ApplyOther(heard, Observe(u.oth, signal, resume, readable))

Sample(reading, readable) ==
    /\ CanSample
    /\ PassEnds(Observed(Settling(ui), reading, readable))
    /\ UNCHANGED rx

SampleFails ==
    /\ CanSample /\ TRUE \in Fails
    /\ rx' = Failed
    /\ PassEnds(Settling(ui))

\* No reading is due, or none can be taken.
NoSample ==
    /\ turn = "tune" /\ ui.catch = "None" /\ ui.pending = None
    /\ PassEnds(Settling(ui))
    /\ UNCHANGED rx

-----------------------------------------------------------------------------
Reading == {"Quiet", "Carrier", "Signal"}

Pass ==
    \/ \E readable \in Readable : ScanClock(readable)
    \/ NoClock \/ Adopt \/ ToKeys \/ Restore \/ NoKey
    \/ WatchHome \/ WatchStays \/ WatchMoves
    \/ StayFaulted \/ BusBusy \/ Sleep \/ Wake \/ NoSave
    \/ CatchRuns \/ ProbeQuiet \/ (\E fails \in Fails : Tune(fails)) \/ Draw
    \/ \E reading \in Reading, readable \in Readable : Sample(reading, readable)
    \/ SampleFails \/ NoSample

Next ==
    \/ \E token \in Token : Expire(token)
    \/ HostWrites \/ HostDone \/ Transmit \/ Key \/ Pass

Spec == Init /\ [][Next]_vars

\* The executor runs the task; a timer left armed expires; memory that is
\* read again and again is read in the end.
Fairness ==
    /\ WF_vars(Pass)
    /\ \A token \in Token : WF_vars(Expire(token))
    /\ SF_vars(ScanClock(Channel))

FairSpec == Spec /\ Fairness

-----------------------------------------------------------------------------
(* Properties.                                                             *)

\* Type correctness.
TypeOK ==
    /\ ui \in Interface /\ rx \in Receiver
    /\ resume \in Resume
    /\ published \in Publication \cup {None}
    /\ writing \in BOOLEAN /\ turn \in Turn /\ acts \in 0 .. MaxActs

\* A scan always has its clock: the timer the pass holds carries the token
\* the controller waits for, whatever was read, rebuilt, swapped or stopped
\* in between.  Without it the radio shows that it scans and never moves.
ScanHasClock ==
    /\ ScanOn(ui) => ui.timer # None /\ ui.timer.token = ui.sel.active
    /\ ui.oth # None => ~Scanning(ui.oth)
    /\ ui.timer # None => ScanOn(ui)

\* A squelch level the operator chose and the radio has not set yet is always
\* on its way: the keys are dead until the retune that acknowledges it.
StagedIsOnItsWay == ui.staged => ui.pending # None

\* The receiver is where the radio says it listens: once nothing is left to
\* tune or to adopt, it is on the selected slot's channel whenever dual watch
\* says it is home, and elsewhere only on dual watch's stop.  Two cases are
\* apart.  A publication adopted while dual watch is away brings the receiver
\* home and leaves the watch where it was; and a move the link held back is
\* made although dual watch has come home since, until the next retune.
ListensWhereItSays ==
    (turn = "clock" /\ published = None /\ ui.pending = None /\ ui.catch = "None"
       /\ ~rx.faulted /\ ~ui.late /\ ui.sel # None /\ Watched(ui) # None)
    => rx.tuned \in {StopSetup(ui), SetupOf(ui.sel)}

\* A scan holds or stops only for a signal on the very channel it is on, the
\* moves held back apart.
HoldsWhatItHears ==
    [][(ScanOn(ui) /\ ~ui.late /\ turn = "tune" /\ ui'.sel # ui.sel /\ ui'.sel.phase # "Dwell")
         => rx.tuned = SetupOf(ui.sel)]_vars

DwellsAt(index) ==
    /\ ui.sel # None /\ ui.sel.phase = "Dwell" /\ ui.sel.index = index
    /\ Walk(ui.sel, Channel) \ {index} # {}

\* A dwell ends, though the memory may fail to be read and the link may hold
\* the bus: no scan sits on one channel for good.
DwellEnds == \A index \in Channel : DwellsAt(index) ~> ~DwellsAt(index)
=============================================================================
