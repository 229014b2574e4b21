------------------------------ MODULE AppTasks ------------------------------
(***************************************************************************)
(* The serial task and the interface task of radio-app, and the signals    *)
(* between them (radio-app::state).                                        *)
(*                                                                         *)
(* The serial task owns the memory.  The first block a host writes blanks  *)
(* the configuration; once the link has been quiet for a second the image  *)
(* is loaded again.  Each blank and each load is published under a         *)
(* generation of its own.  The interface task adopts a publication at the  *)
(* top of a pass, follows the operator, and offers a place that has not    *)
(* changed for three seconds to be written down.                           *)
(*                                                                         *)
(* The tasks share one executor, so the serial task runs only where the    *)
(* interface task awaits: between passes, and on the K1 also while the     *)
(* keypad is scanned in the middle of one.                                 *)
(***************************************************************************)
EXTENDS Naturals, FiniteSetsExt

CONSTANTS
    Channel,       \* places in the channel list
    Squelch,       \* squelch levels
    Dual,          \* positions of the dual watch switch, BOOLEAN or {FALSE}
    Conservative,  \* the level of RadioConfig::conservative
    Hosted,        \* the configurations a host writes
    HostedPlace,   \* the start places a host writes
    None,          \* an absent Option
    ScanYields,    \* of the targets: Keypad::scan awaits (TRUE, the K1) or
                   \* returns at once (FALSE, the K5)
    MemoryFails,   \* the memory may refuse a write
    MaxGeneration, \* bounds of the model on generations (they wrap at 2^32),
    MaxYielding    \* the second where the scan awaits

\* Programmed: the summary of a loaded image.
Config == [channels : SUBSET Channel, squelch : Squelch, dual : Dual]
Empty  == [channels |-> {}, squelch |-> Conservative, dual |-> FALSE]

\* OperatorState: the source and channel of the selected slot, the squelch and
\* the dual watch switch.
Place == [mode : {"vfo", "memory"}, channel : Channel \cup {None},
          squelch : Squelch, dual : Dual]

ASSUME AppAssumption ==
    /\ Channel \subseteq Nat /\ None \notin Channel
    /\ Conservative \in Squelch /\ None \notin Squelch
    /\ Dual \subseteq BOOLEAN /\ FALSE \in Dual
    /\ Hosted \subseteq Config /\ HostedPlace \subseteq Place
    /\ None \notin Place
    /\ ScanYields \subseteq BOOLEAN /\ MemoryFails \in BOOLEAN
    /\ MaxGeneration \in Nat \ {0} /\ MaxYielding \in 1..MaxGeneration

VARIABLES
    mem,        \* what a read of the memory finds: image and place
    srv,        \* the serial task
    published,  \* PROGRAMMED
    offered,    \* OPERATOR_PLACE, with the generation it was settled under
    ui,         \* the interface task
    turn,       \* where the interface task awaits
    yields      \* the target's scan awaits; set by the build

vars == <<mem, srv, published, offered, ui, turn, yields>>

\* A host write takes two generations: the even one is its blank.
Blank(generation) == generation % 2 = 0

Memory == [image : Config, place : Place \cup {None}]

\* quiet: a byte within LINK_QUIET_MILLISECONDS; none; none for a second.
\* ranges: generation of the image TX_POLICY was read from, None for deny_all.
Serial == [written : BOOLEAN, placeWritten : BOOLEAN,
           generation : 1..MaxGeneration, quiet : {"busy", "free", "idle"},
           ranges : 1..MaxGeneration \cup {None}]

Publication == [config : Config, generation : 0..MaxGeneration,
                place : Place \cup {None}]

\* OPERATOR_PLACE.
Offer == [place : Place, of : 0..MaxGeneration]

ASSUME NoneAssumption ==
    None \notin Publication /\ None \notin Offer /\ None \notin 1..MaxGeneration

Interface == [config : Config, generation : 0..MaxGeneration, at : Place,
              saved : Place \cup {None}, settling : Place \cup {None},
              ripe : BOOLEAN, pending : BOOLEAN, staged : Squelch \cup {None},
              ranges : 1..MaxGeneration \cup {None}]

-----------------------------------------------------------------------------
(* Boot.  The serial task publishes twice before it first awaits, so only  *)
(* the second publication is ever taken.                                   *)

\* The operator's own squelch replaces the image's.
BootPublication(m) ==
    [config     |-> IF m.place = None THEN m.image
                    ELSE [m.image EXCEPT !.squelch = m.place.squelch],
     generation |-> 1,
     place      |-> m.place]

NewInterface ==
    [config |-> Empty, generation |-> 0,
     at |-> [mode |-> "vfo", channel |-> None, squelch |-> Conservative,
             dual |-> FALSE],
     saved |-> None, settling |-> None, ripe |-> FALSE, pending |-> TRUE,
     staged |-> None, ranges |-> None]

NewSerial ==
    [written |-> FALSE, placeWritten |-> FALSE, generation |-> 1,
     quiet |-> "free", ranges |-> 1]

Init ==
    /\ mem \in [image : Hosted \cup {Empty}, place : {None}]
    /\ srv = NewSerial
    /\ published = BootPublication(mem)
    /\ offered = None
    /\ ui = NewInterface
    /\ turn = "top"
    /\ yields \in ScanYields

\* The battery is changed: the memory is all that is left.
Restart ==
    /\ mem' = mem
    /\ srv' = NewSerial
    /\ published' = BootPublication(mem)
    /\ offered' = None
    /\ ui' = NewInterface
    /\ turn' = "top"
    /\ UNCHANGED yields

-----------------------------------------------------------------------------
(* The serial task.                                                        *)

SerialRunsInScan == turn \in {"top", "scan"}
SerialRuns == turn = "top" \/ yields

\* Any request holds the radio bus idle.
HostRequest ==
    /\ SerialRuns
    /\ srv' = [srv EXCEPT !.quiet = "busy"]
    /\ UNCHANGED <<mem, published, offered, ui, turn, yields>>

\* The first block of a write blanks the configuration and denies every
\* transmission.  A torn or refused image loads as Empty.
BlankedUnheld(s) == [s EXCEPT !.written = TRUE, !.ranges = None]
Blanked(s) == [s EXCEPT !.written = TRUE, !.ranges = None, !.quiet = "busy"]

BlankPublicationKept(generation) ==
    [config |-> ui.config, generation |-> generation, place |-> None]
BlankPublication(generation) ==
    [config |-> Empty, generation |-> generation, place |-> None]

WriteBlock(m, isPlace) ==
    /\ mem' = m
    /\ IF srv.written
         THEN /\ srv' = [srv EXCEPT !.quiet = "busy",
                                    !.placeWritten = @ \/ isPlace]
              /\ UNCHANGED published
         ELSE /\ srv.generation + 1 < IF yields THEN MaxYielding ELSE MaxGeneration
              /\ srv' = [Blanked(srv) EXCEPT !.generation = @ + 1,
                                             !.placeWritten = @ \/ isPlace]
              /\ published' = BlankPublication(srv.generation + 1)

HostWrite ==
    /\ SerialRuns
    /\ \/ \E image \in Hosted \cup {Empty} :
            WriteBlock([mem EXCEPT !.image = image], FALSE)
       \/ \E place \in HostedPlace :
            WriteBlock([mem EXCEPT !.place = place], TRUE)
       \/ MemoryFails /\ WriteBlock(mem, FALSE)
    /\ UNCHANGED <<offered, ui, turn, yields>>

\* A second without a byte after a write: commit, load and publish.
OfferedKept == offered
AfterReload == None

Reloaded(s) == [s EXCEPT !.written = FALSE, !.placeWritten = FALSE, !.quiet = "free",
                         !.generation = @ + 1, !.ranges = s.generation + 1]

Reload ==
    /\ SerialRuns
    /\ srv.written /\ srv.quiet = "idle"
    /\ offered' = AfterReload
    /\ srv' = Reloaded(srv)
    /\ \/ mem' = mem
       \/ MemoryFails /\ mem' = [mem EXCEPT !.image = Empty]
    /\ published' = [config |-> mem'.image, generation |-> srv'.generation,
                     place  |-> IF srv.placeWritten THEN mem.place ELSE None]
    /\ UNCHANGED <<ui, turn, yields>>

\* A place is taken only on a quiet link, with no host write under way, and
\* the result of writing it is not looked at.
RecordPlace ==
    /\ SerialRuns
    /\ ~srv.written /\ srv.quiet = "idle"
    /\ offered # None
    /\ \/ mem' = [mem EXCEPT !.place = offered.place]
       \/ MemoryFails /\ mem' = mem
    /\ offered' = None
    /\ srv' = [srv EXCEPT !.quiet = "free"]
    /\ UNCHANGED <<published, ui, turn, yields>>

\* A pass is far shorter than either window.
Quieten ==
    /\ turn = "top"
    /\ \/ srv.quiet = "busy" /\ srv' = [srv EXCEPT !.quiet = "free"]
       \/ srv.quiet = "free" /\ srv' = [srv EXCEPT !.quiet = "idle"]
    /\ UNCHANGED <<mem, published, offered, ui, turn, yields>>

-----------------------------------------------------------------------------
(* The interface task: adoption at the top of the pass.                    *)

\* The channel a list opens on: the one kept, if it still exists.
Resolved(at, config) ==
    IF at.mode = "memory" /\ config.channels # {} /\ at.channel \notin config.channels
      THEN [at EXCEPT !.channel = Min(config.channels)] ELSE at

\* adopt_place.
Restored(at, config, place) ==
    [at EXCEPT !.dual = place.dual,
               !.mode = IF config.channels = {} THEN @ ELSE place.mode,
               !.channel = IF place.mode = "memory" THEN place.channel ELSE None]

\* adopt_publication: the programmed settings, then where the radio goes.
Moved(at, was, pub) ==
    LET set == [at EXCEPT !.squelch = pub.config.squelch, !.dual = pub.config.dual]
    IN  IF pub.place # None THEN Restored(set, pub.config, pub.place)
        ELSE IF was.channels = {} /\ pub.config.channels # {}
          THEN [set EXCEPT !.mode = "memory", !.channel = None]
        ELSE set

\* A slot has something to tune: the VFO, or channels.
Active(at, config) == at.mode = "vfo" \/ config.channels # {}

RangesOnce == IF ui.ranges = None THEN srv.ranges ELSE ui.ranges
RangesNow == srv.ranges

Adopted(u, pub) ==
    [u EXCEPT !.config = pub.config, !.generation = pub.generation,
              !.at = Moved(u.at, u.config, pub),
              !.saved = IF pub.place # None THEN pub.place ELSE @,
              !.settling = IF pub.place # None THEN None ELSE @,
              !.pending = Active(Moved(u.at, u.config, pub), pub.config),
              !.staged = None, !.ranges = RangesNow]

\* After the adoption the pass keys or keeps the transmitter under ui.ranges;
\* while it is not at rest the pass ends there.
PassTop ==
    /\ turn = "top"
    /\ ui' = IF published = None THEN ui ELSE Adopted(ui, published)
    /\ published' = None
    /\ turn' \in {"top", "scan"}
    /\ UNCHANGED <<mem, srv, offered, yields>>

-----------------------------------------------------------------------------
(* The interface task: the rest of the pass, after the keypad scan.        *)

\* VFO/MR keeps the channel and a source forgets it; both drop a staged squelch.
Sourced(u) ==
    {[u EXCEPT !.at.mode = m, !.at.channel = c, !.staged = None,
               !.pending = Active([u.at EXCEPT !.mode = m], u.config)] :
       m \in {"vfo", "memory"}, c \in {u.at.channel, None}}

\* A channel waits behind a staged squelch.
Stepped(u) ==
    {[u EXCEPT !.at.channel = c, !.pending = TRUE] :
       c \in {d \in u.config.channels : u.at.mode = "memory" /\ u.staged = None}}

Switched(u) == {[u EXCEPT !.at.dual = d] : d \in Dual}

Levelled(u) ==
    {[u EXCEPT !.staged = s, !.pending = TRUE] :
       s \in {l \in Squelch \ {u.at.squelch} :
                Active(u.at, u.config) /\ ~u.pending /\ u.staged = None}}

\* What the operator may do in one pass.
Operated(u) == {u} \cup Sourced(u) \cup Stepped(u) \cup Switched(u) \cup Levelled(u)

Chosen(u) == [u EXCEPT !.at = Resolved(u.at, u.config)]

\* The place has been the same for PLACE_SETTLE_MILLISECONDS.
Settles(u) == u.settling = u.at /\ u.ripe

Settled(u) ==
    IF u.saved = u.at THEN [u EXCEPT !.settling = None, !.ripe = FALSE]
    ELSE IF Settles(u)
      THEN [u EXCEPT !.saved = u.at, !.settling = None, !.ripe = FALSE]
    ELSE IF u.settling = u.at THEN u
    ELSE [u EXCEPT !.settling = u.at, !.ripe = FALSE]

\* The radio bus is used only while the link is quiet.
Tunes(u) == u.pending /\ srv.quiet # "busy"

\* adopt_squelch: the operator's level is published over whatever is there.
RepublishedUnnumbered(u) ==
    [config |-> [u.config EXCEPT !.squelch = u.staged], generation |-> 0, place |-> None]
Republished(u) ==
    [config |-> [u.config EXCEPT !.squelch = u.staged],
     generation |-> u.generation, place |-> None]

PassTail ==
    /\ turn = "scan"
    /\ turn' = "top"
    /\ \E u \in {Chosen(v) : v \in Operated(ui)} :
         LET s == Settled(u)
         IN  /\ offered' = IF u.saved # u.at /\ Settles(u)
                             THEN [place |-> u.at, of |-> u.generation]
                             ELSE offered
             /\ IF ~Tunes(s)
                  THEN ui' = s /\ UNCHANGED published
                  ELSE \/ \* the retune is the squelch's acknowledgement
                          /\ s.staged # None
                          /\ ui' = [s EXCEPT !.pending = FALSE, !.staged = None,
                                             !.at.squelch = s.staged]
                          /\ published' = Republished(s)
                       \/ \* none is staged, or the receiver is faulted
                          /\ ui' = [s EXCEPT !.pending = FALSE, !.staged = None]
                          /\ UNCHANGED published
    /\ UNCHANGED <<mem, srv, yields>>

\* Three seconds on one place.
Ripen ==
    /\ turn = "top"
    /\ ui.settling # None /\ ~ui.ripe
    /\ ui' = [ui EXCEPT !.ripe = TRUE]
    /\ UNCHANGED <<mem, srv, published, offered, turn, yields>>

HostActs == HostRequest \/ HostWrite

Next == HostActs \/ Reload \/ RecordPlace \/ Quieten
        \/ PassTop \/ PassTail \/ Ripen \/ Restart

Spec == Init /\ [][Next]_vars

\* The executor polls every woken task, so passes run, and the serial task runs
\* when its timer has expired and the interface task awaits.
FairSpec ==
    /\ Spec
    /\ WF_vars(PassTop) /\ WF_vars(PassTail)
    /\ SF_vars(Quieten) /\ SF_vars(Reload)

-----------------------------------------------------------------------------
(* Properties.                                                             *)

TypeOK ==
    /\ mem \in Memory /\ srv \in Serial
    /\ published \in Publication \cup {None}
    /\ offered \in Offer \cup {None}
    /\ ui \in Interface /\ turn \in {"top", "scan"} /\ yields \in ScanYields

\* state.rs calls PROGRAMMED the latest configuration the serial task
\* activated: once it is taken, the interface runs the serial task's own.
LatestAdopted == published = None => ui.generation = srv.generation

\* The same where the serial task runs only between passes.
LatestAdoptedInTurn == ~yields => LatestAdopted

\* The interface keys the radio, which it does right after an adoption, only
\* under the ranges of the image last loaded, and never while a host writes.
RangesOfWholeImage ==
    [][ PassTop /\ ui'.ranges # None =>
          ~srv.written /\ ui'.ranges = srv.ranges ]_vars

\* The interface reads channels through an index of the memory, so while a
\* host overwrites the image it never tunes one.
TunesWholeImage ==
    [][ PassTail /\ ui.pending /\ ~ui'.pending /\ ui'.at.mode = "memory"
        /\ ui.config.channels # {} =>
          ~srv.written ]_vars

\* serial.rs: a place settled while the configuration was blank is not one the
\* operator chose, and is not written down; on the K5.
BlankPlaceDiscarded ==
    [][ RecordPlace /\ ~yields => offered.of = 0 \/ ~Blank(offered.of) ]_vars

\* interface.rs calls saved_place the place already written down: it is in the
\* memory, or on its way there.
SavedIsWrittenDown ==
    ui.saved # None /\ turn = "top" =>
        \/ ui.saved = mem.place
        \/ srv.placeWritten
        \/ (offered # None /\ offered.place = ui.saved)
        \/ (published # None /\ published.place # None)

\* Once the host is silent the interface comes to run the memory's image; on
\* the K5.
LatestReaches ==
    ~yields /\ <>[][~(HostActs \/ Restart)]_vars =>
        <>[](~srv.written /\ ui.generation = srv.generation)
=============================================================================
