--------------------------- MODULE AppTasks_proofs --------------------------
(***************************************************************************)
(* Proofs about AppTasks, for every set of channels, levels, images and    *)
(* places, any number of generations, and both targets.                    *)
(*                                                                         *)
(* The invariant says what a publication nobody has taken stands for: the  *)
(* ranges and, while a host writes, the blank.  Where the scan awaits      *)
(* (yields), the one thing a pass can rely on after it is the held bus.    *)
(***************************************************************************)
EXTENDS AppTasks, FiniteSetTheorems, WellFoundedInduction, TLAPS

-----------------------------------------------------------------------------
(* The first channel of a list.                                            *)

LEMMA FirstExists ==
  ASSUME NEW S \in SUBSET Nat, S # {}
  PROVE  Min(S) \in S
<1> DEFINE Upto(n) == 0 .. n
           T == {Upto(n) : n \in S}
<1>1. T # {}
  OBVIOUS
<1>2. T \subseteq FiniteSubsetsOf(Nat)
  <2> SUFFICES ASSUME NEW n \in S PROVE Upto(n) \in FiniteSubsetsOf(Nat)
    OBVIOUS
  <2>1. n \in Int /\ 0 \in Int
    OBVIOUS
  <2>2. IsFiniteSet(Upto(n))
    BY <2>1, FS_Interval
  <2>3. Upto(n) \in SUBSET Nat
    OBVIOUS
  <2> QED BY <2>2, <2>3 DEF FiniteSubsetsOf
<1> HIDE DEF T
<1>3. PICK x \in T : \A y \in T : ~ (<<y, x>> \in StrictSubsetOrdering(Nat))
  BY <1>1, <1>2, FS_StrictSubsetOrderingWellFounded, WFMin, Zenon
<1>4. PICK m \in S : x = Upto(m)
  BY DEF T
<1>5. \A i \in S : m <= i
  <2> SUFFICES ASSUME NEW i \in S, i < m PROVE FALSE
    OBVIOUS
  <2>1. Upto(i) \in T
    BY DEF T
  <2>2. /\ Upto(i) \in SUBSET Nat /\ Upto(m) \in SUBSET Nat
        /\ Upto(i) \subseteq Upto(m) /\ m \in Upto(m) /\ m \notin Upto(i)
    OBVIOUS
  <2>3. <<Upto(i), Upto(m)>> \in StrictSubsetOrdering(Nat)
    BY <2>2 DEF StrictSubsetOrdering
  <2> QED BY <2>3, <2>1, <1>3, <1>4
<1> QED BY <1>5 DEF Min

-----------------------------------------------------------------------------
(* What the operations return.                                             *)

LEMMA EmptyIs == Empty \in Config /\ Empty.channels = {}
BY AppAssumption DEF Empty, Config

LEMMA BootPublishes ==
  ASSUME NEW m \in Memory
  PROVE  BootPublication(m) \in Publication /\ BootPublication(m).generation = 1
<1>1. m.image \in Config /\ m.place \in Place \cup {None}
  BY DEF Memory
<1>2. m.place # None => m.place.squelch \in Squelch
  BY <1>1 DEF Place
<1>3. (IF m.place = None THEN m.image ELSE [m.image EXCEPT !.squelch = m.place.squelch])
        \in Config
  BY <1>1, <1>2 DEF Config
<1>4. 1 \in 0..MaxGeneration
  BY AppAssumption
<1> QED BY <1>1, <1>3, <1>4 DEF BootPublication, Publication

LEMMA NewTasks ==
  /\ NewInterface \in Interface
  /\ NewSerial \in Serial
  /\ NewSerial.generation = 1 /\ ~NewSerial.written
<1>1. 1 \in 1..MaxGeneration /\ 0 \in 0..MaxGeneration
  BY AppAssumption
<1>2. [mode |-> "vfo", channel |-> None, squelch |-> Conservative, dual |-> FALSE] \in Place
  BY AppAssumption DEF Place
<1>3. NewInterface \in Interface
  BY <1>1, <1>2, EmptyIs, AppAssumption DEF NewInterface, Interface
<1>4. NewSerial \in Serial
  BY <1>1 DEF NewSerial, Serial
<1> QED BY <1>3, <1>4 DEF NewSerial

LEMMA MovedIs ==
  ASSUME NEW at \in Place, NEW was \in Config, NEW pub \in Publication
  PROVE  Moved(at, was, pub) \in Place
<1>1. /\ pub.config \in Config /\ pub.place \in Place \cup {None}
      /\ pub.config.squelch \in Squelch /\ pub.config.dual \in Dual
  BY DEF Publication, Config
<1> DEFINE set == [at EXCEPT !.squelch = pub.config.squelch, !.dual = pub.config.dual]
<1>2. set \in Place
  BY <1>1 DEF Place
<1>3. [set EXCEPT !.mode = "memory", !.channel = None] \in Place
  BY <1>2 DEF Place
<1>4. ASSUME pub.place # None PROVE Restored(set, pub.config, pub.place) \in Place
  <2>1. pub.place \in Place
    BY <1>1, <1>4
  <2>2. /\ pub.place.mode \in {"vfo", "memory"} /\ pub.place.dual \in Dual
        /\ pub.place.channel \in Channel \cup {None}
    BY <2>1 DEF Place
  <2> HIDE DEF set
  <2> QED BY <1>2, <2>2 DEF Restored, Place
<1> QED BY <1>2, <1>3, <1>4 DEF Moved

LEMMA AdoptedIs ==
  ASSUME NEW u \in Interface, NEW pub \in Publication, srv \in Serial
  PROVE  /\ Adopted(u, pub) \in Interface
         /\ Adopted(u, pub).config = pub.config
         /\ Adopted(u, pub).generation = pub.generation
         /\ Adopted(u, pub).ranges = srv.ranges
<1>1. /\ u.at \in Place /\ u.config \in Config
      /\ pub.config \in Config /\ pub.generation \in 0..MaxGeneration
      /\ pub.place \in Place \cup {None}
      /\ srv.ranges \in 1..MaxGeneration \cup {None}
  BY DEF Interface, Publication, Serial
<1>2. Moved(u.at, u.config, pub) \in Place
  BY <1>1, MovedIs
<1>3. Active(Moved(u.at, u.config, pub), pub.config) \in BOOLEAN
  BY DEF Active
<1> QED BY <1>1, <1>2, <1>3 DEF Adopted, RangesNow, Interface

\* The operator, the settling place and the resolved channel leave the
\* configuration and its ranges alone; what was to be tuned stays so while
\* there are channels.
Follows(u, v) ==
    /\ v \in Interface
    /\ v.config = u.config /\ v.generation = u.generation /\ v.ranges = u.ranges
    /\ u.pending /\ u.config.channels # {} => v.pending

LEMMA OperatedFollows ==
  ASSUME NEW u \in Interface, NEW v \in Operated(u)
  PROVE  Follows(u, v)
<1>1. /\ u.at \in Place /\ u.config \in Config /\ u.config.channels \subseteq Channel
      /\ u.at.channel \in Channel \cup {None}
  BY DEF Interface, Place, Config
<1>2. CASE v = u
  BY <1>2 DEF Follows
<1>3. ASSUME NEW m \in {"vfo", "memory"}, NEW c \in {u.at.channel, None},
             v = [u EXCEPT !.at.mode = m, !.at.channel = c, !.staged = None,
                           !.pending = Active([u.at EXCEPT !.mode = m], u.config)]
      PROVE  Follows(u, v)
  <2>1. [u.at EXCEPT !.mode = m, !.channel = c] \in Place
    BY <1>1 DEF Place
  <2>2. Active([u.at EXCEPT !.mode = m], u.config) \in BOOLEAN
    BY DEF Active
  <2>3. u.config.channels # {} => Active([u.at EXCEPT !.mode = m], u.config)
    BY DEF Active
  <2>4. v = [u EXCEPT !.at = [u.at EXCEPT !.mode = m, !.channel = c], !.staged = None,
                      !.pending = Active([u.at EXCEPT !.mode = m], u.config)]
    BY <1>3, <1>1 DEF Interface, Place
  <2> QED BY <2>1, <2>2, <2>3, <2>4 DEF Follows, Interface
<1>4. ASSUME NEW c \in Channel, v = [u EXCEPT !.at.channel = c, !.pending = TRUE]
      PROVE  Follows(u, v)
  <2>1. [u.at EXCEPT !.channel = c] \in Place
    BY <1>1 DEF Place
  <2> QED BY <1>4, <2>1 DEF Follows, Interface
<1>5. ASSUME NEW d \in Dual, v = [u EXCEPT !.at.dual = d]
      PROVE  Follows(u, v)
  <2>1. [u.at EXCEPT !.dual = d] \in Place
    BY <1>1 DEF Place
  <2> QED BY <1>5, <2>1 DEF Follows, Interface
<1>6. ASSUME NEW s \in Squelch, v = [u EXCEPT !.staged = s, !.pending = TRUE]
      PROVE  Follows(u, v)
  BY <1>6 DEF Follows, Interface
<1>7. CASE v \in Sourced(u)
  BY <1>7, <1>3 DEF Sourced
<1>8. CASE v \in Stepped(u)
  <2>1. PICK c \in u.config.channels : v = [u EXCEPT !.at.channel = c, !.pending = TRUE]
    BY <1>8 DEF Stepped
  <2> QED BY <2>1, <1>1, <1>4
<1>9. CASE v \in Switched(u)
  BY <1>9, <1>5 DEF Switched
<1>10. CASE v \in Levelled(u)
  <2>1. PICK s \in Squelch : v = [u EXCEPT !.staged = s, !.pending = TRUE]
    BY <1>10 DEF Levelled
  <2> QED BY <2>1, <1>6
<1> QED BY <1>2, <1>7, <1>8, <1>9, <1>10 DEF Operated

LEMMA ChosenFollows ==
  ASSUME NEW u \in Interface, NEW v \in Operated(u)
  PROVE  Follows(u, Chosen(v))
<1>1. Follows(u, v)
  BY OperatedFollows
<1>2. v \in Interface /\ v.at \in Place /\ v.config.channels \subseteq Channel
  BY <1>1 DEF Follows, Interface, Config
<1>3. v.config.channels # {} => Min(v.config.channels) \in Channel
  BY <1>2, FirstExists, AppAssumption
<1>4. Resolved(v.at, v.config) \in Place
  BY <1>2, <1>3 DEF Resolved, Place
<1> QED BY <1>1, <1>4 DEF Chosen, Follows, Interface

LEMMA SettledFollows ==
  ASSUME NEW u \in Interface, NEW w \in Interface, Follows(u, w)
  PROVE  Follows(u, Settled(w))
BY DEF Follows, Settled, Interface

-----------------------------------------------------------------------------
(* The invariant.                                                          *)

\* While a host writes its generation is even and nothing is authorised.
Writes ==
    /\ srv.written => srv.ranges = None /\ srv.generation < MaxGeneration
    /\ srv.written <=> Blank(srv.generation)

\* With every publication taken the interface keys under the ranges in force.
RangesTaken == published = None => ui.ranges = srv.ranges

\* While a host writes, what the interface runs or will adopt is blank; in the
\* rest of a pass, which may have adopted before the write, or the bus is held.
BlankWhileWritten ==
    srv.written =>
      /\ published # None => published.config.channels = {}
      /\ published = None => ui.config.channels = {}
      /\ turn = "scan" => srv.quiet = "busy" \/ ui.config.channels = {}

\* Where the scan does not await, the interface is one publication behind at
\* most, and in a pass not even that.
InTurn ==
    ~yields =>
      /\ turn = "scan" => published = None
      /\ published # None => published.generation = srv.generation
      /\ published = None => ui.generation = srv.generation
      /\ offered # None => offered.of = 0 \/ ~Blank(offered.of) \/ srv.written

AppInv == TypeOK /\ Writes /\ RangesTaken /\ BlankWhileWritten /\ InTurn

LEMMA EvenOdd == \A n \in Nat : Blank(n + 1) <=> ~Blank(n)
BY DEF Blank

LEMMA NoneApart ==
  /\ \A pub \in Publication : pub # None /\ pub.generation \in 0..MaxGeneration
  /\ \A n \in Nat : Blank(n) \in BOOLEAN
  /\ ~Blank(1)
<1>1. ~Blank(1) /\ \A n \in Nat : Blank(n) \in BOOLEAN
  BY DEF Blank
<1> QED BY <1>1, NoneAssumption DEF Publication

LEMMA BootIs ==
  ASSUME NEW m \in Memory, NEW y \in ScanYields,
         mem' = m, srv' = NewSerial, published' = BootPublication(m),
         offered' = None, ui' = NewInterface, turn' = "top", yields' = y
  PROVE  AppInv'
<1>1. /\ published' \in Publication /\ published'.generation = 1
      /\ published' # None
  BY BootPublishes, NoneApart
<1>2. /\ ui' \in Interface /\ srv' \in Serial
      /\ srv'.generation = 1 /\ ~srv'.written
  BY NewTasks
<1>3. TypeOK'
  BY <1>1, <1>2 DEF TypeOK
<1>4. Writes' /\ RangesTaken' /\ BlankWhileWritten' /\ InTurn'
  BY <1>1, <1>2, NoneApart DEF Writes, RangesTaken, BlankWhileWritten, InTurn
<1> QED BY <1>3, <1>4 DEF AppInv

LEMMA InitInv == Init => AppInv
<1> SUFFICES ASSUME Init PROVE AppInv
  OBVIOUS
<1>1. /\ mem \in [image : Hosted \cup {Empty}, place : {None}]
      /\ srv = NewSerial /\ published = BootPublication(mem) /\ offered = None
      /\ ui = NewInterface /\ turn = "top" /\ yields \in ScanYields
  BY DEF Init
<1>2. mem \in Memory
  BY <1>1, EmptyIs, AppAssumption DEF Memory
<1>3. /\ published \in Publication /\ published.generation = 1
      /\ published # None
  BY <1>1, <1>2, BootPublishes, NoneApart
<1>4. /\ ui \in Interface /\ srv \in Serial
      /\ srv.generation = 1 /\ ~srv.written
  BY <1>1, NewTasks
<1>5. TypeOK
  BY <1>1, <1>2, <1>3, <1>4 DEF TypeOK
<1>6. Writes /\ RangesTaken /\ BlankWhileWritten /\ InTurn
  BY <1>1, <1>3, <1>4, NoneApart DEF Writes, RangesTaken, BlankWhileWritten, InTurn
<1> QED BY <1>5, <1>6 DEF AppInv

LEMMA RestartKeeps == AppInv /\ Restart => AppInv'
<1> SUFFICES ASSUME AppInv, Restart PROVE AppInv'
  OBVIOUS
<1>1. mem \in Memory /\ yields \in ScanYields
  BY DEF AppInv, TypeOK
<1>2. /\ mem' = mem /\ srv' = NewSerial /\ published' = BootPublication(mem)
      /\ offered' = None /\ ui' = NewInterface /\ turn' = "top" /\ yields' = yields
  BY DEF Restart
<1> QED BY <1>1, <1>2, BootIs

\* What stays as it was while only the link's quiet window moves.
LEMMA QuietKeeps ==
  ASSUME AppInv, NEW q \in {"busy", "free", "idle"},
         srv' = [srv EXCEPT !.quiet = q],
         turn = "scan" => q = "busy",
         UNCHANGED <<mem, published, offered, ui, turn, yields>>
  PROVE  AppInv'
<1>1. /\ srv \in Serial
      /\ TypeOK /\ Writes /\ RangesTaken /\ BlankWhileWritten /\ InTurn
  BY DEF AppInv, TypeOK
<1>2. /\ srv' \in Serial /\ srv'.written = srv.written /\ srv'.ranges = srv.ranges
      /\ srv'.generation = srv.generation /\ srv'.quiet = q
  BY <1>1 DEF Serial
<1>3. TypeOK'
  BY <1>1, <1>2 DEF TypeOK
<1>4. Writes' /\ RangesTaken' /\ InTurn'
  BY <1>1, <1>2 DEF Writes, RangesTaken, InTurn
<1>5. BlankWhileWritten'
  BY <1>1, <1>2 DEF BlankWhileWritten
<1> QED BY <1>3, <1>4, <1>5 DEF AppInv

LEMMA LinkKeeps == AppInv /\ (HostRequest \/ Quieten) => AppInv'
<1> SUFFICES ASSUME AppInv, HostRequest \/ Quieten PROVE AppInv'
  OBVIOUS
<1>1. CASE HostRequest
  BY <1>1, QuietKeeps DEF HostRequest
<1>2. CASE Quieten
  <2>1. CASE srv' = [srv EXCEPT !.quiet = "free"]
    BY <1>2, <2>1, QuietKeeps DEF Quieten
  <2>2. CASE srv' = [srv EXCEPT !.quiet = "idle"]
    BY <1>2, <2>2, QuietKeeps DEF Quieten
  <2> QED BY <1>2, <2>1, <2>2 DEF Quieten
<1> QED BY <1>1, <1>2

\* One block of a host's write: the first one blanks.
LEMMA BlockKeeps ==
  ASSUME AppInv, SerialRuns, NEW m \in Memory, NEW isPlace \in BOOLEAN,
         WriteBlock(m, isPlace), UNCHANGED <<offered, ui, turn, yields>>
  PROVE  AppInv'
<1>1. /\ TypeOK /\ Writes /\ RangesTaken /\ BlankWhileWritten /\ InTurn
      /\ srv \in Serial /\ srv.generation \in 1..MaxGeneration
      /\ mem' = m /\ MaxGeneration \in Nat /\ MaxYielding \in 1..MaxGeneration
  BY AppAssumption DEF AppInv, TypeOK, WriteBlock, Serial
<1>2. CASE srv.written
  <2>1. /\ srv' = [srv EXCEPT !.quiet = "busy", !.placeWritten = @ \/ isPlace]
        /\ published' = published
    BY <1>2 DEF WriteBlock
  <2>2. /\ srv' \in Serial /\ srv'.written = srv.written /\ srv'.ranges = srv.ranges
        /\ srv'.generation = srv.generation /\ srv'.quiet = "busy"
    BY <1>1, <2>1 DEF Serial
  <2>3. TypeOK'
    BY <1>1, <2>1, <2>2 DEF TypeOK
  <2>4. Writes' /\ RangesTaken' /\ BlankWhileWritten' /\ InTurn'
    BY <1>1, <2>1, <2>2 DEF Writes, RangesTaken, BlankWhileWritten, InTurn
  <2> QED BY <2>3, <2>4 DEF AppInv
<1>3. CASE ~srv.written
  <2>1. /\ srv.generation + 1 < IF yields THEN MaxYielding ELSE MaxGeneration
        /\ srv' = [Blanked(srv) EXCEPT !.generation = @ + 1, !.placeWritten = @ \/ isPlace]
        /\ published' = BlankPublication(srv.generation + 1)
    BY <1>3 DEF WriteBlock
  <2>2. /\ srv.generation + 1 < MaxGeneration /\ srv.generation + 1 \in 1..MaxGeneration
        /\ srv.generation + 1 \in 0..MaxGeneration
    BY <1>1, <2>1
  <2>3. /\ srv' \in Serial /\ srv'.written /\ srv'.ranges = None
        /\ srv'.generation = srv.generation + 1 /\ srv'.quiet = "busy"
    BY <1>1, <2>1, <2>2 DEF Serial, Blanked
  <2>4. /\ published' \in Publication /\ published' # None
        /\ published'.config.channels = {} /\ published'.generation = srv.generation + 1
    BY <2>1, <2>2, EmptyIs, NoneApart DEF BlankPublication, Publication
  <2>5. TypeOK'
    BY <1>1, <2>3, <2>4 DEF TypeOK
  <2>6. Writes'
    BY <1>1, <1>3, <2>2, <2>3, EvenOdd DEF Writes
  <2>7. RangesTaken' /\ BlankWhileWritten'
    BY <2>3, <2>4 DEF RangesTaken, BlankWhileWritten
  <2>8. InTurn'
    BY <1>1, <2>3, <2>4 DEF InTurn, SerialRuns
  <2> QED BY <2>5, <2>6, <2>7, <2>8 DEF AppInv
<1> QED BY <1>2, <1>3

LEMMA HostWriteKeeps == AppInv /\ HostWrite => AppInv'
<1> SUFFICES ASSUME AppInv, HostWrite PROVE AppInv'
  OBVIOUS
<1>1. mem \in Memory /\ SerialRuns /\ UNCHANGED <<offered, ui, turn, yields>>
  BY DEF AppInv, TypeOK, HostWrite
<1>2. CASE \E image \in Hosted \cup {Empty} : WriteBlock([mem EXCEPT !.image = image], FALSE)
  <2>1. PICK image \in Hosted \cup {Empty} : WriteBlock([mem EXCEPT !.image = image], FALSE)
    BY <1>2
  <2>2. [mem EXCEPT !.image = image] \in Memory
    BY <1>1, EmptyIs, AppAssumption DEF Memory
  <2> QED BY <1>1, <2>1, <2>2, BlockKeeps
<1>3. CASE \E place \in HostedPlace : WriteBlock([mem EXCEPT !.place = place], TRUE)
  <2>1. PICK place \in HostedPlace : WriteBlock([mem EXCEPT !.place = place], TRUE)
    BY <1>3
  <2>2. [mem EXCEPT !.place = place] \in Memory
    BY <1>1, AppAssumption DEF Memory
  <2> QED BY <1>1, <2>1, <2>2, BlockKeeps
<1>4. CASE WriteBlock(mem, FALSE)
  BY <1>1, <1>4, BlockKeeps
<1> QED BY <1>2, <1>3, <1>4 DEF HostWrite

LEMMA ReloadKeeps == AppInv /\ Reload => AppInv'
<1> SUFFICES ASSUME AppInv, Reload PROVE AppInv'
  OBVIOUS
<1>1. /\ TypeOK /\ Writes /\ RangesTaken /\ BlankWhileWritten /\ InTurn
      /\ srv \in Serial /\ srv.generation \in 1..MaxGeneration /\ srv.written
      /\ mem \in Memory /\ MaxGeneration \in Nat
  BY AppAssumption DEF AppInv, TypeOK, Reload, Serial
<1>2. /\ SerialRuns /\ offered' = None /\ srv' = Reloaded(srv)
      /\ mem' = mem \/ mem' = [mem EXCEPT !.image = Empty]
      /\ published' = [config |-> mem'.image, generation |-> srv'.generation,
                       place  |-> IF srv.placeWritten THEN mem.place ELSE None]
      /\ UNCHANGED <<ui, turn, yields>>
  BY DEF Reload, AfterReload
<1>3. mem' \in Memory
  BY <1>1, <1>2, EmptyIs DEF Memory
<1>4. /\ srv.generation + 1 \in 1..MaxGeneration /\ srv.generation + 1 \in 0..MaxGeneration
      /\ srv.generation \in Nat
  BY <1>1 DEF Writes
<1>5. /\ srv' \in Serial /\ ~srv'.written /\ srv'.generation = srv.generation + 1
  BY <1>1, <1>2, <1>4 DEF Reloaded, Serial
<1>6. /\ published' \in Publication /\ published'.generation = srv'.generation
      /\ published' # None
  <2>1. published' \in Publication
    BY <1>1, <1>2, <1>3, <1>4, <1>5 DEF Memory, Publication
  <2> QED BY <1>2, <2>1, NoneApart
<1>7. TypeOK'
  BY <1>1, <1>2, <1>3, <1>5, <1>6 DEF TypeOK
<1>8. Writes'
  BY <1>1, <1>4, <1>5, EvenOdd DEF Writes
<1>9. RangesTaken' /\ BlankWhileWritten'
  BY <1>5, <1>6 DEF RangesTaken, BlankWhileWritten
<1>10. InTurn'
  BY <1>1, <1>2, <1>5, <1>6 DEF InTurn, SerialRuns
<1> QED BY <1>7, <1>8, <1>9, <1>10 DEF AppInv

LEMMA RecordKeeps == AppInv /\ RecordPlace => AppInv'
<1> SUFFICES ASSUME AppInv, RecordPlace PROVE AppInv'
  OBVIOUS
<1>1. /\ TypeOK /\ Writes /\ RangesTaken /\ BlankWhileWritten /\ InTurn
      /\ srv \in Serial /\ mem \in Memory /\ offered \in Offer /\ ~srv.written
  BY DEF AppInv, TypeOK, RecordPlace
<1>2. /\ mem' = mem \/ mem' = [mem EXCEPT !.place = offered.place]
      /\ offered' = None /\ srv' = [srv EXCEPT !.quiet = "free"]
      /\ UNCHANGED <<published, ui, turn, yields>>
  BY DEF RecordPlace
<1>3. mem' \in Memory
  BY <1>1, <1>2 DEF Memory, Offer
<1>4. /\ srv' \in Serial /\ ~srv'.written /\ srv'.ranges = srv.ranges
      /\ srv'.generation = srv.generation
  BY <1>1, <1>2 DEF Serial
<1>5. TypeOK'
  BY <1>1, <1>2, <1>3, <1>4 DEF TypeOK
<1>6. Writes' /\ RangesTaken' /\ BlankWhileWritten' /\ InTurn'
  BY <1>1, <1>2, <1>4 DEF Writes, RangesTaken, BlankWhileWritten, InTurn
<1> QED BY <1>5, <1>6 DEF AppInv

\* The top of a pass takes what is published.
LEMMA TopTakes ==
  ASSUME AppInv, PassTop
  PROVE  /\ ui' \in Interface /\ ui'.ranges = srv.ranges
         /\ srv.written => ui'.config.channels = {}
         /\ ~yields => ui'.generation = srv.generation
<1>1. /\ RangesTaken /\ BlankWhileWritten /\ InTurn
      /\ srv \in Serial /\ ui \in Interface /\ published \in Publication \cup {None}
      /\ ui' = IF published = None THEN ui ELSE Adopted(ui, published)
  BY DEF AppInv, TypeOK, PassTop
<1>2. CASE published = None
  BY <1>1, <1>2 DEF RangesTaken, BlankWhileWritten, InTurn
<1>3. CASE published # None
  <2>1. /\ Adopted(ui, published) \in Interface
        /\ Adopted(ui, published).config = published.config
        /\ Adopted(ui, published).generation = published.generation
        /\ Adopted(ui, published).ranges = srv.ranges
    BY <1>1, <1>3, AdoptedIs
  <2> QED BY <1>1, <1>3, <2>1 DEF BlankWhileWritten, InTurn
<1> QED BY <1>2, <1>3

LEMMA TopKeeps == AppInv /\ PassTop => AppInv'
<1> SUFFICES ASSUME AppInv, PassTop PROVE AppInv'
  OBVIOUS
<1>1. /\ TypeOK /\ Writes /\ InTurn
      /\ published' = None /\ turn' \in {"top", "scan"}
      /\ UNCHANGED <<mem, srv, offered, yields>>
  BY DEF AppInv, PassTop
<1>2. /\ ui' \in Interface /\ ui'.ranges = srv.ranges
      /\ srv.written => ui'.config.channels = {}
      /\ ~yields => ui'.generation = srv.generation
  BY TopTakes
<1>3. TypeOK'
  BY <1>1, <1>2 DEF TypeOK
<1>4. Writes' /\ RangesTaken' /\ BlankWhileWritten'
  BY <1>1, <1>2 DEF Writes, RangesTaken, BlankWhileWritten
<1>5. InTurn'
  BY <1>1, <1>2 DEF InTurn
<1> QED BY <1>3, <1>4, <1>5 DEF AppInv

\* The rest of a pass keeps the configuration; a publication of its own is made
\* only off the held bus, and differs in nothing but the squelch.
LEMMA TailDoes ==
  ASSUME AppInv, PassTail
  PROVE  /\ ui' \in Interface /\ ui'.config = ui.config /\ ui'.ranges = ui.ranges
         /\ ui'.generation = ui.generation
         /\ offered' = offered \/ (offered' \in Offer /\ offered'.of = ui.generation)
         /\ \/ published' = published
            \/ /\ published' \in Publication /\ published'.generation = ui.generation
               /\ published'.config.channels = ui.config.channels
               /\ srv.quiet # "busy"
         /\ (ui.pending /\ ~ui'.pending /\ ui.config.channels # {}) => srv.quiet # "busy"
<1>1. ui \in Interface
  BY DEF AppInv, TypeOK
<1>2. PICK v \in Operated(ui) :
        LET u == Chosen(v)
            s == Settled(u)
        IN  /\ offered' = IF u.saved # u.at /\ Settles(u)
                            THEN [place |-> u.at, of |-> u.generation]
                            ELSE offered
            /\ IF ~Tunes(s)
                 THEN ui' = s /\ UNCHANGED published
                 ELSE \/ /\ s.staged # None
                         /\ ui' = [s EXCEPT !.pending = FALSE, !.staged = None,
                                            !.at.squelch = s.staged]
                         /\ published' = Republished(s)
                      \/ /\ ui' = [s EXCEPT !.pending = FALSE, !.staged = None]
                         /\ UNCHANGED published
  BY DEF PassTail
<1> DEFINE u == Chosen(v)
           s == Settled(u)
<1>3. Follows(ui, u) /\ u \in Interface
  BY <1>1, ChosenFollows DEF Follows
<1>4. Follows(ui, s)
  BY <1>1, <1>3, SettledFollows
<1> HIDE DEF u, s
<1>5. /\ s \in Interface /\ s.config = ui.config /\ s.ranges = ui.ranges
      /\ s.generation = ui.generation /\ s.at \in Place
      /\ s.config \in Config /\ s.staged \in Squelch \cup {None}
      /\ ui.pending /\ ui.config.channels # {} => s.pending
  BY <1>4 DEF Follows, Interface
<1>6. offered' = offered \/ (offered' \in Offer /\ offered'.of = ui.generation)
  <2>1. u.at \in Place /\ u.generation = ui.generation /\ u.generation \in 0..MaxGeneration
    BY <1>3 DEF Follows, Interface
  <2>2. \/ offered' = offered
        \/ offered' = [place |-> u.at, of |-> u.generation]
    BY <1>2 DEF u
  <2> QED BY <2>1, <2>2 DEF Offer
<1>7. CASE ~Tunes(s) /\ ui' = s /\ published' = published
  BY <1>5, <1>6, <1>7
<1>8. CASE /\ Tunes(s) /\ s.staged # None /\ published' = Republished(s)
           /\ ui' = [s EXCEPT !.pending = FALSE, !.staged = None, !.at.squelch = s.staged]
  <2>1. [s.at EXCEPT !.squelch = s.staged] \in Place
    BY <1>5, <1>8 DEF Place
  <2>2. ui' = [s EXCEPT !.pending = FALSE, !.staged = None,
                        !.at = [s.at EXCEPT !.squelch = s.staged]]
    BY <1>5, <1>8 DEF Interface
  <2>3. ui' \in Interface /\ ui'.config = s.config /\ ui'.ranges = s.ranges
        /\ ui'.generation = s.generation
    BY <1>5, <2>1, <2>2 DEF Interface
  <2>4. [s.config EXCEPT !.squelch = s.staged] \in Config
        /\ [s.config EXCEPT !.squelch = s.staged].channels = s.config.channels
    BY <1>5, <1>8 DEF Config
  <2>5. /\ published' \in Publication /\ published'.generation = s.generation
        /\ published'.config.channels = s.config.channels
    BY <1>5, <1>8, <2>4 DEF Republished, Publication, Interface
  <2> QED BY <1>5, <1>6, <1>8, <2>3, <2>5 DEF Tunes
<1>9. CASE /\ Tunes(s) /\ published' = published
           /\ ui' = [s EXCEPT !.pending = FALSE, !.staged = None]
  <2>1. ui' \in Interface /\ ui'.config = s.config /\ ui'.ranges = s.ranges
        /\ ui'.generation = s.generation
    BY <1>5, <1>9 DEF Interface
  <2> QED BY <1>5, <1>6, <1>9, <2>1 DEF Tunes
<1> QED BY <1>2, <1>7, <1>8, <1>9 DEF u, s

LEMMA TailKeeps == AppInv /\ PassTail => AppInv'
<1> SUFFICES ASSUME AppInv, PassTail PROVE AppInv'
  OBVIOUS
<1>1. /\ TypeOK /\ Writes /\ RangesTaken /\ BlankWhileWritten /\ InTurn
      /\ turn = "scan" /\ turn' = "top" /\ UNCHANGED <<mem, srv, yields>>
      /\ srv.generation \in Nat
  BY DEF AppInv, PassTail, TypeOK, Serial
<1>2. /\ ui' \in Interface /\ ui'.config = ui.config /\ ui'.ranges = ui.ranges
      /\ ui'.generation = ui.generation
      /\ offered' = offered \/ (offered' \in Offer /\ offered'.of = ui.generation)
      /\ \/ published' = published
         \/ /\ published' \in Publication /\ published'.generation = ui.generation
            /\ published'.config.channels = ui.config.channels
            /\ srv.quiet # "busy"
  BY TailDoes
<1>3. published' # published => published' # None
  BY <1>2, NoneApart
<1>4. TypeOK'
  BY <1>1, <1>2 DEF TypeOK
<1>5. Writes' /\ RangesTaken'
  BY <1>1, <1>2, <1>3 DEF Writes, RangesTaken
<1>6. BlankWhileWritten'
  BY <1>1, <1>2, <1>3 DEF BlankWhileWritten
<1>7. InTurn'
  BY <1>1, <1>2, <1>3 DEF InTurn, Writes
<1> QED BY <1>4, <1>5, <1>6, <1>7 DEF AppInv

LEMMA NextInv == AppInv /\ [Next]_vars => AppInv'
<1> SUFFICES ASSUME AppInv, [Next]_vars PROVE AppInv'
  OBVIOUS
<1>1. CASE HostActs
  BY <1>1, LinkKeeps, HostWriteKeeps DEF HostActs
<1>2. CASE Reload
  BY <1>2, ReloadKeeps
<1>3. CASE RecordPlace
  BY <1>3, RecordKeeps
<1>4. CASE Quieten
  BY <1>4, LinkKeeps
<1>5. CASE PassTop
  BY <1>5, TopKeeps
<1>6. CASE PassTail
  BY <1>6, TailKeeps
<1>7. CASE Ripen
  <2>1. /\ ui' = [ui EXCEPT !.ripe = TRUE]
        /\ UNCHANGED <<mem, srv, published, offered, turn, yields>>
    BY <1>7 DEF Ripen
  <2>2. /\ TypeOK /\ Writes /\ RangesTaken /\ BlankWhileWritten /\ InTurn
        /\ ui \in Interface
    BY DEF AppInv, TypeOK
  <2>3. /\ ui' \in Interface /\ ui'.config = ui.config /\ ui'.ranges = ui.ranges
        /\ ui'.generation = ui.generation
    BY <2>1, <2>2 DEF Interface
  <2>4. TypeOK'
    BY <2>1, <2>2, <2>3 DEF TypeOK
  <2>5. Writes' /\ RangesTaken' /\ BlankWhileWritten' /\ InTurn'
    BY <2>1, <2>2, <2>3 DEF Writes, RangesTaken, BlankWhileWritten, InTurn
  <2> QED BY <2>4, <2>5 DEF AppInv
<1>8. CASE Restart
  BY <1>8, RestartKeeps
<1>9. CASE UNCHANGED vars
  BY <1>9 DEF vars, AppInv, TypeOK, Writes, RangesTaken, BlankWhileWritten, InTurn
<1> QED BY <1>1, <1>2, <1>3, <1>4, <1>5, <1>6, <1>7, <1>8, <1>9 DEF Next

-----------------------------------------------------------------------------
(* The theorems.                                                           *)

LEMMA AppInvariant == Spec => []AppInv
<1> QED BY InitInv, NextInv, PTL DEF Spec

\* Type correctness of both tasks, the signals between them and the memory.
THEOREM AppTypeCorrect == Spec => []TypeOK
<1>1. AppInv => TypeOK
  BY DEF AppInv
<1> QED BY <1>1, AppInvariant, PTL

\* Where the scan does not await (K5), a PROGRAMMED that has been taken leaves
\* the interface on the serial task's own configuration.
THEOREM AdoptsTheLatest == Spec => []LatestAdoptedInTurn
<1>1. AppInv => LatestAdoptedInTurn
  BY DEF AppInv, InTurn, LatestAdoptedInTurn, LatestAdopted
<1> QED BY <1>1, AppInvariant, PTL

\* The interface keys under TX_POLICY only as it was read from the image in
\* force, on either target, and never while a host writes.
THEOREM KeysUnderWholeRanges == Spec => RangesOfWholeImage
<1>1. AppInv /\ [Next]_vars =>
        [PassTop /\ ui'.ranges # None => ~srv.written /\ ui'.ranges = srv.ranges]_vars
  BY TopTakes DEF AppInv, Writes
<1> QED BY <1>1, AppInvariant, PTL DEF Spec, RangesOfWholeImage

\* A channel is read through the index only while no host overwrites the image,
\* on either target.
THEOREM TunesNothingTorn == Spec => TunesWholeImage
<1>1. AppInv /\ [Next]_vars =>
        [PassTail /\ ui.pending /\ ~ui'.pending /\ ui'.at.mode = "memory"
           /\ ui.config.channels # {} => ~srv.written]_vars
  <2> SUFFICES ASSUME AppInv, PassTail, ui.pending, ~ui'.pending, ui.config.channels # {}
               PROVE  ~srv.written
    OBVIOUS
  <2>1. srv.quiet # "busy"
    BY TailDoes
  <2> QED BY <2>1 DEF AppInv, BlankWhileWritten, PassTail
<1> QED BY <1>1, AppInvariant, PTL DEF Spec, TunesWholeImage

\* A place settled on the blank is never written down where the scan does not
\* await: the reload that ends the blank discards it first.
THEOREM BlankPlacesDiscarded == Spec => BlankPlaceDiscarded
<1>1. AppInv /\ [Next]_vars =>
        [RecordPlace /\ ~yields => offered.of = 0 \/ ~Blank(offered.of)]_vars
  BY DEF AppInv, InTurn, RecordPlace
<1> QED BY <1>1, AppInvariant, PTL DEF Spec, BlankPlaceDiscarded
=============================================================================
