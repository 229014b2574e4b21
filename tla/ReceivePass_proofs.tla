------------------------- MODULE ReceivePass_proofs -------------------------
(***************************************************************************)
(* Proofs about ReceiveControl and ReceivePass, for every number of        *)
(* channels and timer tokens and every set of lists and places.            *)
(*                                                                         *)
(* The controller and the pass keep a scan's clock between them: the       *)
(* controller knows the token, the pass holds the timer.  The invariant    *)
(* relates the two over every operation of the one and turn of the other.  *)
(***************************************************************************)
EXTENDS ReceivePass, FiniteSetTheorems, TLAPS

-----------------------------------------------------------------------------
(* The controller's walk.                                                  *)

LEMMA LeastExists ==
  ASSUME NEW S \in SUBSET Nat, S # {}
  PROVE  Min(S) \in S /\ \A i \in S : Min(S) <= i
<1> DEFINE Upto(n) == 0 .. n
           T == {Upto(n) : n \in S}
<1>1. T # {}
  OBVIOUS
<1>2. T \subseteq FiniteSubsetsOf(Nat)
  <2> SUFFICES ASSUME NEW n \in S PROVE Upto(n) \in FiniteSubsetsOf(Nat)
    OBVIOUS
  <2>1. n \in Int /\ 0 \in Int
    OBVIOUS
  <2>2. IsFiniteSet(Upto(n))
    BY <2>1, FS_Interval
  <2>3. Upto(n) \in SUBSET Nat
    OBVIOUS
  <2> QED BY <2>2, <2>3 DEF FiniteSubsetsOf
<1> HIDE DEF T
<1>3. PICK x \in T : \A y \in T : ~ (<<y, x>> \in StrictSubsetOrdering(Nat))
  BY <1>1, <1>2, FS_StrictSubsetOrderingWellFounded, WFMin, Zenon
<1>4. PICK m \in S : x = Upto(m)
  BY DEF T
<1>5. \A i \in S : m <= i
  <2> SUFFICES ASSUME NEW i \in S, i < m PROVE FALSE
    OBVIOUS
  <2>1. Upto(i) \in T
    BY DEF T
  <2>2. /\ Upto(i) \in SUBSET Nat /\ Upto(m) \in SUBSET Nat
        /\ Upto(i) \subseteq Upto(m)
    OBVIOUS
  <2>3. m \in Upto(m) /\ m \notin Upto(i)
    OBVIOUS
  <2>4. <<Upto(i), Upto(m)>> \in StrictSubsetOrdering(Nat)
    BY <2>2, <2>3 DEF StrictSubsetOrdering
  <2> QED BY <2>4, <2>1, <1>3, <1>4
<1> QED BY <1>5 DEF Min

\* Going on from anywhere stays in the set.
LEMMA FollowingStays ==
  ASSUME NEW S \in SUBSET Nat, S # {}, NEW from \in Nat
  PROVE  Following(S, from) \in S
<1> DEFINE ahead == {i \in S : i > from}
<1>1. ahead \in SUBSET Nat
  OBVIOUS
<1> HIDE DEF ahead
<1>2. CASE ahead # {}
  <2>1. Min(ahead) \in ahead
    BY <1>1, <1>2, LeastExists
  <2> QED BY <2>1, <1>2 DEF Following, ahead
<1>3. CASE ahead = {}
  <2>1. Min(S) \in S
    BY LeastExists
  <2> QED BY <2>1, <1>3 DEF Following, ahead
<1> QED BY <1>2, <1>3

\* A controller that stands on a channel of the list it walks.
OnList(c) == c \in Controller /\ c.index \in c.view

Update == [ctl : Controller, tune : Setup \cup {None},
           timer : {"Unchanged", "Cancel", "Arm"}]

\* What an operation on c promises the pass that applies its update: it stays
\* on its list; it asks for a tune whenever what is to be tuned has changed; the
\* timer it arms is the one it waits for; a timer it cancels it does not need;
\* and one it leaves alone still fits.
Keeps(c, update) ==
    /\ update \in Update
    /\ update.ctl.view = c.view /\ update.ctl.index \in c.view
    /\ \/ update.tune = SetupOf(update.ctl)
       \/ update.tune = None /\ SetupOf(update.ctl) = SetupOf(c)
    /\ update.timer = "Arm" => Scanning(update.ctl) /\ update.ctl.active \in Token
    /\ update.timer = "Cancel" => ~Scanning(update.ctl)
    /\ update.timer = "Unchanged" =>
         /\ Scanning(update.ctl) <=> Scanning(c)
         /\ update.ctl.active = c.active

LEMMA ChannelFacts ==
  /\ Channel \cup {Vfo} \in SUBSET Nat /\ Vfo \notin Channel
  /\ Token \in SUBSET Nat /\ 0 \in Token /\ 1 \in Token
  /\ None \notin Token
  /\ \A n \in Token : (n + 1) % Tokens \in Token
<1>1. Channels \in Nat /\ Tokens \in Nat /\ Tokens > 1 /\ None \notin Nat
  BY ControlAssumption
<1>2. \A n \in Token : (n + 1) % Tokens \in Token
  BY <1>1 DEF Token
<1> QED BY <1>1, <1>2 DEF Channel, Vfo, Token

LEMMA SameKeeps ==
  ASSUME NEW c, OnList(c) PROVE Keeps(c, Same(c))
BY DEF OnList, Keeps, Same, Update

LEMMA SetupOfType ==
  ASSUME NEW c, OnList(c) PROVE SetupOf(c) \in Setup /\ SetupOf(c) # None
BY ControlAssumption DEF OnList, SetupOf, Setup, Controller

\* Arming after a change of phase and index.
LEMMA ArmedKeeps ==
  ASSUME NEW c, OnList(c), NEW phase \in {"Dwell", "Hold"}, NEW index \in c.view
  PROVE  LET d == [c EXCEPT !.phase = phase, !.index = index]
         IN  /\ Armed(d) \in Update
             /\ Armed(d).timer = "Arm" /\ Armed(d).tune = None
             /\ index = c.index => Keeps(c, Armed(d))
             /\ OnList(d)
             /\ Keeps(c, [Armed(d) EXCEPT !.tune = SetupOf(d)])
             /\ [Armed(d) EXCEPT !.tune = SetupOf(d)].timer = "Arm"
<1> DEFINE d == [c EXCEPT !.phase = phase, !.index = index]
           e == [d EXCEPT !.active = d.next, !.next = (d.next + 1) % Tokens]
<1>1. /\ d \in Controller /\ d.view = c.view /\ d.index = index /\ d.phase = phase
      /\ d.next \in Token
  BY DEF OnList, Controller, Phase
<1>2. OnList(d)
  BY <1>1 DEF OnList
<1> HIDE DEF d
<1>3. (d.next + 1) % Tokens \in Token
  BY <1>1, ChannelFacts
<1>4. /\ e \in Controller /\ e.view = c.view /\ e.index = index /\ e.phase = phase
      /\ e.active \in Token
  BY <1>1, <1>3 DEF Controller
<1> HIDE DEF e
<1>5. Armed(d) = [ctl |-> e, tune |-> None, timer |-> "Arm"]
  BY DEF Armed, Same, e
<1>6. SetupOf(d) \in Setup
  BY <1>2, SetupOfType
<1>7. Scanning(e)
  BY <1>4 DEF Scanning
<1>8. /\ SetupOf(e) = SetupOf(d)
      /\ index = c.index => SetupOf(e) = SetupOf(c)
  BY <1>1, <1>4 DEF SetupOf, OnList, Controller, e, d
<1>9. [Armed(d) EXCEPT !.tune = SetupOf(d)]
        = [ctl |-> e, tune |-> SetupOf(d), timer |-> "Arm"]
  BY <1>5
<1>10. index = c.index => Keeps(c, Armed(d))
  BY <1>4, <1>5, <1>7, <1>8 DEF Keeps, Update
<1>11. Keeps(c, [Armed(d) EXCEPT !.tune = SetupOf(d)])
  BY <1>4, <1>6, <1>7, <1>8, <1>9 DEF Keeps, Update
<1> QED
  BY <1>2, <1>4, <1>5, <1>9, <1>10, <1>11 DEF Update, d

LEMMA AdvanceKeeps ==
  ASSUME NEW c, OnList(c), NEW readable
  PROVE  /\ Keeps(c, AdvanceScan(c, readable))
         /\ AdvanceScan(c, readable).timer = "Arm"
<1> DEFINE walk == Walk(c, readable)
           index == Following(walk, c.index)
           d == [c EXCEPT !.phase = "Dwell", !.index = index]
           e == [c EXCEPT !.phase = "Dwell", !.index = c.index]
<1>1. walk \subseteq c.view /\ c.view \subseteq Channel \cup {Vfo} /\ c.index \in c.view
  BY DEF Walk, OnList, Controller
<1>2. walk \in SUBSET Nat /\ c.index \in Nat
  BY <1>1, ChannelFacts
<1>3. e = [c EXCEPT !.phase = "Dwell"]
  BY DEF OnList, Controller
<1>4. d = [c EXCEPT !.phase = "Dwell", !.index = Following(walk, @)]
  BY DEF OnList, Controller
<1> HIDE DEF walk
<1>5. CASE walk = {}
  <2>1. AdvanceScan(c, readable) = Armed([c EXCEPT !.phase = "Dwell"])
    BY <1>5 DEF AdvanceScan, walk
  <2>2. Keeps(c, Armed(e)) /\ Armed(e).timer = "Arm"
    BY <1>1, ArmedKeeps
  <2> QED BY <2>1, <2>2, <1>3
<1>6. CASE walk # {}
  <2>1. index \in c.view
    BY <1>6, <1>1, <1>2, FollowingStays
  <2>2. AdvanceScan(c, readable) = [Armed(d) EXCEPT !.tune = SetupOf(d)]
    BY <1>6, <1>4 DEF AdvanceScan, walk
  <2> HIDE DEF index
  <2>3. /\ Keeps(c, [Armed(d) EXCEPT !.tune = SetupOf(d)])
        /\ [Armed(d) EXCEPT !.tune = SetupOf(d)].timer = "Arm"
    BY <2>1, ArmedKeeps
  <2> QED BY <2>2, <2>3
<1> QED BY <1>5, <1>6

LEMMA CancelledKeeps ==
  ASSUME NEW c, OnList(c)
  PROVE  Keeps(c, Cancelled([c EXCEPT !.phase = "Idle"]))
<1> DEFINE e == [[c EXCEPT !.phase = "Idle"] EXCEPT !.active = None]
<1>1. /\ e \in Controller /\ e.view = c.view /\ e.index = c.index
      /\ e.phase = "Idle"
  BY DEF OnList, Controller, Phase
<1> HIDE DEF e
<1>2. Cancelled([c EXCEPT !.phase = "Idle"])
        = [ctl |-> e, tune |-> None, timer |-> "Cancel"]
  BY DEF Cancelled, Same, e
<1>3. SetupOf(e) = SetupOf(c)
  BY DEF SetupOf, OnList, Controller, e
<1> QED BY <1>1, <1>2, <1>3 DEF Keeps, Update, Scanning, OnList

LEMMA SelectKeeps ==
  ASSUME NEW c, OnList(c), NEW index, NEW readable
  PROVE  Keeps(c, Select(c, index, readable))
<1>1. CASE index \in c.view /\ CanRead(index, readable)
  <2> DEFINE d == [c EXCEPT !.index = index, !.phase = "Idle", !.active = None]
  <2>1. /\ d \in Controller /\ d.view = c.view /\ d.index = index
        /\ d.phase = "Idle"
    BY <1>1 DEF OnList, Controller, Phase
  <2> HIDE DEF d
  <2>2. SetupOf(d) \in Setup
    BY <2>1, <1>1, SetupOfType DEF OnList
  <2>3. Select(c, index, readable)
          = [ctl |-> d, tune |-> SetupOf(d), timer |-> "Cancel"]
    BY <1>1 DEF Select, Tuned, d
  <2> QED BY <2>1, <2>2, <2>3, <1>1 DEF Keeps, Update, Scanning
<1>2. CASE ~(index \in c.view /\ CanRead(index, readable))
  BY <1>2, SameKeeps DEF Select
<1> QED BY <1>1, <1>2

LEMMA SetMonitorKeeps ==
  ASSUME NEW c, OnList(c), NEW on \in BOOLEAN
  PROVE  Keeps(c, SetMonitor(c, on))
<1> DEFINE d == [c EXCEPT !.monitor = on]
<1>1. /\ d \in Controller /\ d.view = c.view /\ d.index = c.index
      /\ d.phase = c.phase /\ d.active = c.active
  BY DEF OnList, Controller
<1> HIDE DEF d
<1>2. SetupOf(d) \in Setup
  BY <1>1, SetupOfType DEF OnList
<1>3. SetMonitor(c, on) = [ctl |-> d, tune |-> SetupOf(d), timer |-> "Unchanged"]
  BY DEF SetMonitor, Tuned, d
<1> QED BY <1>1, <1>2, <1>3 DEF Keeps, Update, Scanning, OnList

\* Arming again without a move.
LEMMA RearmedKeeps ==
  ASSUME NEW c, OnList(c), NEW phase \in {"Dwell", "Hold"}
  PROVE  /\ Keeps(c, Armed([c EXCEPT !.phase = phase]))
         /\ Armed([c EXCEPT !.phase = phase]).timer = "Arm"
<1> DEFINE d == [c EXCEPT !.phase = phase, !.index = c.index]
<1>1. d = [c EXCEPT !.phase = phase]
  BY DEF OnList, Controller
<1>2. c.index \in c.view
  BY DEF OnList
<1>3. CASE phase = "Dwell"
  <2>1. Keeps(c, Armed(d)) /\ Armed(d).timer = "Arm"
    BY <1>2, <1>3, ArmedKeeps
  <2> QED BY <2>1, <1>1
<1>4. CASE phase = "Hold"
  <2>1. Keeps(c, Armed(d)) /\ Armed(d).timer = "Arm"
    BY <1>2, <1>4, ArmedKeeps
  <2> QED BY <2>1, <1>1
<1> QED BY <1>3, <1>4

LEMMA RearmedInPlace ==
  ASSUME NEW c, OnList(c), Scanning(c)
  PROVE  Keeps(c, Armed(c)) /\ Armed(c).timer = "Arm"
<1>1. c.phase \in {"Dwell", "Hold"} /\ c = [c EXCEPT !.phase = c.phase]
  BY DEF OnList, Controller, Scanning, Phase
<1> QED BY <1>1, RearmedKeeps

LEMMA ScanKeeps ==
  ASSUME NEW c, OnList(c), NEW readable
  PROVE  /\ Keeps(c, StartScanning(c, readable))
         /\ Keeps(c, StopScanning(c))
         /\ Keeps(c, SkipQuiet(c, readable))
         /\ Keeps(c, RestartDwell(c))
<1>1. Keeps(c, StartScanning(c, readable))
  BY SameKeeps, RearmedKeeps DEF StartScanning
<1>2. Keeps(c, StopScanning(c))
  BY SameKeeps, CancelledKeeps DEF StopScanning
<1>3. Keeps(c, SkipQuiet(c, readable))
  BY SameKeeps, AdvanceKeeps DEF SkipQuiet
<1>4. Keeps(c, RestartDwell(c))
  BY SameKeeps, RearmedInPlace DEF RestartDwell, Scanning
<1> QED BY <1>1, <1>2, <1>3, <1>4

LEMMA ObserveKeeps ==
  ASSUME NEW c, OnList(c), NEW busy \in BOOLEAN, NEW how \in Resume, NEW readable
  PROVE  /\ Keeps(c, Observe(c, busy, how, readable))
         /\ ~Scanning(c) => Observe(c, busy, how, readable) = Same(c)
<1>1. CASE ~Scanning(c)
  BY <1>1, SameKeeps DEF Observe, Scanning
<1>2. CASE Scanning(c) /\ busy /\ how = "Stop"
  <2>1. Observe(c, busy, how, readable) = Cancelled([c EXCEPT !.phase = "Idle"])
    BY <1>2 DEF Observe
  <2> QED BY <2>1, <1>2, CancelledKeeps
<1>3. CASE Scanning(c) /\ busy /\ how # "Stop"
  <2>1. Observe(c, busy, how, readable) = Armed([c EXCEPT !.phase = "Hold"])
    BY <1>3 DEF Observe
  <2> QED BY <2>1, <1>3, RearmedKeeps
<1>4. CASE Scanning(c) /\ ~busy
  <2>1. Observe(c, busy, how, readable) \in {AdvanceScan(c, readable), Same(c)}
    BY <1>4 DEF Observe
  <2> QED BY <2>1, <1>4, AdvanceKeeps, SameKeeps
<1> QED BY <1>1, <1>2, <1>3, <1>4

\* The timer a scan waits for is armed again when it goes off.
LEMMA TimerElapsedKeeps ==
  ASSUME NEW c, OnList(c), NEW token, NEW how, NEW readable
  PROVE  /\ Keeps(c, TimerElapsed(c, token, how, readable))
         /\ Scanning(c) /\ c.active = token =>
              TimerElapsed(c, token, how, readable).timer = "Arm"
<1>1. CASE c.active # token \/ ~Scanning(c)
  BY <1>1, SameKeeps DEF TimerElapsed
<1>2. CASE c.active = token /\ Scanning(c)
  <2>1. TimerElapsed(c, token, how, readable) \in {AdvanceScan(c, readable), Armed(c)}
    BY <1>2 DEF TimerElapsed
  <2> QED BY <2>1, <1>2, AdvanceKeeps, RearmedInPlace
<1> QED BY <1>1, <1>2

LEMMA ActivateFacts ==
  ASSUME NEW view \in SUBSET (Channel \cup {Vfo}), view # {}, NEW keep, NEW readable
  PROVE  LET c == Activate(view, keep, readable)
         IN  c = None \/ (OnList(c) /\ c.view = view /\ ~Scanning(c))
<1> DEFINE index == IF keep \in view THEN keep ELSE Min(view)
           d == [view |-> view, index |-> index, phase |-> "Idle",
                 monitor |-> FALSE, active |-> None, next |-> 1]
<1>1. view \in SUBSET Nat
  BY ChannelFacts
<1>2. Min(view) \in view
  BY <1>1, LeastExists
<1>3. index \in view
  BY <1>2
<1> HIDE DEF index
<1>4. d \in Controller
  BY <1>3, ChannelFacts DEF Controller, Phase
<1>5. Activate(view, keep, readable) \in {d, None}
  BY DEF Activate, index
<1>6. OnList(d) /\ d.view = view /\ ~Scanning(d)
  BY <1>3, <1>4 DEF OnList, Scanning
<1> HIDE DEF d
<1> QED BY <1>5, <1>6

-----------------------------------------------------------------------------
(* The inductive invariant.                                                *)

List(slot) == IF slot.mode = "Vfo" THEN {Vfo} ELSE slot.view

\* A controller walks the list its slot shows.
Walks(c, slot) == c # None => OnList(c) /\ c.view = List(slot)

\* The interface task between two turns.
Sound(u) ==
    /\ u \in Interface
    /\ Walks(u.sel, u.slot) /\ Walks(u.oth, u.other)
    /\ u.oth # None => ~Scanning(u.oth)
    /\ ScanOn(u) => u.timer # None /\ u.timer.token = u.sel.active
    /\ u.timer # None => ScanOn(u)
    /\ u.staged => u.pending # None /\ u.sel # None

\* What is still to be tuned is the selected slot's channel; only a move of
\* dual watch on its way to the receiver is not.
Aimed(u, t) ==
    (u.pending # None /\ u.sel # None /\ ~u.late /\ ~u.staged)
    => \/ u.pending = SetupOf(u.sel)
       \/ /\ t \in {"radio", "tune"} /\ Watching(u) /\ Watched(u) # None
          /\ u.pending = StopSetup(u)

\* With nothing to tune, the receiver is there.
There(u, r) ==
    (/\ u.pending = None /\ u.sel # None /\ Watched(u) # None
     /\ ~u.late /\ u.catch = "None" /\ ~r.faulted)
    => r.tuned \in {SetupOf(u.sel), StopSetup(u)}

ScansAtHome(u, t) == ScanOn(u) => u.stop = 0 \/ t = "acted"

\* A squelch that has just been set is still to be adopted with the rest of the
\* configuration.
ToAdopt(p, t) == p # None /\ t \in {"draw", "clock", "adopt"}

Points(u, r, p, t) ==
    Aimed(u, t) /\ (~ToAdopt(p, t) => There(u, r)) /\ ScansAtHome(u, t)

IInv ==
    /\ TypeOK /\ Sound(ui) /\ Points(ui, rx, published, turn)
    /\ turn = "onair" => ~rx.faulted

-----------------------------------------------------------------------------
(* The interface task stays sound under what its turns do to it.           *)

LEMMA ListFacts ==
  ASSUME NEW slot \in Slot
  PROVE  List(slot) \in SUBSET (Channel \cup {Vfo}) /\ List(slot) # {}
BY PassAssumption DEF Slot, List

LEMMA ActivateSlotFacts ==
  ASSUME NEW slot \in Slot, NEW programmed, NEW keep, NEW readable
  PROVE  LET c == ActivateSlot(slot, programmed, keep, readable)
         IN  /\ c \in Controller \cup {None}
             /\ Walks(c, slot) /\ (c # None => ~Scanning(c))
<1> DEFINE c == ActivateSlot(slot, programmed, keep, readable)
<1>1. CASE slot.mode = "Vfo"
  <2>1. c = Activate(List(slot), None, readable)
    BY <1>1 DEF ActivateSlot, List
  <2>2. c = None \/ (OnList(c) /\ c.view = List(slot) /\ ~Scanning(c))
    BY <2>1, ListFacts, ActivateFacts
  <2> HIDE DEF c
  <2> QED BY <2>2 DEF Walks, OnList, c
<1>2. CASE slot.mode # "Vfo" /\ programmed
  <2>1. c = Activate(List(slot), keep, readable)
    BY <1>2 DEF ActivateSlot, List, Slot
  <2>2. c = None \/ (OnList(c) /\ c.view = List(slot) /\ ~Scanning(c))
    BY <2>1, ListFacts, ActivateFacts
  <2> HIDE DEF c
  <2> QED BY <2>2 DEF Walks, OnList, c
<1>3. CASE slot.mode # "Vfo" /\ ~programmed
  <2>1. c = None
    BY <1>3 DEF ActivateSlot
  <2> QED BY <2>1 DEF Walks
<1> QED BY <1>1, <1>2, <1>3

\* Nothing of what Sound relates has changed, but what is to be tuned.
LEMMA SoundElsewhere ==
  ASSUME NEW u, Sound(u), NEW v \in Interface,
         v.slot = u.slot, v.other = u.other, v.sel = u.sel, v.oth = u.oth,
         v.timer = u.timer, v.staged => v.pending # None /\ v.sel # None
  PROVE  Sound(v)
BY DEF Sound, ScanOn

LEMMA SoundApply ==
  ASSUME NEW u, Sound(u), u.sel # None, NEW up, Keeps(u.sel, up)
  PROVE  /\ Sound(Apply(u, up))
         /\ Apply(u, up) =
              [u EXCEPT !.pending = IF up.tune = None THEN @ ELSE up.tune,
                        !.timer = TimerAfter(@, up), !.sel = up.ctl]
         /\ up.ctl # None
<1> DEFINE v == Apply(u, up)
<1>1. /\ u \in Interface /\ OnList(u.sel) /\ u.sel.view = List(u.slot)
      /\ up \in Update /\ up.ctl # None
  BY ControlAssumption DEF Sound, Walks, Keeps, Update
<1>2. v = [u EXCEPT !.pending = IF up.tune = None THEN @ ELSE up.tune,
                    !.timer = TimerAfter(@, up), !.sel = up.ctl]
  BY <1>1 DEF Apply, Applied, Interface
<1>3. /\ up.timer = "Unchanged" => TimerAfter(u.timer, up) = u.timer
      /\ up.timer = "Cancel" => TimerAfter(u.timer, up) = None
      /\ up.timer = "Arm" => /\ TimerAfter(u.timer, up) \in Timer
                             /\ TimerAfter(u.timer, up).token = up.ctl.active
                             /\ TimerAfter(u.timer, up) # None
  <2>1. CASE up.timer = "Unchanged"
    BY <2>1 DEF TimerAfter
  <2>2. CASE up.timer = "Cancel"
    BY <2>2 DEF TimerAfter
  <2>3. CASE up.timer = "Arm"
    <3>1. TimerAfter(u.timer, up) = [token |-> up.ctl.active, due |-> FALSE]
      BY <2>3 DEF TimerAfter
    <3>2. up.ctl.active \in Token
      BY <2>3 DEF Keeps
    <3>3. [token |-> up.ctl.active, due |-> FALSE] \in Timer
      BY <3>2 DEF Timer
    <3>4. None \notin Timer
      BY PassAssumption
    <3>5. TimerAfter(u.timer, up) \in Timer
      BY <3>1, <3>3
    <3>6. TimerAfter(u.timer, up).token = up.ctl.active
      BY <3>1
    <3> QED BY <3>4, <3>5, <3>6, <2>3
  <2> QED BY <2>1, <2>2, <2>3
<1>4. up.timer \in {"Unchanged", "Cancel", "Arm"}
  BY <1>1 DEF Update
<1>5. TimerAfter(u.timer, up) \in Timer \cup {None}
  BY <1>1, <1>3, <1>4 DEF Interface
<1>6. v \in Interface
  BY <1>1, <1>2, <1>5 DEF Interface, Update
<1>7. /\ v.slot = u.slot /\ v.other = u.other /\ v.oth = u.oth
      /\ v.staged = u.staged /\ v.sel = up.ctl
      /\ v.timer = TimerAfter(u.timer, up)
      /\ v.pending = IF up.tune = None THEN u.pending ELSE up.tune
  BY <1>1, <1>2 DEF Interface
<1> HIDE DEF v
<1>8. Walks(v.sel, v.slot)
  BY <1>1, <1>7 DEF Walks, OnList, Keeps, Update
<1>9. ScanOn(v) => v.timer # None /\ v.timer.token = v.sel.active
  BY <1>1, <1>3, <1>4, <1>7 DEF ScanOn, Sound, Keeps
<1>10. v.timer # None => ScanOn(v)
  BY <1>1, <1>3, <1>4, <1>7 DEF ScanOn, Sound, Keeps
<1>11. v.staged => v.pending # None /\ v.sel # None
  BY <1>1, <1>7 DEF Sound
<1>12. Sound(v)
  BY <1>6, <1>7, <1>8, <1>9, <1>10, <1>11 DEF Sound
<1> QED BY <1>1, <1>2, <1>12 DEF v

LEMMA SoundRebuilt ==
  ASSUME NEW u, u \in Interface, Walks(u.oth, u.other),
         u.oth # None => ~Scanning(u.oth), u.timer = None,
         NEW keep, NEW readable
  PROVE  LET v == Rebuilt(u, keep, readable)
         IN  /\ Sound(v) /\ v.timer = None /\ ~ScanOn(v) /\ ~v.staged
             /\ v.sel = None \/ v.pending = SetupOf(v.sel)
<1> DEFINE v == Rebuilt(u, keep, readable)
           sel == ActivateSlot(u.slot, u.programmed, keep, readable)
           pending == IF sel = None THEN None ELSE SetupOf(sel)
<1>1. /\ sel \in Controller \cup {None}
      /\ Walks(sel, u.slot) /\ (sel # None => ~Scanning(sel))
  BY ActivateSlotFacts DEF Interface
<1>2. v = [u EXCEPT !.sel = sel, !.staged = FALSE, !.pending = pending]
  BY DEF Rebuilt
<1> HIDE DEF sel
<1>3. pending \in Setup \cup {None}
  BY <1>1, SetupOfType DEF Walks
<1>4. v \in Interface
  BY <1>1, <1>2, <1>3 DEF Interface
<1>5. /\ v.sel = sel /\ v.pending = pending /\ v.staged = FALSE
      /\ v.slot = u.slot /\ v.oth = u.oth /\ v.other = u.other /\ v.timer = None
  BY <1>2 DEF Interface
<1> HIDE DEF v
<1>6. ~ScanOn(v)
  BY <1>1, <1>5 DEF ScanOn
<1>7. Sound(v)
  BY <1>1, <1>4, <1>5, <1>6 DEF Sound
<1> QED BY <1>2, <1>5, <1>6, <1>7 DEF v

LEMMA SoundSwapped ==
  ASSUME NEW u, Sound(u), ~ScanOn(u)
  PROVE  LET v == Swapped(u)
         IN  /\ Sound(v) /\ ~ScanOn(v) /\ ~v.staged
             /\ v.sel = None \/ v.pending = SetupOf(v.sel)
<1> DEFINE v == Swapped(u)
           pending == IF u.oth = None THEN None ELSE SetupOf(u.oth)
<1>1. u \in Interface /\ Walks(u.oth, u.other) /\ Walks(u.sel, u.slot)
  BY DEF Sound
<1>2. pending \in Setup \cup {None}
  BY <1>1, SetupOfType DEF Walks
<1>3. v \in Interface
  <2>1. v = [u EXCEPT !.slot = u.other, !.other = u.slot, !.sel = u.oth,
                      !.oth = u.sel, !.kept = u.okept, !.okept = u.kept,
                      !.staged = FALSE, !.timer = None, !.pending = pending]
    BY DEF Swapped
  <2> HIDE DEF pending, v
  <2>2. [u EXCEPT !.slot = u.other, !.other = u.slot, !.sel = u.oth,
                  !.oth = u.sel, !.kept = u.okept, !.okept = u.kept] \in Interface
    BY <1>1 DEF Interface
  <2>3. \A w \in Interface :
          [w EXCEPT !.staged = FALSE, !.timer = None, !.pending = pending] \in Interface
    BY <1>2 DEF Interface
  <2> QED BY <2>1, <2>2, <2>3
<1>4. /\ v.slot = u.other /\ v.other = u.slot /\ v.sel = u.oth /\ v.oth = u.sel
      /\ v.staged = FALSE /\ v.timer = None /\ v.pending = pending
  BY <1>1 DEF Interface, Swapped
<1> HIDE DEF v
<1>5. ~ScanOn(v)
  BY <1>4 DEF ScanOn, Sound
<1>6. Sound(v)
  BY <1>1, <1>3, <1>4, <1>5 DEF Sound, ScanOn
<1> QED BY <1>4, <1>5, <1>6 DEF v

\* A memory slot's controller stands on a memory channel.
LEMMA MemoryIndex ==
  ASSUME NEW slot \in Slot, NEW c, c # None, Walks(c, slot), slot.mode = "Memory"
  PROVE  c.index \in Channel
<1>1. slot.view \in View
  BY DEF Slot
<1>2. slot.view \subseteq Channel
  BY <1>1, PassAssumption
<1> QED BY <1>2 DEF Walks, OnList, List

LEMMA SoundPlaced ==
  ASSUME NEW u, Sound(u)
  PROVE  /\ Sound(Placed(u))
         /\ \E k, o : Placed(u) = [u EXCEPT !.kept = k, !.okept = o]
<1> DEFINE v == Placed(u)
           k == IF u.sel # None /\ u.slot.mode = "Memory" THEN u.sel.index ELSE u.kept
           o == IF u.oth # None /\ u.other.mode = "Memory" THEN u.oth.index ELSE u.okept
<1>1. /\ u \in Interface /\ Walks(u.oth, u.other) /\ Walks(u.sel, u.slot)
      /\ u.slot \in Slot /\ u.other \in Slot
  BY DEF Sound, Interface
<1>2. v = [u EXCEPT !.kept = k, !.okept = o]
  BY <1>1 DEF Placed, Interface
<1>3. k \in Channel \cup {None}
  BY <1>1, MemoryIndex DEF Interface
<1>4. o \in Channel \cup {None}
  BY <1>1, MemoryIndex DEF Interface
<1> HIDE DEF k, o
<1>5. v \in Interface
  BY <1>1, <1>2, <1>3, <1>4 DEF Interface
<1>6. /\ v.slot = u.slot /\ v.other = u.other /\ v.sel = u.sel /\ v.oth = u.oth
      /\ v.timer = u.timer /\ v.staged = u.staged /\ v.pending = u.pending
  BY <1>1, <1>2 DEF Interface
<1> HIDE DEF v
<1>7. Sound(v)
  BY <1>5, <1>6, SoundElsewhere DEF Sound
<1>8. \E kk, oo : v = [u EXCEPT !.kept = kk, !.okept = oo]
  BY <1>2
<1> QED BY <1>7, <1>8 DEF v

LEMMA ApplyOtherSame ==
  ASSUME NEW u \in Interface
  PROVE  ApplyOther(u, Same(u.oth)) = u
BY DEF ApplyOther, Applied, Same, TimerAfter, Interface

LEMMA SoundAdopted ==
  ASSUME Sound(ui), NEW kind, NEW place \in HostedPlace \cup {None},
         NEW dual \in BOOLEAN, NEW readable
  PROVE  LET v == Adopted(kind, place, dual, readable)
         IN  /\ Sound(v) /\ ~ScanOn(v) /\ ~v.staged
             /\ v.sel = None \/ v.pending = SetupOf(v.sel)
<1> DEFINE blank   == kind = "Blank"
           empty   == ~ui.programmed
           view(s) == [s EXCEPT !.view = IF blank THEN Channel ELSE @]
           memory(s) == [view(s) EXCEPT !.mode = "Memory"]
           chosen  == place = None /\ empty /\ kind \in {"Image", "Place"}
           programmed == IF kind = "Squelch" THEN ui.programmed ELSE ~blank
           slot  == IF place # None THEN place.slot
                    ELSE IF chosen THEN memory(ui.slot) ELSE view(ui.slot)
           other == IF chosen THEN memory(ui.other) ELSE view(ui.other)
           kept  == IF place # None THEN place.kept
                    ELSE IF chosen THEN None ELSE ui.kept
           okept == IF place # None \/ chosen THEN None ELSE ui.okept
           screen == IF place # None THEN "Operating" ELSE ui.screen
           u == [ui EXCEPT !.programmed = programmed, !.dual = dual, !.slot = slot,
                           !.other = other, !.kept = kept, !.okept = okept,
                           !.screen = screen]
           sel == ActivateSlot(u.slot, u.programmed, u.kept, readable)
           oth == ActivateSlot(u.other, u.programmed, u.okept, readable)
           pending == IF sel = None THEN None ELSE SetupOf(sel)
           v == Adopted(kind, place, dual, readable)
<1>1. ui \in Interface /\ ui.slot \in Slot /\ ui.other \in Slot
  BY DEF Sound, Interface
<1>2. \A s \in Slot : view(s) \in Slot /\ memory(s) \in Slot
  <2>1. Channel \in View
    BY PassAssumption
  <2> QED BY <2>1 DEF Slot
<1>3. place # None => place.slot \in Slot /\ place.kept \in Channel
  BY PassAssumption
<1>4. slot \in Slot /\ other \in Slot
  BY <1>1, <1>2, <1>3
<1>5. /\ kept \in Channel \cup {None} /\ okept \in Channel \cup {None}
      /\ programmed \in BOOLEAN /\ screen \in {"Operating", "Catch"}
  BY <1>1, <1>3 DEF Interface
<1>6. v = [ui EXCEPT !.programmed = programmed, !.dual = dual, !.slot = slot,
                     !.other = other, !.kept = kept, !.okept = okept,
                     !.screen = screen, !.sel = sel, !.staged = FALSE,
                     !.pending = pending, !.oth = oth, !.timer = None]
  BY <1>1 DEF Adopted, Rebuilt, Interface
<1> HIDE DEF slot, other, kept, okept, programmed, screen
<1>7. u.slot = slot /\ u.other = other
  BY <1>1 DEF Interface
<1>8. /\ sel \in Controller \cup {None} /\ oth \in Controller \cup {None}
      /\ Walks(sel, slot) /\ Walks(oth, other)
      /\ (sel # None => ~Scanning(sel)) /\ (oth # None => ~Scanning(oth))
  BY <1>4, <1>7, ActivateSlotFacts
<1> HIDE DEF sel, oth
<1>9. pending \in Setup \cup {None}
  BY <1>8, SetupOfType DEF Walks
<1> HIDE DEF v, pending
<1>10. v \in Interface
  <2> DEFINE w == [ui EXCEPT !.slot = slot, !.other = other, !.kept = kept,
                             !.okept = okept]
             x == [w EXCEPT !.programmed = programmed, !.dual = dual,
                            !.screen = screen, !.staged = FALSE]
  <2>1. w \in Interface
    BY <1>1, <1>4, <1>5 DEF Interface
  <2>2. v = [x EXCEPT !.sel = sel, !.pending = pending, !.oth = oth, !.timer = None]
    BY <1>1, <1>6 DEF Interface
  <2> HIDE DEF w
  <2>3. x \in Interface
    BY <1>5, <2>1 DEF Interface
  <2> HIDE DEF x
  <2> QED BY <1>8, <1>9, <2>2, <2>3 DEF Interface
<1>11. /\ v.sel = sel /\ v.oth = oth /\ v.slot = slot /\ v.other = other
       /\ v.staged = FALSE /\ v.timer = None /\ v.pending = pending
  BY <1>1, <1>6 DEF Interface
<1>12. ~ScanOn(v)
  BY <1>8, <1>11 DEF ScanOn
<1>13. Sound(v)
  BY <1>8, <1>10, <1>11, <1>12 DEF Sound
<1> QED BY <1>11, <1>12, <1>13 DEF v, pending

-----------------------------------------------------------------------------
(* What a turn does to what is tuned.                                      *)

LEMMA WatchSame ==
  ASSUME NEW u, NEW v, v.sel = u.sel, v.oth = u.oth, v.stop = u.stop
  PROVE  /\ Watched(v) = Watched(u) /\ StopSetup(v) = StopSetup(u)
         /\ v.dual = u.dual /\ v.catch = u.catch /\ v.staged = u.staged
              => Watching(v) = Watching(u)
<1>1. Watched(v) = Watched(u)
  BY DEF Watched
<1>2. StopSetup(v) = StopSetup(u)
  BY <1>1 DEF StopSetup
<1>3. ASSUME v.dual = u.dual, v.catch = u.catch, v.staged = u.staged
      PROVE  Watching(v) = Watching(u)
  BY <1>3 DEF Watching, Stops
<1> QED BY <1>1, <1>2, <1>3

LEMMA HomeSetup ==
  ASSUME NEW u, u.stop = 0
  PROVE  StopSetup(u) = SetupOf(u.sel) /\ Watched(u) = u.sel
<1>1. Watched(u) = u.sel
  BY DEF Watched
<1>2. StopSetup(u) = [SetupOf(u.sel) EXCEPT !.side = "Receive"]
  BY <1>1 DEF StopSetup
<1> QED BY <1>1, <1>2 DEF SetupOf

\* The selected slot has been built again: it is on its way.
LEMMA LandedPoints ==
  ASSUME NEW u, Sound(u), u.sel = None \/ u.pending = SetupOf(u.sel),
         NEW r, NEW p, NEW t, ScansAtHome(u, t)
  PROVE  Points(u, r, p, t)
<1>1. u.sel # None => u.pending # None
  BY SetupOfType DEF Sound, Walks
<1>2. Aimed(u, t)
  BY DEF Aimed
<1>3. There(u, r)
  BY <1>1 DEF There
<1> QED BY <1>2, <1>3 DEF Points

\* Nothing the receiver's place depends on has changed.
LEMMA SamePoints ==
  ASSUME NEW u, NEW v, NEW r, NEW q, NEW p, NEW t, NEW w,
         Aimed(u, t), There(u, r), ScansAtHome(u, t),
         t \notin {"radio", "tune", "acted"},
         v.sel = u.sel, v.oth = u.oth, v.stop = u.stop, v.pending = u.pending,
         v.late = u.late, v.catch = u.catch, v.staged = u.staged,
         q.tuned = r.tuned, q.faulted = r.faulted
  PROVE  Points(v, q, p, w)
<1>1. Watched(v) = Watched(u) /\ StopSetup(v) = StopSetup(u)
  BY WatchSame
<1>2. Aimed(v, w)
  BY DEF Aimed
<1>3. There(v, q)
  BY <1>1 DEF There
<1>4. ScansAtHome(v, w)
  BY DEF ScansAtHome, ScanOn
<1> QED BY <1>2, <1>3, <1>4 DEF Points

\* An update points the receiver where its controller is.
LEMMA ApplyPoints ==
  ASSUME NEW u, Sound(u), u.sel # None, NEW up, Keeps(u.sel, up),
         NEW r, NEW p, NEW t, NEW w,
         Aimed(u, t), t \notin {"radio", "tune"}, There(u, r),
         ScansAtHome(u, t), Scanning(u.sel) \/ up = Same(u.sel) \/ w = "acted", t # "acted"
  PROVE  Points(Apply(u, up), r, p, w)
<1> DEFINE v == Apply(u, up)
<1>1. /\ u \in Interface /\ Sound(v) /\ up.ctl # None
      /\ v = [u EXCEPT !.pending = IF up.tune = None THEN @ ELSE up.tune,
                       !.timer = TimerAfter(@, up), !.sel = up.ctl]
  BY SoundApply DEF Sound
<1>2. /\ v.sel = up.ctl /\ v.oth = u.oth /\ v.stop = u.stop /\ v.late = u.late
      /\ v.catch = u.catch /\ v.staged = u.staged
      /\ v.pending = IF up.tune = None THEN u.pending ELSE up.tune
  BY <1>1 DEF Interface
<1> HIDE DEF v
<1>3. ScansAtHome(v, w)
  BY <1>2 DEF ScansAtHome, ScanOn, Same
<1>4. CASE up.tune = SetupOf(up.ctl)
  <2>1. up.tune # None
    BY <1>1, <1>2, <1>4, SetupOfType DEF Sound, Walks
  <2>2. v.pending = SetupOf(v.sel)
    BY <1>2, <1>4, <2>1
  <2> QED BY <1>1, <1>3, <2>2, LandedPoints DEF v
<1>5. CASE up.tune = None /\ SetupOf(up.ctl) = SetupOf(u.sel)
  <2>1. v.pending = u.pending /\ SetupOf(v.sel) = SetupOf(u.sel)
    BY <1>2, <1>5
  <2>2. Watched(v) # None => Watched(u) # None /\ StopSetup(v) = StopSetup(u)
    BY <1>2, <2>1 DEF Watched, StopSetup
  <2>3. Aimed(v, w)
    BY <1>2, <2>1 DEF Aimed
  <2>4. There(v, r)
    BY <1>2, <2>1, <2>2 DEF There
  <2> QED BY <1>3, <2>3, <2>4 DEF Points, v
<1> QED BY <1>4, <1>5 DEF Keeps

-----------------------------------------------------------------------------
(* Every action keeps the invariant: time, the host, the top of the pass.  *)

\* What the turns outside the receiver's own know.
LEMMA Before ==
  ASSUME IInv
  PROVE  /\ ui \in Interface /\ rx \in Receiver /\ resume \in Resume
         /\ Sound(ui) /\ Aimed(ui, turn) /\ ScansAtHome(ui, turn)
         /\ ~ToAdopt(published, turn) => There(ui, rx)
         /\ turn = "onair" => ~rx.faulted
         /\ published \in Publication \cup {None}
BY DEF IInv, TypeOK, Points

LEMMA ActCounts == TypeOK /\ Act => acts' \in 0 .. MaxActs
BY PassAssumption DEF TypeOK, Act

LEMMA ExpireInv ==
  ASSUME IInv, NEW token \in Token, Expire(token) PROVE IInv'
<1> USE DEF Expire
<1>1. ui \in Interface /\ ui.timer \in Timer
  BY Before DEF Interface
<1>2. /\ ui'.timer \in Timer /\ ui'.timer.token = ui.timer.token
      /\ ui' \in Interface
  BY <1>1 DEF Interface, Timer
<1>3. /\ ui'.sel = ui.sel /\ ui'.oth = ui.oth /\ ui'.slot = ui.slot
      /\ ui'.other = ui.other /\ ui'.stop = ui.stop /\ ui'.pending = ui.pending
      /\ ui'.late = ui.late /\ ui'.catch = ui.catch /\ ui'.staged = ui.staged
      /\ ui'.dual = ui.dual
  BY <1>1 DEF Interface
<1>4. ui'.timer # None
  BY <1>2, PassAssumption
<1>5. Sound(ui')
  BY <1>1, <1>2, <1>3, <1>4 DEF Sound, ScanOn, IInv
<1>6. /\ Watched(ui') = Watched(ui) /\ StopSetup(ui') = StopSetup(ui)
      /\ Watching(ui') = Watching(ui)
  BY <1>3, WatchSame
<1>7. Points(ui', rx, published, turn)
  BY <1>3, <1>6 DEF IInv, Points, Aimed, There, ScansAtHome, ScanOn
<1>8. TypeOK'
  BY <1>2 DEF IInv, TypeOK
<1> QED BY <1>5, <1>7, <1>8 DEF IInv, Points, Aimed, There, ScansAtHome, Sound

LEMMA HostInv ==
  ASSUME IInv, HostWrites \/ HostDone PROVE IInv'
<1>1. /\ ui' = ui /\ rx' = rx /\ turn' = turn /\ resume' = resume
      /\ published' \in Publication /\ published' # None /\ writing' \in BOOLEAN
  <2>1. None \notin Publication
    BY PassAssumption
  <2> QED BY <2>1 DEF HostWrites, HostDone, Publication
<1>2. ToAdopt(published, turn) => ToAdopt(published', turn)
  BY <1>1 DEF ToAdopt
<1>3. Points(ui, rx, published', turn)
  BY <1>2 DEF IInv, Points
<1>4. acts' \in 0 .. MaxActs
  BY ActCounts DEF HostWrites, HostDone, IInv, TypeOK
<1>5. TypeOK'
  BY <1>1, <1>4 DEF IInv, TypeOK, Publication
<1> QED BY <1>1, <1>3, <1>5 DEF IInv

LEMMA ScanClockInv ==
  ASSUME IInv, NEW readable \in Readable, ScanClock(readable) PROVE IInv'
<1> DEFINE up == TimerElapsed(ui.sel, ui.timer.token, resume, readable)
           u == [ui EXCEPT !.timer = None]
<1>1. /\ ui.timer # None /\ turn = "clock" /\ turn' = "adopt"
      /\ ui' = IF u.sel = None THEN u ELSE Apply(u, up)
      /\ UNCHANGED <<rx, resume, published, writing, acts>>
  <2>1. u.sel = ui.sel
    BY Before DEF Interface
  <2> QED BY <2>1 DEF ScanClock, ClockRings
<1>2. /\ ui \in Interface /\ ScanOn(ui) /\ ui.sel # None /\ Scanning(ui.sel)
      /\ ui.timer.token = ui.sel.active /\ OnList(ui.sel)
  BY <1>1, Before DEF Sound, ScanOn, Walks
<1>3. Keeps(ui.sel, up) /\ up.timer = "Arm"
  BY <1>2, TimerElapsedKeeps
<1> HIDE DEF up
<1>4. Apply(u, up) = Apply(ui, up)
  BY <1>2, <1>3 DEF Apply, Applied, TimerAfter, Interface
<1>5. ui' = Apply(ui, up)
  BY <1>1, <1>2, <1>4 DEF Interface
<1>6. Sound(ui')
  BY <1>2, <1>3, <1>5, SoundApply, Before
<1>7. Points(ui', rx, published, turn')
  <2>1. CASE ~ToAdopt(published, turn)
    BY <1>1, <1>2, <1>3, <1>5, <2>1, ApplyPoints, Before
  <2>2. CASE ToAdopt(published, turn)
    \* The receiver's place says nothing until the publication is adopted.
    <3> DEFINE q == [rx EXCEPT !.faulted = TRUE]
    <3>1. There(ui, q)
      BY Before DEF There, Receiver
    <3>2. Points(ui', q, published, turn')
      BY <1>1, <1>2, <1>3, <1>5, <3>1, ApplyPoints, Before
    <3>3. ToAdopt(published, turn')
      BY <1>1, <2>2 DEF ToAdopt
    <3> QED BY <3>2, <3>3 DEF Points
  <2> QED BY <2>1, <2>2
<1>8. TypeOK'
  BY <1>1, <1>6 DEF IInv, TypeOK, Sound, Turn
<1> QED BY <1>1, <1>6, <1>7, <1>8 DEF IInv

LEMMA NoClockInv ==
  ASSUME IInv, NoClock PROVE IInv'
<1>1. /\ turn = "clock" /\ turn' = "adopt"
      /\ UNCHANGED <<ui, rx, resume, published, writing, acts>>
  BY DEF NoClock
<1>2. Points(ui, rx, published, "adopt")
  BY <1>1 DEF IInv, Points, Aimed, ScansAtHome, ToAdopt
<1>3. TypeOK'
  BY <1>1 DEF IInv, TypeOK, Turn
<1> QED BY <1>1, <1>2, <1>3 DEF IInv

LEMMA AdoptInv ==
  ASSUME IInv, Adopt PROVE IInv'
<1>1. PICK place \in HostedPlace \cup {None}, dual \in BOOLEAN, readable \in Readable :
        ui' = Adopted(published, place, dual, readable)
  BY DEF Adopt
<1>2. published' = None /\ UNCHANGED <<rx, resume, writing, turn, acts>>
  BY DEF Adopt
<1>3. /\ Sound(ui') /\ ~ScanOn(ui')
      /\ ui'.sel = None \/ ui'.pending = SetupOf(ui'.sel)
  BY <1>1, SoundAdopted, Before
<1>4. Points(ui', rx', published', turn')
  <2>1. ScansAtHome(ui', turn')
    BY <1>3 DEF ScansAtHome
  <2> QED BY <1>3, <2>1, LandedPoints
<1>5. TypeOK'
  BY <1>2, <1>3 DEF IInv, TypeOK, Sound
<1> QED BY Before, <1>2, <1>3, <1>4, <1>5 DEF IInv

LEMMA TransmitInv ==
  ASSUME IInv, Transmit \/ ToKeys PROVE IInv'
<1>1. /\ turn = "adopt" /\ turn' \in {"onair", "keys"} /\ published = None
      /\ turn' = "onair" => ~rx.faulted
      /\ UNCHANGED <<ui, rx, resume, published, writing>>
  BY DEF Transmit, ToKeys
<1>2. Aimed(ui, turn') /\ There(ui, rx) /\ ScansAtHome(ui, turn')
  BY <1>1, Before DEF Aimed, ScansAtHome, ToAdopt
<1>3. acts' \in 0 .. MaxActs
  BY ActCounts DEF Transmit, ToKeys, IInv, TypeOK
<1>4. TypeOK'
  BY <1>1, <1>3 DEF IInv, TypeOK, Turn
<1> QED BY <1>1, <1>2, <1>4 DEF IInv, Points

LEMMA RestoreInv ==
  ASSUME IInv, Restore PROVE IInv'
<1> DEFINE pending == IF ui.stop # 0 THEN Retune(ui) ELSE ui.pending
<1>1. /\ turn = "onair" /\ turn' = "keys" /\ published = None
      /\ rx' = TunedTo(rx.tuned)
      /\ ui' = [ui EXCEPT !.stop = 0, !.pending = pending]
      /\ UNCHANGED <<resume, published, writing, acts>>
  BY DEF Restore
<1>2. ui \in Interface /\ rx \in Receiver /\ Sound(ui)
  BY Before
<1>3. /\ Retune(ui) \in Setup \cup {None}
      /\ ui.sel # None => Retune(ui) = SetupOf(ui.sel) /\ Retune(ui) # None
  BY <1>2, SetupOfType DEF Retune, Sound, Walks
<1>4. /\ pending \in Setup \cup {None} /\ (ui.staged => pending # None)
  BY <1>2, <1>3 DEF Interface, Sound
<1>5. /\ ui' \in Interface /\ ui'.sel = ui.sel /\ ui'.oth = ui.oth
      /\ ui'.slot = ui.slot /\ ui'.other = ui.other /\ ui'.timer = ui.timer
      /\ ui'.staged = ui.staged /\ ui'.late = ui.late /\ ui'.catch = ui.catch
      /\ ui'.pending = pending /\ ui'.stop = 0
  <2> HIDE DEF pending
  <2>1. 0 \in Stop
    BY DEF Stop
  <2>2. ui' \in Interface
    BY <1>1, <1>2, <1>4, <2>1 DEF Interface
  <2> QED BY <1>1, <1>2, <2>2 DEF Interface
<1>6. Sound(ui')
  BY <1>2, <1>4, <1>5, SoundElsewhere DEF Sound
<1>7. ScansAtHome(ui', turn')
  BY <1>5 DEF ScansAtHome
<1>8. rx' \in Receiver /\ rx'.tuned = rx.tuned
  BY <1>1, <1>2 DEF Receiver, TunedTo
<1>9. Points(ui', rx', published', turn')
  <2>1. CASE ui.stop # 0
    <3>1. ui'.sel = None \/ ui'.pending = SetupOf(ui'.sel)
      BY <1>3, <1>5, <2>1
    <3> QED BY <1>6, <1>7, <3>1, LandedPoints
  <2>2. CASE ui.stop = 0
    <3>1. Aimed(ui', "keys")
      BY <1>1, <1>5, <2>2, Before DEF Aimed
    <3>2. There(ui, rx)
      BY <1>1, Before DEF ToAdopt
    <3>3. Watched(ui') = Watched(ui) /\ StopSetup(ui') = StopSetup(ui)
      BY <1>5, <2>2, WatchSame
    <3>4. There(ui', rx')
      BY <1>1, Before, <1>5, <1>8, <2>2, <3>2, <3>3 DEF There
    <3> QED BY <1>1, <1>7, <3>1, <3>4 DEF Points
  <2> QED BY <2>1, <2>2
<1>10. TypeOK'
  BY <1>1, <1>5, <1>8 DEF IInv, TypeOK, Turn
<1> QED BY <1>1, <1>6, <1>9, <1>10 DEF IInv

-----------------------------------------------------------------------------
(* The keys.                                                               *)

\* At the keys nothing is to be adopted, and no scan is away.
LEMMA AtKeys ==
  ASSUME IInv, turn = "keys"
  PROVE  Aimed(ui, "keys") /\ There(ui, rx) /\ ScansAtHome(ui, "keys")
BY Before DEF ToAdopt

LEMMA ActedOnInv ==
  ASSUME IInv, turn = "keys", Act, NEW v, ActedOn(v), Sound(v),
         Points(v, rx, published, "acted")
  PROVE  IInv'
<1>1. /\ ui' = v /\ turn' = "acted"
      /\ UNCHANGED <<rx, resume, published, writing>>
  BY DEF ActedOn
<1>2. acts' \in 0 .. MaxActs
  BY ActCounts DEF IInv
<1>3. TypeOK'
  BY <1>1, <1>2 DEF IInv, TypeOK, Turn, Sound
<1> QED BY <1>1, <1>3 DEF IInv

\* A slot built again for a key.
LEMMA ActedOnRebuilt ==
  ASSUME IInv, turn = "keys", Act, NEW v, ActedOn(v), Sound(v),
         v.sel = None \/ v.pending = SetupOf(v.sel)
  PROVE  IInv'
<1>1. Points(v, rx, published, "acted")
  BY LandedPoints DEF ScansAtHome
<1> QED BY <1>1, ActedOnInv

\* An operation of the controller for a key.
LEMMA ActedOnApplied ==
  ASSUME IInv, turn = "keys", Act, ui.sel # None,
         NEW up, Keeps(ui.sel, up), ActedOn(Apply(ui, up))
  PROVE  IInv'
<1>1. Sound(ui) /\ Aimed(ui, "keys") /\ There(ui, rx) /\ ScansAtHome(ui, "keys")
  BY Before, AtKeys
<1>2. Sound(Apply(ui, up))
  BY <1>1, SoundApply
<1>3. Points(Apply(ui, up), rx, published, "acted")
  BY <1>1, ApplyPoints
<1> QED BY <1>2, <1>3, ActedOnInv

\* A key that changes nothing.
LEMMA ActedOnSame ==
  ASSUME IInv, turn = "keys", Act, ActedOn(ui)
  PROVE  IInv'
<1>1. Points(ui, rx, published, "acted")
  BY AtKeys, SamePoints
<1> QED BY <1>1, Before, ActedOnInv

LEMMA NoKeyInv ==
  ASSUME IInv, NoKey PROVE IInv'
<1>1. /\ turn = "keys" /\ turn' = "idle"
      /\ UNCHANGED <<ui, rx, resume, published, writing, acts>>
  BY DEF NoKey
<1>2. Points(ui, rx, published, "idle")
  BY <1>1, AtKeys, SamePoints
<1>3. TypeOK'
  BY <1>1 DEF IInv, TypeOK, Turn
<1> QED BY <1>1, <1>2, <1>3 DEF IInv

\* A key that is free finds no scan, and no timer.
LEMMA FreeKey ==
  ASSUME IInv, NEW screen, KeyOn(screen)
  PROVE  /\ turn = "keys" /\ Act /\ ~ScanOn(ui) /\ ui.timer = None
         /\ ui \in Interface /\ Walks(ui.oth, ui.other)
         /\ ui.oth # None => ~Scanning(ui.oth)
BY Before DEF KeyOn, Sound

LEMMA SetSourceInv ==
  ASSUME IInv, SetSource PROVE IInv'
<1>1. PICK slot \in Slot, readable \in Readable :
        ActedOn(Rebuilt([ui EXCEPT !.slot = slot, !.kept = None], None, readable))
  BY DEF SetSource
<1>2. KeyOn("Operating")
  BY DEF SetSource
<1> DEFINE u == [ui EXCEPT !.slot = slot, !.kept = None]
           v == Rebuilt(u, None, readable)
<1>3. /\ u \in Interface /\ u.oth = ui.oth /\ u.other = ui.other /\ u.timer = None
  BY <1>2, FreeKey DEF Interface
<1> HIDE DEF u
<1>4. Walks(u.oth, u.other) /\ (u.oth # None => ~Scanning(u.oth))
  BY <1>2, <1>3, FreeKey
<1>5. Sound(v) /\ (v.sel = None \/ v.pending = SetupOf(v.sel))
  BY <1>3, <1>4, SoundRebuilt
<1> HIDE DEF v
<1> QED BY <1>1, <1>2, <1>5, FreeKey, ActedOnRebuilt DEF u, v

LEMMA ToggleVfoInv ==
  ASSUME IInv, ToggleVfo PROVE IInv'
<1>1. PICK readable \in Readable :
        ActedOn([Rebuilt([ui EXCEPT !.slot = OtherMode(@)], ui.kept, readable)
                   EXCEPT !.timer = None])
  BY DEF ToggleVfo
<1>2. KeyOn("Operating")
  BY DEF ToggleVfo
<1> DEFINE u == [ui EXCEPT !.slot = OtherMode(@)]
           v == Rebuilt(u, ui.kept, readable)
           w == [v EXCEPT !.timer = None]
<1>3. OtherMode(ui.slot) \in Slot
  BY <1>2, FreeKey DEF Interface, OtherMode, Slot
<1>4. /\ u \in Interface /\ u.oth = ui.oth /\ u.other = ui.other /\ u.timer = None
  BY <1>2, <1>3, FreeKey DEF Interface
<1> HIDE DEF u
<1>5. Walks(u.oth, u.other) /\ (u.oth # None => ~Scanning(u.oth))
  BY <1>2, <1>4, FreeKey
<1>6. /\ Sound(v) /\ (v.sel = None \/ v.pending = SetupOf(v.sel))
      /\ v.timer = None
  BY <1>4, <1>5, SoundRebuilt
<1> HIDE DEF v
<1>7. w = v
  BY <1>6 DEF Sound, Interface
<1>8. ActedOn(v)
  BY <1>1, <1>7 DEF u, v
<1> QED BY <1>2, <1>6, <1>8, FreeKey, ActedOnRebuilt

LEMMA SwapSlotInv ==
  ASSUME IInv, SwapSlot PROVE IInv'
<1>1. KeyOn("Operating") /\ ActedOn(Swapped(ui))
  BY DEF SwapSlot
<1> DEFINE v == Swapped(ui)
<1>2. Sound(v) /\ (v.sel = None \/ v.pending = SetupOf(v.sel))
  BY <1>1, FreeKey, SoundSwapped, Before
<1> HIDE DEF v
<1> QED BY <1>1, <1>2, FreeKey, ActedOnRebuilt DEF v

\* A staged squelch is on its way as a setup of its own.
LEMMA SetSquelchInv ==
  ASSUME IInv, SetSquelch PROVE IInv'
<1>1. KeyOn("Operating") /\ ActedOn(Staged(ui))
  BY DEF SetSquelch
<1>2. CASE ui.sel = None \/ ui.pending # None \/ ui.staged
  <2>1. ActedOn(ui)
    BY <1>1, <1>2 DEF Staged
  <2> QED BY <1>1, <2>1, FreeKey, ActedOnSame
<1>3. CASE ui.sel # None /\ ui.pending = None /\ ~ui.staged
  <2> DEFINE setup == [SetupOf(ui.sel) EXCEPT !.open = FALSE]
             v == [ui EXCEPT !.staged = TRUE, !.pending = setup]
  <2>1. ActedOn(v)
    BY <1>1, <1>3 DEF Staged
  <2>2. setup \in Setup
    BY <1>3, Before, SetupOfType DEF Sound, Walks, Setup
  <2> HIDE DEF setup
  <2>3. setup # None
    BY <2>2, ControlAssumption
  <2>4. /\ v \in Interface /\ v.sel = ui.sel /\ v.oth = ui.oth /\ v.slot = ui.slot
        /\ v.other = ui.other /\ v.timer = ui.timer
        /\ v.pending = setup /\ v.staged = TRUE
    BY <2>2, Before DEF Interface
  <2> HIDE DEF v
  <2>5. Sound(v)
    BY <1>3, <2>3, <2>4, Before, SoundElsewhere
  <2>6. Points(v, rx, published, "acted")
    BY <2>3, <2>4 DEF Points, Aimed, There, ScansAtHome
  <2> QED BY <1>1, <2>1, <2>5, <2>6, FreeKey, ActedOnInv
<1> QED BY <1>2, <1>3

LEMMA ToggleMonitorInv ==
  ASSUME IInv, ToggleMonitor PROVE IInv'
<1>1. PICK screen \in {"Operating", "Catch"} : KeyOn(screen)
  BY DEF ToggleMonitor
<1>2. ActedOn(IF Swallowed THEN ui
              ELSE Apply(ui, SetMonitor(ui.sel, ~ui.sel.monitor)))
  BY DEF ToggleMonitor
<1>3. CASE Swallowed
  BY <1>1, <1>2, <1>3, FreeKey, ActedOnSame
<1>4. CASE ~Swallowed
  <2>1. ui.sel # None /\ OnList(ui.sel)
    BY <1>4, Before DEF Swallowed, Sound, Walks
  <2>2. (~ui.sel.monitor) \in BOOLEAN
    OBVIOUS
  <2>3. Keeps(ui.sel, SetMonitor(ui.sel, ~ui.sel.monitor))
    BY <2>1, <2>2, SetMonitorKeeps
  <2> QED BY <1>1, <1>2, <1>4, <2>1, <2>3, FreeKey, ActedOnApplied
<1> QED BY <1>3, <1>4

LEMMA ToggleRxToneInv ==
  ASSUME IInv, ToggleRxTone PROVE IInv'
<1>1. /\ KeyOn("Operating")
      /\ ActedOn(IF Swallowed THEN ui ELSE [ui EXCEPT !.pending = SetupOf(ui.sel)])
  BY DEF ToggleRxTone
<1>2. CASE Swallowed
  BY <1>1, <1>2, FreeKey, ActedOnSame
<1>3. CASE ~Swallowed
  <2> DEFINE v == [ui EXCEPT !.pending = SetupOf(ui.sel)]
  <2>1. ui.sel # None /\ SetupOf(ui.sel) \in Setup /\ SetupOf(ui.sel) # None
    BY <1>3, Before, SetupOfType DEF Swallowed, Sound, Walks
  <2>2. /\ v \in Interface /\ v.sel = ui.sel /\ v.oth = ui.oth /\ v.slot = ui.slot
        /\ v.other = ui.other /\ v.timer = ui.timer
        /\ v.pending = SetupOf(ui.sel) /\ v.staged = ui.staged
    BY <2>1, Before DEF Interface
  <2>3. ActedOn(v)
    BY <1>1, <1>3
  <2> HIDE DEF v
  <2>4. Sound(v)
    BY <2>1, <2>2, Before, SoundElsewhere
  <2> QED BY <1>1, <2>2, <2>3, <2>4, FreeKey, ActedOnRebuilt
<1> QED BY <1>2, <1>3

LEMMA ScanKeyInv ==
  ASSUME IInv, StartScan \/ StopScan \/ SelectChannel PROVE IInv'
<1>1. turn = "keys" /\ Act
  BY DEF StartScan, StopScan, SelectChannel, KeyOn
<1>2. CASE ActedOn(ui)
  BY <1>1, <1>2, ActedOnSame
<1>3. ASSUME ~ActedOn(ui) PROVE IInv'
  <2>1. /\ ~Swallowed
        /\ \/ \E readable \in Readable : ActedOn(Apply(ui, StartScanning(ui.sel, readable)))
           \/ ActedOn(Apply(ui, StopScanning(ui.sel)))
           \/ \E index \in Channel, readable \in Readable :
                ActedOn(Apply(ui, Select(ui.sel, index, readable)))
    BY <1>3 DEF StartScan, StopScan, SelectChannel
  <2>2. ui.sel # None /\ OnList(ui.sel)
    BY <2>1, Before DEF Swallowed, Sound, Walks
  <2>3. \A readable : Keeps(ui.sel, StartScanning(ui.sel, readable))
    BY <2>2, ScanKeeps
  <2>4. Keeps(ui.sel, StopScanning(ui.sel))
    BY <2>2, ScanKeeps
  <2>5. \A index, readable : Keeps(ui.sel, Select(ui.sel, index, readable))
    BY <2>2, SelectKeeps
  <2>6. PICK up : Keeps(ui.sel, up) /\ ActedOn(Apply(ui, up))
    BY <2>1, <2>3, <2>4, <2>5
  <2> QED BY <1>1, <2>2, <2>6, ActedOnApplied
<1> QED BY <1>2, <1>3

LEMMA StartCatchInv ==
  ASSUME IInv, StartCatch PROVE IInv'
<1> DEFINE catch == IF Swallowed THEN ui.catch ELSE "Asked"
           v == [ui EXCEPT !.screen = "Catch", !.catch = catch]
<1>1. KeyOn("Operating") /\ ActedOn(v)
  BY DEF StartCatch
<1>2. catch \in {"None", "Asked", "Running"} /\ (catch = "None" => ui.catch = "None")
  BY Before DEF Interface
<1> HIDE DEF catch
<1>3. /\ v \in Interface /\ v.sel = ui.sel /\ v.oth = ui.oth /\ v.slot = ui.slot
      /\ v.other = ui.other /\ v.timer = ui.timer /\ v.stop = ui.stop
      /\ v.pending = ui.pending /\ v.staged = ui.staged /\ v.late = ui.late
      /\ v.catch = catch
  BY <1>2, Before DEF Interface
<1> HIDE DEF v
<1>4. Sound(v)
  BY <1>3, Before, SoundElsewhere DEF Sound
<1>5. turn = "keys"
  BY <1>1, FreeKey
<1>6. Watched(v) = Watched(ui) /\ StopSetup(v) = StopSetup(ui)
  BY <1>3, WatchSame
<1>7. Aimed(v, "acted") /\ ScansAtHome(v, "acted")
  BY <1>3, <1>5, AtKeys DEF Aimed, ScansAtHome
<1>8. There(v, rx)
  BY <1>2, <1>3, <1>5, <1>6, AtKeys DEF There
<1>9. Points(v, rx, published, "acted")
  BY <1>7, <1>8 DEF Points
<1> QED BY <1>1, <1>4, <1>9, FreeKey, ActedOnInv

LEMMA RetuneFacts ==
  ASSUME IInv
  PROVE  /\ Retune(ui) \in Setup \cup {None}
         /\ ui.sel # None => Retune(ui) = SetupOf(ui.sel) /\ Retune(ui) # None
BY Before, SetupOfType DEF Retune, Sound, Walks

LEMMA StopCatchInv ==
  ASSUME IInv, StopCatch PROVE IInv'
<1>1. /\ KeyOn("Catch")
      /\ ActedOn(IF Swallowed THEN [ui EXCEPT !.screen = "Operating"]
                 ELSE [ui EXCEPT !.screen = "Operating", !.catch = "None",
                                 !.pending = Retune(ui)])
  BY DEF StopCatch
<1>2. CASE Swallowed
  <2> DEFINE v == [ui EXCEPT !.screen = "Operating"]
  <2>1. ActedOn(v)
    BY <1>1, <1>2
  <2>2. /\ v \in Interface /\ v.sel = ui.sel /\ v.oth = ui.oth /\ v.slot = ui.slot
        /\ v.other = ui.other /\ v.timer = ui.timer /\ v.stop = ui.stop
        /\ v.pending = ui.pending /\ v.staged = ui.staged /\ v.late = ui.late
        /\ v.catch = ui.catch
    BY Before DEF Interface
  <2> HIDE DEF v
  <2>3. Sound(v)
    BY <2>2, Before, SoundElsewhere DEF Sound
  <2>4. Points(v, rx, published, "acted")
    BY <1>1, <2>2, FreeKey, AtKeys, SamePoints
  <2> QED BY <1>1, <2>1, <2>3, <2>4, FreeKey, ActedOnInv
<1>3. CASE ~Swallowed
  <2> DEFINE v == [ui EXCEPT !.screen = "Operating", !.catch = "None",
                             !.pending = Retune(ui)]
  <2>1. ActedOn(v)
    BY <1>1, <1>3
  <2>2. /\ ui.sel # None /\ Retune(ui) \in Setup /\ Retune(ui) # None
        /\ Retune(ui) = SetupOf(ui.sel)
    BY <1>3, RetuneFacts DEF Swallowed
  <2>3. /\ v \in Interface /\ v.sel = ui.sel /\ v.oth = ui.oth /\ v.slot = ui.slot
        /\ v.other = ui.other /\ v.timer = ui.timer
        /\ v.pending = Retune(ui) /\ v.staged = ui.staged
    BY <2>2, Before DEF Interface
  <2> HIDE DEF v
  <2>4. Sound(v)
    BY <2>2, <2>3, Before, SoundElsewhere
  <2> QED BY <1>1, <2>1, <2>2, <2>3, <2>4, FreeKey, ActedOnRebuilt
<1> QED BY <1>2, <1>3

LEMMA UseCatchInv ==
  ASSUME IInv, UseCatch PROVE IInv'
<1>1. PICK readable \in Readable :
        ActedOn([Rebuilt([ui EXCEPT !.slot.mode = "Vfo", !.screen = "Operating",
                                    !.catch = "None"], ui.kept, readable)
                   EXCEPT !.timer = None])
  BY DEF UseCatch
<1>2. KeyOn("Catch")
  BY DEF UseCatch
<1> DEFINE slot == [ui.slot EXCEPT !.mode = "Vfo"]
           u == [ui EXCEPT !.slot = slot, !.screen = "Operating", !.catch = "None"]
           v == Rebuilt(u, ui.kept, readable)
           w == [v EXCEPT !.timer = None]
<1>3. slot \in Slot
  BY <1>2, FreeKey DEF Interface, Slot
<1>4. u = [ui EXCEPT !.slot.mode = "Vfo", !.screen = "Operating", !.catch = "None"]
  BY <1>2, FreeKey DEF Interface
<1> HIDE DEF slot
<1>5. /\ u \in Interface /\ u.oth = ui.oth /\ u.other = ui.other /\ u.timer = None
  BY <1>2, <1>3, FreeKey DEF Interface
<1>6. ActedOn(w)
  BY <1>1, <1>4
<1> HIDE DEF u
<1>7. Walks(u.oth, u.other) /\ (u.oth # None => ~Scanning(u.oth))
  BY <1>2, <1>5, FreeKey
<1>8. /\ Sound(v) /\ (v.sel = None \/ v.pending = SetupOf(v.sel))
      /\ v.timer = None
  BY <1>5, <1>7, SoundRebuilt
<1> HIDE DEF v
<1>9. w = v
  BY <1>8 DEF Sound, Interface
<1>10. ActedOn(v)
  BY <1>6, <1>9
<1> QED BY <1>2, <1>8, <1>10, FreeKey, ActedOnRebuilt

LEMMA ToggleDualInv ==
  ASSUME IInv, ToggleDual PROVE IInv'
<1>1. /\ KeyOn("Operating") /\ turn' = "idle"
      /\ ui' = [ui EXCEPT !.dual = ~@]
      /\ UNCHANGED <<rx, resume, published, writing>>
  BY DEF ToggleDual
<1>2. turn = "keys" /\ Act
  BY <1>1, FreeKey
<1>3. ui'.dual \in BOOLEAN
  BY <1>1, Before DEF Interface
<1>4. /\ ui' \in Interface /\ ui'.sel = ui.sel /\ ui'.oth = ui.oth
      /\ ui'.slot = ui.slot /\ ui'.other = ui.other /\ ui'.timer = ui.timer
      /\ ui'.stop = ui.stop /\ ui'.pending = ui.pending /\ ui'.staged = ui.staged
      /\ ui'.late = ui.late /\ ui'.catch = ui.catch
  <2>1. (~ui.dual) \in BOOLEAN
    OBVIOUS
  <2> DEFINE dual == ~ui.dual
  <2>2. ui' = [ui EXCEPT !.dual = dual] /\ dual \in BOOLEAN
    BY <1>1, <2>1
  <2> HIDE DEF dual
  <2> QED BY <2>2, Before DEF Interface
<1>5. Sound(ui')
  BY <1>4, Before, SoundElsewhere DEF Sound
<1>6. Points(ui', rx, published, "idle")
  BY <1>2, <1>4, AtKeys, SamePoints
<1>7. acts' \in 0 .. MaxActs
  BY <1>2, ActCounts DEF IInv
<1>8. TypeOK'
  BY <1>1, <1>4, <1>7 DEF IInv, TypeOK, Turn
<1> QED BY <1>1, <1>5, <1>6, <1>8 DEF IInv

LEMMA KeyInv ==
  ASSUME IInv, Key PROVE IInv'
BY SetSourceInv, ToggleVfoInv, SwapSlotInv, SetSquelchInv, ToggleMonitorInv,
   ToggleRxToneInv, ScanKeyInv, StartCatchInv, StopCatchInv, UseCatchInv,
   ToggleDualInv DEF Key

-----------------------------------------------------------------------------
(* Dual watch.                                                             *)

LEMMA PlacedPoints ==
  ASSUME NEW u, Sound(u), NEW r, NEW p, NEW t, Points(u, r, p, t)
  PROVE  Points(Placed(u), r, p, t)
<1> DEFINE v == Placed(u)
<1>1. PICK k, o : v = [u EXCEPT !.kept = k, !.okept = o]
  BY SoundPlaced
<1>2. /\ v.sel = u.sel /\ v.oth = u.oth /\ v.stop = u.stop
      /\ v.pending = u.pending /\ v.late = u.late /\ v.catch = u.catch
      /\ v.staged = u.staged /\ v.dual = u.dual
  BY <1>1 DEF Sound, Interface
<1> HIDE DEF v
<1>3. /\ Watched(v) = Watched(u) /\ StopSetup(v) = StopSetup(u)
      /\ Watching(v) = Watching(u)
  BY <1>2, WatchSame
<1>4. Points(v, r, p, t)
  BY <1>2, <1>3 DEF Points, Aimed, There, ScansAtHome, ScanOn
<1> QED BY <1>4 DEF v

\* The watch's turn ends with the place noted.
LEMMA WatchInv ==
  ASSUME IInv, NEW v, Sound(v), Points(v, rx, published, "radio"),
         ui' = Placed(v), turn' = "radio",
         UNCHANGED <<rx, resume, published, writing, acts>>
  PROVE  IInv'
<1>1. Sound(ui') /\ Points(ui', rx, published, "radio")
  BY SoundPlaced, PlacedPoints
<1>2. TypeOK'
  BY <1>1 DEF IInv, TypeOK, Turn, Sound
<1> QED BY <1>1, <1>2 DEF IInv

LEMMA WatchHomeInv ==
  ASSUME IInv, WatchHome PROVE IInv'
<1> DEFINE pending == IF ui.stop # 0 /\ ui.pending = None THEN Retune(ui) ELSE ui.pending
           v == [ui EXCEPT !.stop = 0, !.pending = pending]
<1>1. /\ turn \in {"acted", "idle"} /\ turn' = "radio" /\ ui' = Placed(Home(ui))
      /\ UNCHANGED <<rx, resume, published, writing, acts>>
  BY DEF WatchHome
<1>2. Home(ui) = v
  BY DEF Home
<1>3. pending \in Setup \cup {None} /\ (ui.staged => pending # None)
  BY Before, RetuneFacts DEF Interface, Sound
<1>4. /\ v \in Interface /\ v.sel = ui.sel /\ v.oth = ui.oth /\ v.slot = ui.slot
      /\ v.other = ui.other /\ v.timer = ui.timer /\ v.stop = 0
      /\ v.pending = pending /\ v.staged = ui.staged /\ v.late = ui.late
      /\ v.catch = ui.catch
  <2> HIDE DEF pending
  <2>1. 0 \in Stop
    BY DEF Stop
  <2>2. v \in Interface
    BY <1>3, <2>1, Before DEF Interface
  <2> QED BY <2>2, Before DEF Interface
<1> HIDE DEF v
<1>5. Sound(v)
  BY <1>3, <1>4, Before, SoundElsewhere DEF Sound
<1>6. ScansAtHome(v, "radio")
  BY <1>4 DEF ScansAtHome
<1>7. There(ui, rx)
  BY <1>1, Before DEF ToAdopt
<1>8. Points(v, rx, published, "radio")
  <2>1. CASE ui.stop # 0 /\ ui.pending = None
    <3>1. v.sel = None \/ v.pending = SetupOf(v.sel)
      BY <1>4, <2>1, RetuneFacts
    <3> QED BY <1>5, <1>6, <3>1, LandedPoints
  <2>2. CASE ui.pending # None
    <3>1. v.pending = ui.pending
      BY <1>4, <2>2
    <3>2. Aimed(v, "radio")
      BY <1>1, <1>4, <2>2, <3>1, Before DEF Aimed
    <3>3. There(v, rx)
      BY <2>2, <3>1 DEF There
    <3> QED BY <1>6, <3>2, <3>3 DEF Points
  <2>3. CASE ui.stop = 0 /\ ui.pending = None
    <3>1. v.pending = None
      BY <1>4, <2>3
    <3>2. Watched(v) = Watched(ui) /\ StopSetup(v) = StopSetup(ui)
      BY <1>4, <2>3, WatchSame
    <3>3. Aimed(v, "radio")
      BY <3>1 DEF Aimed
    <3>4. There(v, rx)
      BY <1>4, <1>7, <2>3, <3>1, <3>2 DEF There
    <3> QED BY <1>6, <3>3, <3>4 DEF Points
  <2> QED BY <2>1, <2>2, <2>3
<1> QED BY <1>1, <1>2, <1>5, <1>8, WatchInv

LEMMA WatchStaysInv ==
  ASSUME IInv, WatchStays PROVE IInv'
<1>1. /\ turn = "idle" /\ turn' = "radio" /\ ui' = Placed(ui)
      /\ UNCHANGED <<rx, resume, published, writing, acts>>
  BY DEF WatchStays
<1>2. There(ui, rx)
  BY <1>1, Before DEF ToAdopt
<1>3. Points(ui, rx, published, "radio")
  BY <1>1, <1>2, Before, SamePoints
<1> QED BY <1>1, <1>3, Before, WatchInv

LEMMA StopSetupType ==
  ASSUME NEW u, Sound(u), Watched(u) # None
  PROVE  StopSetup(u) \in Setup /\ StopSetup(u) # None
<1>1. OnList(Watched(u))
  BY DEF Watched, Sound, Walks
<1>2. SetupOf(Watched(u)) \in Setup
  BY <1>1, SetupOfType
<1>3. StopSetup(u) \in Setup
  BY <1>2 DEF StopSetup, Setup
<1> QED BY <1>3, ControlAssumption

LEMMA WatchMovesInv ==
  ASSUME IInv, WatchMoves PROVE IInv'
<1> DEFINE stop == Following(Stops(ui), ui.stop)
           u == [ui EXCEPT !.stop = stop]
           v == [u EXCEPT !.pending = StopSetup(u)]
<1>1. /\ turn = "idle" /\ turn' = "radio" /\ ui' = Placed(v) /\ Watching(ui)
      /\ UNCHANGED <<rx, resume, published, writing, acts>>
  <2>1. u = [ui EXCEPT !.stop = Following(Stops(ui), @)]
    BY Before DEF Interface
  <2> HIDE DEF u
  <2> QED BY <2>1 DEF WatchMoves
<1>2. Stops(ui) \in SUBSET Nat /\ Stops(ui) # {} /\ Stops(ui) \subseteq Stop
  BY DEF Stops, Stop
<1>3. ui.stop \in Nat
  BY Before DEF Interface, Stop
<1>4. stop \in Stops(ui) /\ stop \in Stop
  BY <1>2, <1>3, FollowingStays
<1> HIDE DEF stop
<1>5. /\ u \in Interface /\ u.stop = stop /\ u.sel = ui.sel /\ u.oth = ui.oth
      /\ u.slot = ui.slot /\ u.other = ui.other /\ u.timer = ui.timer
      /\ u.staged = ui.staged /\ u.dual = ui.dual /\ u.catch = ui.catch
      /\ u.pending = ui.pending
  BY <1>4, Before DEF Interface
<1> HIDE DEF u
<1>6. Sound(u)
  BY <1>5, Before, SoundElsewhere DEF Sound
<1>7. ui.sel # None /\ ~Scanning(ui.sel) /\ ~ui.staged /\ ui.catch = "None"
  BY <1>1 DEF Watching
<1>8. Watched(u) # None
  <2>1. stop \in {2, 3} => ui.oth # None
    BY <1>4 DEF Stops
  <2>2. stop \in {0, 1} \/ stop \in {2, 3}
    BY <1>4 DEF Stop
  <2> QED BY <1>5, <1>7, <2>1, <2>2 DEF Watched
<1>9. StopSetup(u) \in Setup /\ StopSetup(u) # None
  BY <1>6, <1>8, StopSetupType
<1>10. /\ v \in Interface /\ v.sel = u.sel /\ v.oth = u.oth /\ v.stop = u.stop
       /\ v.slot = u.slot /\ v.other = u.other /\ v.timer = u.timer
       /\ v.staged = u.staged /\ v.dual = u.dual /\ v.catch = u.catch
       /\ v.pending = StopSetup(u)
  BY <1>5, <1>9 DEF Interface
<1> HIDE DEF v
<1>11. Sound(v)
  BY <1>6, <1>9, <1>10, SoundElsewhere DEF Sound
<1>12. /\ Watched(v) = Watched(u) /\ StopSetup(v) = StopSetup(u)
  BY <1>10, WatchSame
<1>13. Watching(v)
  BY <1>1, <1>5, <1>10 DEF Watching, Stops
<1>14. Points(v, rx, published, "radio")
  <2>1. Aimed(v, "radio")
    BY <1>8, <1>10, <1>12, <1>13 DEF Aimed
  <2>2. There(v, rx)
    BY <1>9, <1>10 DEF There
  <2>3. ScansAtHome(v, "radio")
    BY <1>5, <1>7, <1>10 DEF ScansAtHome, ScanOn
  <2> QED BY <2>1, <2>2, <2>3 DEF Points
<1> QED BY <1>1, <1>11, <1>14, WatchInv

-----------------------------------------------------------------------------
(* The receiver.                                                           *)

\* In the receiver's turns nothing is to be adopted, and a scan is at home.
LEMMA AtRadio ==
  ASSUME IInv, turn \in {"radio", "tune"}
  PROVE  /\ There(ui, rx) /\ (ScanOn(ui) => ui.stop = 0)
         /\ ui.sel # None /\ ~ui.late /\ ~ui.staged /\ ui.pending # None
              => ui.pending \in {SetupOf(ui.sel), StopSetup(ui)}
         /\ ui.sel # None /\ ~ui.late /\ ~ui.staged /\ ui.pending # None
              /\ (ui.catch # "None" \/ ui.stop = 0)
              => ui.pending = SetupOf(ui.sel)
BY Before, HomeSetup DEF ToAdopt, Aimed, ScansAtHome, Watching

LEMMA SettlingFacts ==
  ASSUME IInv
  PROVE  LET v == Settling(ui)
         IN  /\ v \in Interface /\ Sound(v)
             /\ v = [ui EXCEPT !.pending = v.pending]
             /\ \/ v.pending = ui.pending
                \/ ui.pending = None /\ v.pending = Retune(ui)
<1> DEFINE v == Settling(ui)
           pending == IF rx.probed /\ ui.pending = None /\ ~Dwelling(ui)
                        THEN Retune(ui) ELSE ui.pending
<1>1. v = [ui EXCEPT !.pending = pending]
  BY Before DEF Settling, Interface
<1>2. /\ pending \in Setup \cup {None} /\ (ui.staged => pending # None)
      /\ pending = ui.pending \/ (ui.pending = None /\ pending = Retune(ui))
  BY Before, RetuneFacts DEF Interface, Sound
<1> HIDE DEF pending
<1>3. /\ v \in Interface /\ v.sel = ui.sel /\ v.oth = ui.oth /\ v.slot = ui.slot
      /\ v.other = ui.other /\ v.timer = ui.timer
      /\ v.pending = pending /\ v.staged = ui.staged
  BY <1>1, <1>2, Before DEF Interface
<1> HIDE DEF v
<1>4. Sound(v)
  BY <1>2, <1>3, Before, SoundElsewhere DEF Sound
<1> QED BY <1>1, <1>2, <1>3, <1>4 DEF v

\* A settling setup is the selected slot's.
LEMMA SettlingPoints ==
  ASSUME IInv, turn \in {"radio", "tune"}, NEW r, NEW t,
         r.tuned = rx.tuned, r.faulted \/ r.faulted = rx.faulted,
         ui.pending = None
  PROVE  Points(Settling(ui), r, published, t)
<1> DEFINE v == Settling(ui)
<1>1. /\ Sound(v) /\ v = [ui EXCEPT !.pending = v.pending]
      /\ v.pending = None \/ v.pending = Retune(ui)
  BY SettlingFacts
<1>2. /\ v.sel = ui.sel /\ v.oth = ui.oth /\ v.stop = ui.stop /\ v.late = ui.late
      /\ v.catch = ui.catch
  BY <1>1, Before DEF Interface
<1> HIDE DEF v
<1>3. ScansAtHome(v, t)
  BY <1>2, AtRadio DEF ScansAtHome, ScanOn
<1>4. Watched(v) = Watched(ui) /\ StopSetup(v) = StopSetup(ui)
  BY <1>2, WatchSame
<1>5. CASE v.pending = None
  <2>1. There(v, r)
    BY <1>2, <1>4, AtRadio DEF There
  <2> QED BY <1>3, <1>5, <2>1 DEF Points, Aimed, v
<1>6. CASE v.pending = Retune(ui)
  <2>1. v.sel = None \/ v.pending = SetupOf(v.sel)
    BY <1>2, <1>6, RetuneFacts
  <2> QED BY <1>1, <1>3, <2>1, LandedPoints DEF v
<1> QED BY <1>1, <1>5, <1>6

LEMMA PassEndsInv ==
  ASSUME IInv, NEW v, PassEnds(v), Sound(v), rx' \in Receiver,
         Points(v, rx', published, "clock")
  PROVE  IInv'
<1>1. ui' = v /\ turn' = "clock" /\ UNCHANGED <<resume, published, writing, acts>>
  BY DEF PassEnds
<1>2. TypeOK'
  BY <1>1 DEF IInv, TypeOK, Turn, Sound
<1> QED BY <1>1, <1>2 DEF IInv

LEMMA StayFaultedInv ==
  ASSUME IInv, StayFaulted PROVE IInv'
<1> DEFINE v == [ui EXCEPT !.pending = None, !.staged = FALSE]
<1>1. turn = "radio" /\ rx.faulted /\ PassEnds(v) /\ rx' = rx
  BY DEF StayFaulted
<1>2. /\ v \in Interface /\ v.sel = ui.sel /\ v.oth = ui.oth /\ v.slot = ui.slot
      /\ v.other = ui.other /\ v.timer = ui.timer /\ v.stop = ui.stop
      /\ v.pending = None /\ v.staged = FALSE
  BY Before DEF Interface
<1> HIDE DEF v
<1>3. Sound(v)
  BY <1>2, Before, SoundElsewhere
<1>4. Points(v, rx, published, "clock")
  BY <1>1, <1>2, AtRadio DEF Points, Aimed, There, ScansAtHome, ScanOn
<1> QED BY <1>1, <1>3, <1>4, Before, PassEndsInv

LEMMA BusBusyInv ==
  ASSUME IInv, BusBusy PROVE IInv'
<1> DEFINE u == Settling(ui)
           late == ui.late \/ (ui.stop # 0 /\ ui.pending # None)
           v == [u EXCEPT !.late = late]
<1>1. /\ u \in Interface /\ Sound(u)
      /\ u = [ui EXCEPT !.pending = u.pending]
      /\ \/ u.pending = ui.pending
         \/ ui.pending = None /\ u.pending = Retune(ui)
  BY SettlingFacts
<1>2. /\ u.sel = ui.sel /\ u.oth = ui.oth /\ u.slot = ui.slot
      /\ u.other = ui.other /\ u.timer = ui.timer /\ u.stop = ui.stop
      /\ u.staged = ui.staged /\ u.late = ui.late /\ u.catch = ui.catch
  BY <1>1, Before DEF Interface
<1>3. turn = "radio" /\ PassEnds(v) /\ rx' = rx
  <2>1. v = [u EXCEPT !.late = @ \/ (ui.stop # 0 /\ ui.pending # None)]
    BY <1>1, <1>2 DEF Interface
  <2> HIDE DEF v
  <2> QED BY <2>1 DEF BusBusy
<1>4. late \in BOOLEAN
  BY Before DEF Interface
<1> HIDE DEF u
<1>5. /\ v \in Interface /\ v.sel = u.sel /\ v.oth = u.oth /\ v.slot = u.slot
      /\ v.other = u.other /\ v.timer = u.timer /\ v.stop = u.stop
      /\ v.pending = u.pending /\ v.staged = u.staged /\ v.late = late
      /\ v.catch = u.catch
  <2> HIDE DEF late
  <2> QED BY <1>1, <1>4 DEF Interface
<1> HIDE DEF v
<1>6. Sound(v)
  BY <1>1, <1>5, SoundElsewhere DEF Sound
<1>7. Points(v, rx, published, "clock")
  <2>1. CASE ui.pending = None
    <3>1. Points(u, rx, published, "keys")
      BY <1>3, <2>1, SettlingPoints DEF u
    <3>2. Watched(v) = Watched(u) /\ StopSetup(v) = StopSetup(u)
      BY <1>5, WatchSame
    <3>3. There(u, rx)
      BY <3>1 DEF Points, ToAdopt
    <3>4. There(v, rx)
      BY <1>2, <1>5, <3>2, <3>3 DEF There
    <3> QED BY <1>2, <1>5, <3>1, <3>4 DEF Points, Aimed, ScansAtHome, ScanOn
  <2>2. CASE ui.pending # None
    <3>1. v.pending = ui.pending
      BY <1>1, <1>5, <2>2
    <3>2. Aimed(v, "clock")
      BY <1>2, <1>3, <1>5, <2>2, <3>1, AtRadio DEF Aimed
    <3>3. There(v, rx)
      BY <2>2, <3>1 DEF There
    <3>4. ScansAtHome(v, "clock")
      BY <1>2, <1>3, <1>5, AtRadio DEF ScansAtHome, ScanOn
    <3> QED BY <3>2, <3>3, <3>4 DEF Points
  <2> QED BY <2>1, <2>2
<1> QED BY <1>3, <1>6, <1>7, Before, PassEndsInv

LEMMA SaveInv ==
  ASSUME IInv, Sleep \/ NoSave PROVE IInv'
<1>1. /\ turn = "radio" /\ turn' = "tune" /\ rx' \in Receiver
      /\ rx'.tuned = rx.tuned /\ (rx'.faulted \/ rx'.faulted = rx.faulted)
      /\ UNCHANGED <<ui, resume, published, writing, acts>>
  BY Before DEF Sleep, NoSave, Receiver
<1>2. There(ui, rx')
  BY <1>1, AtRadio DEF There
<1>3. Aimed(ui, "tune") /\ ScansAtHome(ui, "tune")
  BY <1>1, Before, AtRadio DEF Aimed, ScansAtHome
<1>4. TypeOK'
  BY <1>1 DEF IInv, TypeOK, Turn
<1> QED BY <1>1, <1>2, <1>3, <1>4 DEF IInv, Points

LEMMA TuneOfFacts ==
  ASSUME rx \in Receiver, NEW setup \in Setup \cup {None}, NEW fails \in BOOLEAN
  PROVE  /\ TuneOf(setup, fails) \in Receiver
         /\ TuneOf(setup, fails).faulted = fails
         /\ ~fails => TuneOf(setup, fails).tuned = setup
BY DEF TuneOf, Failed, TunedTo, Receiver

LEMMA WakeInv ==
  ASSUME IInv, Wake PROVE IInv'
<1>1. PICK fails \in Fails : rx' = TuneOf(rx.tuned, fails)
  BY DEF Wake
<1>2. /\ turn = "radio" /\ turn' = "tune" /\ ~rx.faulted
      /\ ui' = [ui EXCEPT !.settled = FALSE]
      /\ UNCHANGED <<resume, published, writing, acts>>
  BY DEF Wake
<1>3. fails \in BOOLEAN
  BY PassAssumption
<1>4. rx.tuned \in Setup \cup {None}
  BY Before DEF Receiver
<1>5. rx' \in Receiver /\ (rx'.faulted \/ rx'.tuned = rx.tuned)
  BY <1>1, <1>3, <1>4, Before, TuneOfFacts
<1>6. /\ ui' \in Interface /\ ui'.sel = ui.sel /\ ui'.oth = ui.oth
      /\ ui'.slot = ui.slot /\ ui'.other = ui.other /\ ui'.timer = ui.timer
      /\ ui'.stop = ui.stop /\ ui'.pending = ui.pending /\ ui'.staged = ui.staged
      /\ ui'.late = ui.late /\ ui'.catch = ui.catch /\ ui'.dual = ui.dual
  BY <1>2, Before DEF Interface
<1>7. Sound(ui')
  BY <1>6, Before, SoundElsewhere DEF Sound
<1>8. /\ Watched(ui') = Watched(ui) /\ StopSetup(ui') = StopSetup(ui)
      /\ Watching(ui') = Watching(ui)
  BY <1>6, WatchSame
<1>9. There(ui', rx')
  BY <1>2, <1>5, <1>6, <1>8, AtRadio DEF There
<1>10. Aimed(ui', "tune") /\ ScansAtHome(ui', "tune")
  BY <1>2, <1>6, <1>8, Before, AtRadio DEF Aimed, ScansAtHome, ScanOn
<1>11. TypeOK'
  BY <1>2, <1>5, <1>6 DEF IInv, TypeOK, Turn
<1> QED BY <1>2, <1>7, <1>9, <1>10, <1>11 DEF IInv, Points

LEMMA CatchRunsInv ==
  ASSUME IInv, CatchRuns PROVE IInv'
<1> DEFINE u == Settling(ui)
           v == [u EXCEPT !.catch = "Running"]
<1>1. turn = "tune" /\ ui.catch # "None" /\ PassEnds(v)
  BY DEF CatchRuns
<1>2. rx' \in Receiver
  <2>1. PICK fails \in Fails :
          rx' = IF ui.catch = "Running" THEN [rx EXCEPT !.faulted = @ \/ fails]
                ELSE [rx EXCEPT !.asleep = FALSE, !.catching = TRUE,
                                !.faulted = @ \/ fails]
    BY DEF CatchRuns
  <2>2. (rx.faulted \/ fails) \in BOOLEAN
    OBVIOUS
  <2> DEFINE faulted == rx.faulted \/ fails
             started == [rx EXCEPT !.asleep = FALSE, !.catching = TRUE, !.faulted = faulted]
             polled == [rx EXCEPT !.faulted = faulted]
  <2>3. rx' \in {started, polled} /\ faulted \in BOOLEAN
    BY <2>1, <2>2
  <2> HIDE DEF faulted
  <2> QED BY <2>3, Before DEF Receiver
<1>3. /\ u \in Interface /\ Sound(u)
      /\ u = [ui EXCEPT !.pending = u.pending]
      /\ \/ u.pending = ui.pending
         \/ ui.pending = None /\ u.pending = Retune(ui)
  BY SettlingFacts
<1>4. /\ u.sel = ui.sel /\ u.stop = ui.stop /\ u.staged = ui.staged
      /\ u.late = ui.late
  BY <1>3, Before DEF Interface
<1> HIDE DEF u
<1>5. /\ v \in Interface /\ v.sel = u.sel /\ v.oth = u.oth /\ v.slot = u.slot
      /\ v.other = u.other /\ v.timer = u.timer /\ v.stop = u.stop
      /\ v.pending = u.pending /\ v.staged = u.staged /\ v.late = u.late
      /\ v.catch = "Running"
  BY <1>3 DEF Interface
<1> HIDE DEF v
<1>6. Sound(v)
  BY <1>3, <1>5, SoundElsewhere DEF Sound
<1>7. Aimed(v, "clock")
  BY <1>1, <1>3, <1>4, <1>5, AtRadio, RetuneFacts DEF Aimed
<1>8. There(v, rx')
  BY <1>5 DEF There
<1>9. ScansAtHome(v, "clock")
  BY <1>1, <1>4, <1>5, AtRadio DEF ScansAtHome, ScanOn
<1> QED BY <1>1, <1>2, <1>6, <1>7, <1>8, <1>9, PassEndsInv DEF Points

\* A retune that is done: the receiver is where the setup said, and a move that
\* was late is late no more once it has brought the receiver to its stop.
LEMMA RetunedFacts ==
  ASSUME IInv, turn = "tune", ui.pending # None, ~ui.staged
  PROVE  LET u == Retuned(ui)
         IN  /\ u \in Interface /\ Sound(u) /\ u.pending = None
             /\ u.sel = ui.sel /\ u.stop = ui.stop
             /\ \A r : r.tuned = ui.pending \/ r.faulted => There(u, r)
<1> DEFINE u == Retuned(ui)
           late == ui.late /\ (Watched(ui) = None \/ ui.pending # StopSetup(ui))
<1>1. u = [ui EXCEPT !.pending = None, !.late = late]
  BY Before DEF Retuned, Interface
<1>2. late \in BOOLEAN
  BY Before DEF Interface
<1>3. ~late => ~ui.late \/ (Watched(ui) # None /\ ui.pending = StopSetup(ui))
  OBVIOUS
<1> HIDE DEF late
<1>4. /\ u \in Interface /\ u.sel = ui.sel /\ u.oth = ui.oth /\ u.slot = ui.slot
      /\ u.other = ui.other /\ u.timer = ui.timer /\ u.stop = ui.stop
      /\ u.pending = None /\ u.staged = ui.staged /\ u.late = late
  BY <1>1, <1>2, Before DEF Interface
<1> HIDE DEF u
<1>5. Sound(u)
  BY <1>4, Before, SoundElsewhere
<1>6. Watched(u) = Watched(ui) /\ StopSetup(u) = StopSetup(ui)
  BY <1>4, WatchSame
<1>7. ASSUME NEW r, r.tuned = ui.pending \/ r.faulted PROVE There(u, r)
  BY <1>3, <1>4, <1>6, <1>7, AtRadio DEF There
<1> QED BY <1>4, <1>5, <1>7 DEF u

LEMMA ProbeQuietInv ==
  ASSUME IInv, ProbeQuiet PROVE IInv'
<1> DEFINE u == Retuned(ui)
<1>1. PICK readable \in Readable : PassEnds(Apply(u, SkipQuiet(ui.sel, readable)))
  BY DEF ProbeQuiet
<1>2. /\ turn = "tune" /\ Dwelling(ui) /\ ui.pending # None
      /\ rx' = [rx EXCEPT !.tuned = ui.pending, !.probed = TRUE]
  BY DEF ProbeQuiet
<1> DEFINE up == SkipQuiet(ui.sel, readable)
<1>3. ~ui.staged /\ ui.sel # None /\ Scanning(ui.sel) /\ OnList(ui.sel)
  BY <1>2, Before DEF Dwelling, Scanning, Sound, Walks
<1>4. Keeps(ui.sel, up)
  BY <1>3, ScanKeeps
<1>5. rx' \in Receiver /\ rx'.tuned = ui.pending
  BY <1>2, Before DEF Receiver, Interface
<1>6. /\ Sound(u) /\ u.pending = None /\ u.sel = ui.sel /\ u.stop = ui.stop
      /\ There(u, rx')
  BY <1>2, <1>3, <1>5, RetunedFacts
<1> HIDE DEF u, up
<1>7. Aimed(u, "keys") /\ ScansAtHome(u, "keys")
  BY <1>2, <1>6, AtRadio DEF Aimed, ScansAtHome, ScanOn
<1>8. Points(Apply(u, up), rx', published, "clock")
  BY <1>3, <1>4, <1>6, <1>7, ApplyPoints
<1>9. Sound(Apply(u, up))
  BY <1>3, <1>4, <1>6, SoundApply
<1> QED BY <1>1, <1>5, <1>8, <1>9, PassEndsInv DEF up

LEMMA TuneInv ==
  ASSUME IInv, NEW fails \in Fails, Tune(fails) PROVE IInv'
<1> DEFINE failed == fails \/ rx.faulted
           u == Retuned(ui)
           v == [u EXCEPT !.staged = FALSE, !.busy = FALSE, !.settled = FALSE]
<1>1. /\ turn = "tune" /\ ui.pending # None /\ turn' \in {"draw", "clock"}
      /\ rx' = TuneOf(ui.pending, failed)
      /\ published' = IF ui.staged /\ ~rx'.faulted THEN "Squelch" ELSE published
      /\ ui' = v /\ UNCHANGED <<resume, writing, acts>>
  BY DEF Tune
<1>2. failed \in BOOLEAN /\ ui.pending \in Setup
  BY <1>1, PassAssumption, Before DEF Receiver, Interface
<1> HIDE DEF failed
<1>3. rx' \in Receiver /\ (rx'.faulted \/ rx'.tuned = ui.pending)
  BY <1>1, <1>2, Before, TuneOfFacts
<1> DEFINE late == ui.late /\ (Watched(ui) = None \/ ui.pending # StopSetup(ui))
<1>4. late \in BOOLEAN
  BY Before DEF Interface
<1>5. u = [ui EXCEPT !.pending = None, !.late = late]
  BY Before DEF Retuned, Interface
<1> HIDE DEF late, u
<1>6. /\ u \in Interface /\ u.sel = ui.sel /\ u.oth = ui.oth /\ u.slot = ui.slot
      /\ u.other = ui.other /\ u.timer = ui.timer /\ u.stop = ui.stop
      /\ u.pending = None
  BY <1>4, <1>5, Before DEF Interface
<1>7. /\ v \in Interface /\ v.sel = ui.sel /\ v.oth = ui.oth /\ v.slot = ui.slot
      /\ v.other = ui.other /\ v.timer = ui.timer /\ v.stop = ui.stop
      /\ v.pending = None /\ v.staged = FALSE /\ v.late = u.late /\ v.catch = u.catch
  BY <1>6 DEF Interface
<1> HIDE DEF v
<1>8. Sound(v)
  BY <1>7, Before, SoundElsewhere
<1>9. ~ToAdopt(published', turn') => There(v, rx')
  <2>1. CASE ui.staged
    <3>1. published' # None \/ rx'.faulted
      BY <1>1, <2>1, PassAssumption DEF Publication
    <3> QED BY <1>1, <3>1 DEF ToAdopt, There
  <2>2. CASE ~ui.staged
    <3>1. There(u, rx')
      BY <1>1, <1>3, <2>2, RetunedFacts DEF u
    <3>2. Watched(v) = Watched(u) /\ StopSetup(v) = StopSetup(u)
      BY <1>6, <1>7, WatchSame
    <3> QED BY <1>6, <1>7, <3>1, <3>2 DEF There
  <2> QED BY <2>1, <2>2
<1>10. Aimed(v, turn') /\ ScansAtHome(v, turn')
  BY <1>1, <1>7, AtRadio DEF Aimed, ScansAtHome, ScanOn
<1>11. published' \in Publication \cup {None}
  BY <1>1, Before DEF Publication
<1>12. TypeOK'
  BY <1>1, <1>3, <1>7, <1>11 DEF IInv, TypeOK, Turn
<1> QED BY <1>1, <1>8, <1>9, <1>10, <1>12 DEF IInv, Points

LEMMA DrawInv ==
  ASSUME IInv, Draw PROVE IInv'
<1>1. /\ turn = "draw" /\ turn' = "clock"
      /\ ui' = IF ui.sel = None THEN ui ELSE Apply(ui, RestartDwell(ui.sel))
      /\ UNCHANGED <<rx, resume, published, writing, acts>>
  BY DEF Draw
<1> DEFINE q == IF ToAdopt(published, turn) THEN [rx EXCEPT !.faulted = TRUE] ELSE rx
<1>2. There(ui, q) /\ (ToAdopt(published, turn) <=> ToAdopt(published, turn'))
  BY <1>1, Before DEF There, Receiver, ToAdopt
<1>3. Aimed(ui, "draw") /\ ScansAtHome(ui, "draw")
  BY <1>1, Before
<1>4. Sound(ui') /\ Points(ui', q, published, "clock")
  <2>1. CASE ui.sel = None
    BY <1>1, <1>2, <1>3, <2>1, Before, SamePoints
  <2>2. CASE ui.sel # None
    <3>1. OnList(ui.sel)
      BY <2>2, Before DEF Sound, Walks
    <3>2. Keeps(ui.sel, RestartDwell(ui.sel))
      BY <3>1, ScanKeeps
    <3>3. Scanning(ui.sel) \/ RestartDwell(ui.sel) = Same(ui.sel)
      BY DEF RestartDwell, Scanning
    <3> HIDE DEF q
    <3>4. Sound(Apply(ui, RestartDwell(ui.sel)))
      BY <2>2, <3>2, Before, SoundApply
    <3>5. Points(Apply(ui, RestartDwell(ui.sel)), q, published, "clock")
      BY <1>2, <1>3, <2>2, <3>2, <3>3, Before, ApplyPoints
    <3> QED BY <1>1, <2>2, <3>4, <3>5
  <2> QED BY <2>1, <2>2
<1>5. Points(ui', rx, published, turn')
  BY <1>1, <1>2, <1>4 DEF Points
<1>6. TypeOK'
  BY <1>1, <1>4 DEF IInv, TypeOK, Turn, Sound
<1> QED BY <1>1, <1>4, <1>5, <1>6 DEF IInv

LEMMA SampleInv ==
  ASSUME IInv, NEW reading \in Reading, NEW readable \in Readable,
         Sample(reading, readable)
  PROVE  IInv'
<1> DEFINE u == Settling(ui)
           busy == u.settled /\ reading # "Quiet"
           heard == [u EXCEPT !.busy = busy, !.settled = TRUE]
           signal == reading = "Signal"
           on == Observe(u.sel, signal, resume, readable)
           off == Observe(u.oth, signal, resume, readable)
           judged == ~u.staged /\ (u.settled \/ ~ScanOn(u))
           v == Observed(u, reading, readable)
<1>1. turn = "tune" /\ ui.pending = None /\ PassEnds(v) /\ rx' = rx
  BY DEF Sample, CanSample
<1>2. u \in Interface /\ Sound(u) /\ Points(u, rx, published, "keys")
  BY <1>1, SettlingFacts, SettlingPoints
<1> HIDE DEF u
<1>3. Aimed(u, "keys") /\ There(u, rx) /\ ScansAtHome(u, "keys")
  BY <1>2 DEF Points, ToAdopt
<1>4. busy \in BOOLEAN /\ signal \in BOOLEAN
  BY <1>2 DEF Interface
<1>5. \/ Watched(u) = None /\ v = u
      \/ Watched(u) # None /\ v = heard
      \/ Watched(u) # None /\ u.stop < 2 /\ v = Apply(heard, on)
      \/ Watched(u) # None /\ ~(u.stop < 2) /\ v = ApplyOther(heard, off)
  <2>1. v = IF Watched(u) = None THEN u
            ELSE IF ~judged THEN heard
            ELSE IF u.stop < 2 THEN Apply(heard, on) ELSE ApplyOther(heard, off)
    BY DEF Observed
  <2> HIDE DEF v, heard, on, off, judged
  <2> QED BY <2>1
<1> HIDE DEF v, busy, signal
<1>6. /\ heard \in Interface /\ heard.sel = u.sel /\ heard.oth = u.oth
      /\ heard.slot = u.slot /\ heard.other = u.other /\ heard.timer = u.timer
      /\ heard.stop = u.stop /\ heard.pending = u.pending
      /\ heard.staged = u.staged /\ heard.late = u.late /\ heard.catch = u.catch
  BY <1>2, <1>4 DEF Interface
<1> HIDE DEF heard
<1>7. Sound(heard)
  BY <1>2, <1>6, SoundElsewhere DEF Sound
<1>8. Points(heard, rx, published, "keys") /\ Points(heard, rx, published, "clock")
  BY <1>3, <1>6, SamePoints
<1>9. Sound(v) /\ Points(v, rx, published, "clock")
  <2>1. CASE v = u
    BY <1>2, <1>3, <2>1, SamePoints
  <2>2. CASE v = heard
    BY <1>7, <1>8, <2>2
  <2>3. CASE Watched(u) # None /\ u.stop < 2 /\ v = Apply(heard, on)
    <3>1. heard.sel # None /\ OnList(heard.sel) /\ on = Observe(heard.sel, signal, resume, readable)
      BY <1>6, <1>7, <2>3 DEF Watched, Sound, Walks
    <3> HIDE DEF on
    <3>2. Keeps(heard.sel, on) /\ (~Scanning(heard.sel) => on = Same(heard.sel))
      BY <1>4, <3>1, Before, ObserveKeeps
    <3>3. Sound(v)
      BY <1>7, <2>3, <3>1, <3>2, SoundApply
    <3>4. Aimed(heard, "keys") /\ There(heard, rx) /\ ScansAtHome(heard, "keys")
      BY <1>8 DEF Points, ToAdopt
    <3>5. Points(v, rx, published, "clock")
      BY <1>7, <2>3, <3>1, <3>2, <3>4, ApplyPoints
    <3> QED BY <3>3, <3>5
  <2>4. CASE Watched(u) # None /\ ~(u.stop < 2) /\ v = ApplyOther(heard, off)
    <3>1. heard.oth # None /\ OnList(heard.oth) /\ off = Observe(heard.oth, signal, resume, readable)
      BY <1>6, <1>7, <2>4 DEF Watched, Sound, Walks
    <3>2. ~Scanning(heard.oth)
      BY <1>7, <3>1 DEF Sound
    <3>3. off = Same(heard.oth)
      BY <1>4, <3>1, <3>2, Before, ObserveKeeps
    <3>4. v = heard
      BY <1>6, <2>4, <3>3, ApplyOtherSame
    <3> QED BY <1>7, <1>8, <3>4
  <2> QED BY <1>5, <2>1, <2>2, <2>3, <2>4
<1> QED BY <1>1, <1>9, Before, PassEndsInv DEF v

LEMMA NoSampleInv ==
  ASSUME IInv, SampleFails \/ NoSample PROVE IInv'
<1>1. /\ turn = "tune" /\ ui.pending = None /\ PassEnds(Settling(ui))
      /\ rx' \in Receiver /\ rx'.tuned = rx.tuned
      /\ rx'.faulted \/ rx'.faulted = rx.faulted
  BY Before DEF SampleFails, NoSample, CanSample, Failed, Receiver
<1>2. Sound(Settling(ui))
  BY SettlingFacts
<1>3. Points(Settling(ui), rx', published, "clock")
  BY <1>1, SettlingPoints
<1> QED BY <1>1, <1>2, <1>3, PassEndsInv

-----------------------------------------------------------------------------
(* The invariant holds of every behaviour.                                 *)

LEMMA InitInv ==
  ASSUME Init PROVE IInv
<1>1. PICK place \in StartPlace, readable \in Readable :
        ui = NewInterface(place.slot, place.other, place.dual, readable)
  BY DEF Init
<1> DEFINE sel == ActivateSlot(place.slot, TRUE, None, readable)
           oth == ActivateSlot(place.other, TRUE, None, readable)
           pending == IF sel = None THEN None ELSE SetupOf(sel)
<1>2. place.slot \in Slot /\ place.other \in Slot /\ place.dual \in BOOLEAN
  BY PassAssumption
<1>3. /\ sel \in Controller \cup {None} /\ Walks(sel, place.slot)
      /\ (sel # None => ~Scanning(sel))
      /\ oth \in Controller \cup {None} /\ Walks(oth, place.other)
      /\ (oth # None => ~Scanning(oth))
  BY <1>2, ActivateSlotFacts
<1>4. ui = [slot |-> place.slot, other |-> place.other, sel |-> sel, oth |-> oth,
            kept |-> None, okept |-> None, programmed |-> TRUE,
            pending |-> pending, staged |-> FALSE,
            timer |-> None, stop |-> 0, late |-> FALSE, dual |-> place.dual,
            busy |-> FALSE, settled |-> FALSE, catch |-> "None",
            screen |-> "Operating"]
  BY <1>1 DEF NewInterface
<1> HIDE DEF sel, oth
<1>5. pending \in Setup \cup {None}
  BY <1>3, SetupOfType DEF Walks
<1>6. 0 \in Stop
  BY DEF Stop
<1>7. ui.sel = None \/ ui.pending = SetupOf(ui.sel)
  BY <1>4
<1> HIDE DEF pending
<1>8. ui \in Interface
  BY <1>2, <1>3, <1>4, <1>5, <1>6 DEF Interface
<1>9. Sound(ui) /\ ~ScanOn(ui)
  BY <1>3, <1>4, <1>8 DEF Sound, ScanOn
<1>10. Points(ui, rx, published, turn)
  BY <1>7, <1>9, LandedPoints DEF ScansAtHome
<1>11. rx \in Receiver /\ turn = "clock"
  BY DEF Init, NewReceiver, Receiver
<1>12. acts \in 0 .. MaxActs
  BY PassAssumption DEF Init
<1>13. TypeOK
  BY <1>8, <1>11, <1>12 DEF Init, TypeOK, Turn
<1> QED BY <1>9, <1>10, <1>11, <1>13 DEF IInv

LEMMA NextInv ==
  ASSUME IInv, [Next]_vars PROVE IInv'
<1>1. CASE Pass
  BY <1>1, ScanClockInv, NoClockInv, AdoptInv, TransmitInv, RestoreInv, NoKeyInv,
     WatchHomeInv, WatchStaysInv, WatchMovesInv, StayFaultedInv, BusBusyInv,
     SaveInv, WakeInv, CatchRunsInv, ProbeQuietInv, TuneInv, DrawInv, SampleInv,
     NoSampleInv DEF Pass
<1>2. CASE \E token \in Token : Expire(token)
  BY <1>2, ExpireInv
<1>3. CASE HostWrites \/ HostDone
  BY <1>3, HostInv
<1>4. CASE Transmit \/ Key
  BY <1>4, TransmitInv, KeyInv
<1>5. CASE UNCHANGED vars
  BY <1>5 DEF vars, IInv, TypeOK, Sound, ScanOn, Points, Aimed, There, ToAdopt,
              ScansAtHome, Watching, Watched, Stops, StopSetup
<1> QED BY <1>1, <1>2, <1>3, <1>4, <1>5 DEF Next

THEOREM Invariant == Spec => []IInv
<1>1. Init => IInv
  BY InitInv
<1>2. IInv /\ [Next]_vars => IInv'
  BY NextInv
<1> QED BY <1>1, <1>2, PTL DEF Spec

\* The state of the receive pass is well typed, for every memory, list, place
\* and count of timer tokens.
THEOREM TypeCorrect == Spec => []TypeOK
<1>1. IInv => TypeOK
  BY DEF IInv
<1> QED BY <1>1, Invariant, PTL

\* A scan always has its clock: whatever the operator, the host, dual watch and
\* the bus do, the timer the pass holds is the one the controller waits for.
THEOREM ScanKeepsItsClock == Spec => []ScanHasClock
<1>1. IInv => ScanHasClock
  BY DEF IInv, Sound, ScanHasClock
<1> QED BY <1>1, Invariant, PTL

\* A staged squelch is always on its way to the radio.
THEOREM StagedArrives == Spec => []StagedIsOnItsWay
<1>1. IInv => StagedIsOnItsWay
  BY DEF IInv, Sound, StagedIsOnItsWay
<1> QED BY <1>1, Invariant, PTL

\* The receiver is where the radio says it listens, but for the two cases the
\* property tells apart.
THEOREM ReceiverIsWhereItListens == Spec => []ListensWhereItSays
<1>1. IInv => ListensWhereItSays
  BY DEF IInv, Points, There, ToAdopt, ListensWhereItSays
<1> QED BY <1>1, Invariant, PTL

\* Moving on is no judgement: the scan dwells.
LEMMA AdvanceDwells ==
  ASSUME NEW c, OnList(c), NEW readable
  PROVE  AdvanceScan(c, readable).ctl.phase = "Dwell"
<1>1. \A d \in Controller : Armed(d).ctl.phase = d.phase
  BY DEF Armed, Same, Controller
<1> DEFINE walk == Walk(c, readable)
           here == [c EXCEPT !.phase = "Dwell"]
           there == [c EXCEPT !.phase = "Dwell", !.index = Following(walk, @)]
<1>2. here \in Controller /\ here.phase = "Dwell"
  BY DEF OnList, Controller, Phase
<1>3. CASE walk = {}
  BY <1>1, <1>2, <1>3 DEF AdvanceScan
<1>4. CASE walk # {}
  <2>1. walk \in SUBSET Nat /\ walk \subseteq c.view /\ c.index \in Nat
    BY ChannelFacts DEF Walk, OnList, Controller
  <2>2. Following(walk, c.index) \in c.view
    BY <1>4, <2>1, FollowingStays
  <2>3. there \in Controller /\ there.phase = "Dwell"
    BY <2>2 DEF OnList, Controller, Phase
  <2>4. AdvanceScan(c, readable) = [Armed(there) EXCEPT !.tune = SetupOf(there)]
    BY <1>4 DEF AdvanceScan
  <2> HIDE DEF there
  <2>5. [Armed(there) EXCEPT !.tune = SetupOf(there)].ctl = Armed(there).ctl
    BY DEF Armed, Same
  <2> QED BY <1>1, <2>3, <2>4, <2>5
<1> QED BY <1>3, <1>4

\* A reading the scan holds or stops on was taken on the scan's own channel.
LEMMA SampleHears ==
  ASSUME IInv, NEW reading \in Reading, NEW readable \in Readable,
         Sample(reading, readable), ScanOn(ui), ~ui.late
  PROVE  rx.tuned = SetupOf(ui.sel)
<1>1. /\ turn = "tune" /\ ui.pending = None /\ ui.catch = "None" /\ ~rx.faulted
  BY DEF Sample, CanSample
<1>2. ui.stop = 0 /\ There(ui, rx) /\ ui.sel # None
  BY <1>1, AtRadio DEF ScanOn
<1>3. StopSetup(ui) = SetupOf(ui.sel) /\ Watched(ui) = ui.sel
  BY <1>2, HomeSetup
<1> QED BY <1>1, <1>2, <1>3 DEF There

LEMMA HoldStep ==
  ASSUME IInv, [Next]_vars, ScanOn(ui), ~ui.late, turn = "tune",
         ui'.sel # ui.sel, ui'.sel.phase # "Dwell"
  PROVE  rx.tuned = SetupOf(ui.sel)
<1>1. CASE \E reading \in Reading, readable \in Readable : Sample(reading, readable)
  BY <1>1, SampleHears
<1>2. CASE ProbeQuiet
  <2>1. PICK readable \in Readable :
          ui' = Apply(Retuned(ui), SkipQuiet(ui.sel, readable))
    BY <1>2 DEF ProbeQuiet, PassEnds
  <2>2. /\ Dwelling(ui) /\ ui.pending # None
    BY <1>2 DEF ProbeQuiet
  <2>3. ui.sel.phase = "Dwell" /\ ~ui.staged /\ OnList(ui.sel)
    BY <2>2, Before DEF Dwelling, Sound, Walks
  <2>4. SkipQuiet(ui.sel, readable) = AdvanceScan(ui.sel, readable)
    BY <2>3 DEF SkipQuiet
  <2>5. Sound(Retuned(ui)) /\ Retuned(ui).sel = ui.sel
    BY <2>2, <2>3, RetunedFacts
  <2> DEFINE up == AdvanceScan(ui.sel, readable)
  <2>6. Keeps(ui.sel, up) /\ up.ctl.phase = "Dwell"
    BY <2>3, AdvanceKeeps, AdvanceDwells
  <2> HIDE DEF up
  <2>7. ui'.sel = up.ctl
    <3> DEFINE u == Retuned(ui)
    <3>1. ui' = Apply(u, up) /\ u \in Interface /\ u.sel # None
      BY <2>1, <2>2, <2>4, <2>5 DEF up, Sound, Dwelling
    <3> HIDE DEF u
    <3> QED BY <3>1 DEF Apply, Applied, Interface
  <2> QED BY <2>6, <2>7
<1>3. CASE CatchRuns \/ SampleFails \/ NoSample
  <2>1. ui'.sel = ui.sel
    <3>1. /\ Settling(ui) \in Interface
          /\ Settling(ui) = [ui EXCEPT !.pending = Settling(ui).pending]
      BY SettlingFacts
    <3>2. Settling(ui).sel = ui.sel
      BY <3>1, Before DEF Interface
    <3> QED BY <1>3, <3>1, <3>2 DEF CatchRuns, SampleFails, NoSample, PassEnds, Interface
  <2> QED BY <2>1
<1>4. CASE \E fails \in Fails : Tune(fails)
  <2>1. ui'.sel = ui.sel
    BY <1>4, Before DEF Tune, Retuned, Interface
  <2> QED BY <2>1
<1>5. CASE \E token \in Token : Expire(token)
  <2>1. ui'.sel = ui.sel
    BY <1>5, Before DEF Expire, Interface
  <2> QED BY <2>1
<1>6. CASE HostWrites \/ HostDone \/ UNCHANGED vars
  BY <1>6 DEF HostWrites, HostDone, vars
<1>7. CASE Key
  BY <1>7 DEF Key, SetSource, ToggleVfo, SwapSlot, SetSquelch, ToggleMonitor,
     ToggleRxTone, StartScan, StopScan, SelectChannel, StartCatch, StopCatch,
     UseCatch, ToggleDual, KeyOn
<1>8. CASE \/ \E readable \in Readable : ScanClock(readable)
           \/ NoClock \/ Adopt \/ ToKeys \/ Restore \/ NoKey
           \/ WatchHome \/ WatchStays \/ WatchMoves
           \/ StayFaulted \/ BusBusy \/ Sleep \/ Wake \/ NoSave \/ Draw
           \/ Transmit
  BY <1>8 DEF ScanClock, NoClock, Adopt, ToKeys, Restore, NoKey, WatchHome,
     WatchStays, WatchMoves, StayFaulted, BusBusy, Sleep, Wake, NoSave, Draw,
     Transmit
<1> QED BY <1>1, <1>2, <1>3, <1>4, <1>5, <1>6, <1>7, <1>8 DEF Next, Pass

\* A scan holds or stops only for a signal on the very channel it is on.
THEOREM ScanHoldsWhatItHears == Spec => HoldsWhatItHears
<1>1. IInv /\ [Next]_vars =>
        [(ScanOn(ui) /\ ~ui.late /\ turn = "tune" /\ ui'.sel # ui.sel /\ ui'.sel.phase # "Dwell")
           => rx.tuned = SetupOf(ui.sel)]_vars
  BY HoldStep
<1> QED BY <1>1, Invariant, PTL DEF Spec, HoldsWhatItHears
=============================================================================
