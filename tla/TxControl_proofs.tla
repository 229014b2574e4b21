-------------------------- MODULE TxControl_proofs --------------------------
(***************************************************************************)
(* Lemmas about Controller::handle: what one call may do to the controller *)
(* record, whatever the event, the time, the policy and the request.       *)
(***************************************************************************)
EXTENDS TxControl, TLAPS

USE RequestAssumption, BoundAssumption

\* A controller whose standing conditions hold: an accepted press has a
\* request and a deadline not yet reached, and a fault excludes TX and rest.
Sound(c) ==
    /\ c \in Controller
    /\ c.phase \in Active =>
         c.accepted \in Request /\ c.deadline \in Nat /\ c.now < c.deadline
    /\ c.fault => c.phase \notin Active \cup {"Idle"}

LEMMA ShutdownType ==
  ASSUME NEW c \in Controller, NEW reason \in StopReason
  PROVE  Shutdown(c, reason) \in Controller
<1>1. CASE c.phase = "Idle" /\ Exhausted(c)
  BY <1>1 DEF Shutdown, Controller, Phase
<1>2. CASE c.phase \in Active \cup {"Idle"} /\ ~(c.phase = "Idle" /\ Exhausted(c))
  <2>1. CycleOfShutdown(c) \in 0..MaxCycle
    BY <1>2 DEF CycleOfShutdown, Controller, Exhausted
  <2>2. "ExitPa" \in Phase
    BY DEF Phase, Pending
  <2> QED
    BY <1>2, <2>1, <2>2 DEF Shutdown, Controller
<1>3. CASE c.phase \notin Active \cup {"Idle"}
  BY <1>3 DEF Shutdown
<1> QED
  BY <1>1, <1>2, <1>3

LEMMA ShutdownStops ==
  ASSUME NEW c \in Controller, NEW reason \in StopReason
  PROVE  Shutdown(c, reason).phase \notin Active \cup {"Idle"}
  BY DEF Shutdown, Controller, Active, Entering

LEMMA ShutdownSound ==
  ASSUME NEW c \in Controller, NEW reason \in StopReason
  PROVE  Sound(Shutdown(c, reason))
  BY ShutdownType, ShutdownStops DEF Sound

LEMMA ObserveSound ==
  ASSUME NEW c, Sound(c), NEW t \in 0..MaxMs, NEW pol, NEW cur
  PROVE  Sound(Observe(c, t, pol, cur))
<1> DEFINE d == [c EXCEPT !.now = t]
<1>1. d \in Controller
  BY DEF Sound, Controller
<1>2. \A reason \in StopReason : Sound(Shutdown(d, reason))
  BY <1>1, ShutdownSound
<1>3. d.phase = c.phase /\ d.deadline = c.deadline /\ d.accepted = c.accepted
        /\ d.fault = c.fault /\ d.now = t
  BY DEF Sound, Controller
<1>4. c.phase \notin Active \/ ~Expired(c, t) => Sound(d)
  BY <1>1, <1>3 DEF Sound, Expired
<1> HIDE DEF d
<1> QED
  BY <1>2, <1>4 DEF Observe, d, StopReason

LEMMA OnPressedSound ==
  ASSUME NEW c, Sound(c), NEW pol \in SUBSET Request, NEW cur \in Request
  PROVE  Sound(OnPressed(c, pol, cur))
<1>1. CASE Accepts(c, pol, cur)
  <2> DEFINE d == OnPressed(c, pol, cur)
  <2>1. c.cycle + 1 \in 0..MaxCycle /\ c.now + Timeout[cur] \in 0..MaxMs
        /\ c.now < c.now + Timeout[cur]
    BY <1>1 DEF Accepts, Exhausted, Sound, Controller
  <2>2. "EntryPa" \in Phase
    BY DEF Phase, Pending
  <2>3. d \in Controller
    BY <1>1, <2>1, <2>2 DEF OnPressed, Sound, Controller
  <2>4. ~c.fault
    BY <1>1 DEF Accepts, Sound
  <2>5. d.deadline = c.now + Timeout[cur] /\ d.accepted = cur /\ d.now = c.now
        /\ d.fault = c.fault
    BY <1>1 DEF OnPressed, Sound, Controller
  <2> QED
    BY <2>1, <2>3, <2>4, <2>5 DEF Sound, Controller
<1>2. CASE ~Accepts(c, pol, cur)
  BY <1>2 DEF OnPressed, Sound, Controller
<1> QED
  BY <1>1, <1>2

LEMMA FailedType ==
  ASSUME NEW c \in Controller, NEW applied \in BOOLEAN
  PROVE  /\ Failed(c, applied) \in Controller
         /\ DisableReported(c, applied) \in Controller
<1>1. Failed(c, applied) \in Controller
  BY DEF Failed, Controller, StopReason
<1>2. Disabled(c, applied) \in BOOLEAN
  BY DEF Disabled, Controller
<1> QED
  BY <1>1, <1>2 DEF DisableReported, Controller

LEMMA AtPhaseType ==
  ASSUME NEW c \in Controller, NEW p \in Phase
  PROVE  AtPhase(c, p) \in Controller /\ AtPhase(c, p).phase = p
  BY DEF AtPhase, Controller

\* A completion that leaves entry and rest alone only has to keep the type.
LEMMA AtPhaseSound ==
  ASSUME NEW c \in Controller, NEW p \in Phase \ (Active \cup {"Idle"})
  PROVE  Sound(AtPhase(c, p))
  BY AtPhaseType DEF Sound

LEMMA CompleteSound ==
  ASSUME NEW c, Sound(c), c.phase \in Pending, NEW applied \in BOOLEAN
  PROVE  Sound(Complete(c, applied))
<1> DEFINE d == Failed(c, applied)
           e == DisableReported(c, applied)
<1>1. c \in Controller /\ d \in Controller /\ e \in Controller
  BY FailedType DEF Sound
<1> HIDE DEF d, e
<1>2. \A p \in Phase \ (Active \cup {"Idle"}) :
        Sound(AtPhase(d, p)) /\ Sound(AtPhase(e, p))
  BY <1>1, AtPhaseSound
<1>3. CASE c.phase \in {"StartupPa", "ExitPa"}
  <2>1. AfterPaOff(c.phase) \in Phase \ (Active \cup {"Idle"})
    BY <1>3 DEF AfterPaOff, Phase, Pending, Active, Entering
  <2>2. Complete(c, applied) = AtPhase(e, AfterPaOff(c.phase))
    BY <1>3 DEF Complete, Entering, e
  <2> QED
    BY <1>2, <2>1, <2>2
<1>4. CASE c.phase \in {"StartupTx", "ExitTx"}
  <2> DEFINE p == IF Disabled(c, applied) THEN AfterTxOff(c.phase) ELSE "Faulted"
  <2>1. p \in Phase \ (Active \cup {"Idle"})
    BY <1>4 DEF AfterTxOff, Phase, Pending, Active, Entering
  <2>2. Complete(c, applied) = AtPhase(e, p)
    BY <1>4 DEF Complete, Entering, e
  <2> HIDE DEF p
  <2> QED
    BY <1>2, <2>1, <2>2
<1>5. CASE c.phase \in {"StartupReceive", "ExitReceive"}
  <2>1. /\ "FaultPa" \in Phase \ (Active \cup {"Idle"})
        /\ "Faulted" \in Phase \ (Active \cup {"Idle"})
        /\ "Idle" \in Phase \ Active
    BY DEF Phase, Pending, Active, Entering
  <2>2. applied => d = c
    BY DEF d, Failed
  <2>3. ~c.fault => Sound(AtPhase(c, "Idle"))
    <3>1. AtPhase(c, "Idle").fault = c.fault
      BY <1>1 DEF AtPhase, Controller
    <3> QED
      BY <1>1, <2>1, <3>1, AtPhaseType DEF Sound
  <2>4. Complete(c, applied) =
          AtPhase(d, IF applied THEN Finished(c) ELSE "FaultPa")
    BY <1>5 DEF Complete, Entering, d
  <2> QED
    BY <1>2, <2>1, <2>2, <2>3, <2>4 DEF Finished
<1>6. CASE c.phase \in Entering /\ applied
  <2>1. NextEntry(c.phase) \in Active /\ Active \subseteq Phase
        /\ "Idle" \notin Active
    BY <1>6 DEF NextEntry, Entering, Phase, Active, Pending
  <2>2. c.phase \in Active
    BY <1>6 DEF Active
  <2>3. Complete(c, applied) = AtPhase(c, NextEntry(c.phase))
    BY <1>6 DEF Complete, Entering
  <2>4. AtPhase(c, NextEntry(c.phase)) \in Controller
    BY <1>1, <2>1, AtPhaseType
  <2> QED
    BY <1>1, <2>2, <2>3, <2>4 DEF Sound, AtPhase, Controller
<1>7. CASE c.phase \in Entering /\ ~applied
  BY <1>1, <1>7, ShutdownSound DEF Complete, d, Entering, StopReason
<1>8. CASE c.phase \in {"FaultPa", "FaultTx"}
  <2>1. {"FaultTx", "Faulted"} \subseteq Phase \ (Active \cup {"Idle"})
    BY DEF Phase, Pending, Active, Entering
  <2> QED
    BY <1>2, <1>8, <2>1 DEF Complete, Entering, d
<1> QED
  BY <1>3, <1>4, <1>5, <1>6, <1>7, <1>8 DEF Pending, Entering

\* Every call of Controller::handle keeps an accepted press within its deadline
\* and a latched fault out of transmission and rest.
THEOREM HandleSound ==
  ASSUME NEW c, Sound(c), NEW t \in 0..MaxMs, NEW event,
         NEW pol \in SUBSET Request, NEW cur \in Request,
         event.type = "Completed" => event.applied \in BOOLEAN
  PROVE  Sound(Handle(c, t, event, pol, cur))
<1>1. CASE t < c.now
  <2>1. [c EXCEPT !.fault = TRUE] \in Controller
    BY DEF Sound, Controller
  <2> QED
    BY <1>1, <2>1, ShutdownSound DEF Handle, StopReason
<1>2. CASE ~(t < c.now)
  <2> DEFINE d == Observe(c, t, pol, cur)
  <2>1. Sound(d)
    BY ObserveSound
  <2>2. d \in Controller
    BY <2>1 DEF Sound
  <2> HIDE DEF d
  <2>3. Sound(OnPressed(d, pol, cur))
    BY <2>1, OnPressedSound
  <2>4. Sound(OnReleased(d))
    <3>1. [d EXCEPT !.pressed = FALSE] \in Controller
      BY <2>2 DEF Controller
    <3>2. d.phase \notin Active => Sound([d EXCEPT !.pressed = FALSE])
      BY <2>1, <3>1 DEF Sound, Controller
    <3> QED
      BY <3>1, <3>2, ShutdownSound DEF OnReleased, StopReason
  <2>5. Sound(Shutdown(d, "Invalidated"))
    BY <2>2, ShutdownSound DEF StopReason
  <2>6. Sound(Shutdown([d EXCEPT !.fault = TRUE], "Fault"))
    <3>1. [d EXCEPT !.fault = TRUE] \in Controller
      BY <2>2 DEF Controller
    <3> QED
      BY <3>1, ShutdownSound DEF StopReason
  <2>7. event.type = "Completed" /\ Reports(d, event) =>
          Sound(Complete(d, event.applied))
    BY <2>1, CompleteSound DEF Reports
  <2> QED
    BY <1>2, <2>1, <2>3, <2>4, <2>5, <2>6, <2>7 DEF Handle, OnEvent, d
<1> QED
  BY <1>1, <1>2

-----------------------------------------------------------------------------
(* The controller's clock is the last timestamp it was given, or an earlier *)
(* one when that timestamp went back.                                       *)

LEMMA ShutdownNow ==
  ASSUME NEW c \in Controller, NEW reason \in StopReason
  PROVE  Shutdown(c, reason).now = c.now
  BY DEF Shutdown, Controller

LEMMA CompleteNow ==
  ASSUME NEW c \in Controller, c.phase \in Pending, NEW applied \in BOOLEAN
  PROVE  Complete(c, applied).now = c.now
<1> DEFINE d == Failed(c, applied)
           e == DisableReported(c, applied)
<1>1. d \in Controller /\ e \in Controller
  BY FailedType
<1>2. d.now = c.now /\ e.now = c.now
  BY <1>1 DEF Failed, DisableReported, Controller
<1> HIDE DEF d, e
<1>3. \A b \in Controller : \A p : AtPhase(b, p).now = b.now
  BY DEF AtPhase, Controller
<1>4. Shutdown(d, "Fault").now = d.now
  BY <1>1, ShutdownNow DEF StopReason
<1> QED
  BY <1>1, <1>2, <1>3, <1>4 DEF Complete, Entering, Pending, d, e

LEMMA HandleNow ==
  ASSUME NEW c, Sound(c), NEW t \in 0..MaxMs, NEW event,
         NEW pol \in SUBSET Request, NEW cur \in Request,
         event.type = "Completed" => event.applied \in BOOLEAN
  PROVE  Handle(c, t, event, pol, cur).now \in {c.now, t}
<1>1. CASE t < c.now
  <2> DEFINE d == [c EXCEPT !.fault = TRUE]
  <2>1. d \in Controller /\ d.now = c.now
    BY DEF Sound, Controller
  <2> HIDE DEF d
  <2>2. Shutdown(d, "Clock").now = c.now
    BY <2>1, ShutdownNow DEF StopReason
  <2> QED
    BY <1>1, <2>2 DEF Handle, d
<1>2. CASE ~(t < c.now)
  <2> DEFINE b == [c EXCEPT !.now = t]
             d == Observe(c, t, pol, cur)
  <2>1. b \in Controller /\ b.now = t
    BY DEF Sound, Controller
  <2> HIDE DEF b
  <2>2. \A reason \in StopReason : Shutdown(b, reason).now = t
    BY <2>1, ShutdownNow
  <2>3. d \in Controller /\ d.now = t
    BY <2>1, <2>2, ObserveSound DEF Observe, b, Sound, StopReason
  <2> HIDE DEF d
  <2>4. OnPressed(d, pol, cur).now = t
    BY <2>3 DEF OnPressed, Controller
  <2>5. OnReleased(d).now = t
    <3> DEFINE e == [d EXCEPT !.pressed = FALSE]
    <3>1. e \in Controller /\ e.now = t
      BY <2>3 DEF Controller
    <3> HIDE DEF e
    <3> QED
      BY <3>1, ShutdownNow DEF OnReleased, StopReason, e
  <2>6. Shutdown(d, "Invalidated").now = t
    BY <2>3, ShutdownNow DEF StopReason
  <2>7. Shutdown([d EXCEPT !.fault = TRUE], "Fault").now = t
    <3> DEFINE e == [d EXCEPT !.fault = TRUE]
    <3>1. e \in Controller /\ e.now = t
      BY <2>3 DEF Controller
    <3> HIDE DEF e
    <3> QED
      BY <3>1, ShutdownNow DEF StopReason, e
  <2>8. event.type = "Completed" /\ Reports(d, event) =>
          Complete(d, event.applied).now = t
    BY <2>3, CompleteNow DEF Reports
  <2> QED
    BY <1>2, <2>3, <2>4, <2>5, <2>6, <2>7, <2>8 DEF Handle, OnEvent, d
<1> QED
  BY <1>1, <1>2

-----------------------------------------------------------------------------
(* The order of a controller's life.  Every change of phase moves it later: *)
(* to a later phase of its cycle, or to a later cycle.  An identity is past *)
(* when its place precedes the controller's, so a report under it can never *)
(* be taken for the pending effect.                                         *)

Rank(p) ==
    CASE p = "StartupPa" -> 0 [] p = "StartupTx" -> 1 [] p = "StartupReceive" -> 2
      [] p = "EntryPa" -> 3 [] p = "Prepare" -> 4 [] p = "TxOn" -> 5
      [] p = "PaOn" -> 6 [] p = "Transmitting" -> 7 [] p = "ExitPa" -> 8
      [] p = "ExitTx" -> 9 [] p = "ExitReceive" -> 10 [] p = "FaultPa" -> 11
      [] p = "FaultTx" -> 12 [] p = "Idle" -> 13 [] p = "Faulted" -> 14

LEMMA RankType == \A p \in Phase : Rank(p) \in Nat
  BY DEF Phase, Pending, Rank

\* The place (cycle, phase) of i precedes that of c, in the same start.
Past(i, c) ==
    \/ i.cycle < c.cycle
    \/ i.cycle = c.cycle /\ Rank(i.phase) < Rank(c.phase)

LEMMA PastIsNotPresent ==
  ASSUME NEW c \in Controller, NEW i \in EffectId, Past(i, c)
  PROVE  i # Id(c)
  BY RankType DEF Past, Id, Controller, EffectId

LEMMA PastStays ==
  ASSUME NEW c \in Controller, NEW d \in Controller, Past(c, d),
         NEW i \in EffectId, Past(i, c) \/ i = Id(c)
  PROVE  Past(i, d)
<1>1. CASE i = Id(c)
  BY <1>1 DEF Id, Past
<1>2. CASE Past(i, c)
  <2>1. Rank(i.phase) \in Nat /\ Rank(c.phase) \in Nat /\ Rank(d.phase) \in Nat
    BY RankType DEF EffectId, Controller, Phase
  <2> QED
    BY <1>2, <2>1 DEF Past, Controller, EffectId
<1> QED
  BY <1>1, <1>2

(* What an event that reports no effect may do.                            *)

Kept(c, d) ==
    /\ Id(d) = Id(c)
    /\ d.accepted = c.accepted
    /\ d.shutdownOk = c.shutdownOk

Stopped(c, d) ==
    /\ c.phase \in Active \cup {"Idle"} /\ d.phase = "ExitPa"
    /\ Past(c, d)

Spent(c, d) == c.phase = "Idle" /\ d.phase = "Faulted" /\ Past(c, d)

Begun(c, d) == c.phase = "Idle" /\ d.phase = "EntryPa" /\ Past(c, d)

Drifts(c, d) == Kept(c, d) \/ Stopped(c, d) \/ Spent(c, d) \/ Begun(c, d)

LEMMA ShutdownDrifts ==
  ASSUME NEW c \in Controller, NEW reason \in StopReason
  PROVE  /\ Drifts(c, Shutdown(c, reason))
         /\ c.phase \in Active => Stopped(c, Shutdown(c, reason))
         /\ c.phase \notin Active \cup {"Idle"} => Shutdown(c, reason) = c
<1> DEFINE d == Shutdown(c, reason)
<1>1. CASE c.phase = "Idle" /\ Exhausted(c)
  <2>1. d = [c EXCEPT !.phase = "Faulted"]
    BY <1>1 DEF Shutdown
  <2> HIDE DEF d
  <2>2. Spent(c, d)
    BY <1>1, <2>1 DEF Spent, Past, Rank, Controller
  <2> QED
    BY <1>1, <2>2 DEF Drifts, d, Active, Entering
<1>2. CASE c.phase \in Active \cup {"Idle"} /\ ~(c.phase = "Idle" /\ Exhausted(c))
  <2>1. /\ d.phase = "ExitPa" /\ d.cycle = CycleOfShutdown(c)
        /\ d.instance = c.instance
    BY <1>2 DEF Shutdown, Controller
  <2> HIDE DEF d
  <2>2. Past(c, d)
    BY <1>2, <2>1
    DEF Past, Rank, Controller, CycleOfShutdown, Active, Entering
  <2> QED
    BY <1>2, <2>1, <2>2 DEF Drifts, Stopped, d
<1>3. CASE c.phase \notin Active \cup {"Idle"}
  BY <1>3 DEF Shutdown, Drifts, Kept
<1> QED
  BY <1>1, <1>2, <1>3

LEMMA ObserveDrifts ==
  ASSUME NEW c \in Controller, NEW t \in 0..MaxMs, NEW pol, NEW cur
  PROVE  \/ Kept(c, Observe(c, t, pol, cur))
         \/ Stopped(c, Observe(c, t, pol, cur))
<1> DEFINE d == [c EXCEPT !.now = t]
<1>1. d \in Controller
  BY DEF Controller
<1>2. Kept(c, d) /\ d.phase = c.phase
  BY DEF Kept, Id, Controller
<1> HIDE DEF d
<1>3. \A reason \in StopReason : d.phase \in Active => Stopped(d, Shutdown(d, reason))
  BY <1>1, ShutdownDrifts
<1>4. \A e : Stopped(d, e) => Stopped(c, e)
  BY <1>2 DEF Stopped, Kept, Id, Past
<1> QED
  BY <1>2, <1>3, <1>4 DEF Observe, d, StopReason

LEMMA OnEventDrifts ==
  ASSUME NEW c \in Controller, NEW event,
         NEW pol \in SUBSET Request, NEW cur \in Request,
         event.type = "Completed" => ~Reports(c, event)
  PROVE  Drifts(c, OnEvent(c, event, pol, cur))
<1>1. ASSUME NEW d \in Controller, Kept(c, d), d.phase = c.phase,
             NEW reason \in StopReason
      PROVE  Drifts(c, d) /\ Drifts(c, Shutdown(d, reason))
  <2>1. Drifts(d, Shutdown(d, reason))
    BY ShutdownDrifts
  <2>2. \A e : Drifts(d, e) => Drifts(c, e)
    BY <1>1 DEF Drifts, Kept, Stopped, Spent, Begun, Past, Id
  <2> QED
    BY <1>1, <2>1, <2>2 DEF Drifts
<1>2. Drifts(c, c) /\ \A reason \in StopReason : Drifts(c, Shutdown(c, reason))
  BY <1>1 DEF Kept, Drifts, StopReason
<1>3. Drifts(c, OnPressed(c, pol, cur))
  <2>1. CASE Accepts(c, pol, cur)
    <3>1. /\ OnPressed(c, pol, cur).phase = "EntryPa"
          /\ OnPressed(c, pol, cur).cycle = c.cycle + 1
          /\ OnPressed(c, pol, cur).instance = c.instance
      BY <2>1 DEF OnPressed, Controller
    <3> QED
      BY <2>1, <3>1 DEF Accepts, Drifts, Begun, Past, Controller
  <2>2. CASE ~Accepts(c, pol, cur)
    BY <2>2 DEF OnPressed, Drifts, Kept, Id, Controller
  <2> QED
    BY <2>1, <2>2
<1>4. Drifts(c, OnReleased(c))
  <2> DEFINE d == [c EXCEPT !.pressed = FALSE]
  <2>1. d \in Controller /\ Kept(c, d) /\ d.phase = c.phase
    BY DEF Controller, Kept, Id
  <2> HIDE DEF d
  <2>2. Drifts(c, d) /\ Drifts(c, Shutdown(d, "Released"))
    BY <1>1, <2>1 DEF StopReason
  <2> QED
    BY <2>2 DEF OnReleased, d
<1>5. Drifts(c, Shutdown([c EXCEPT !.fault = TRUE], "Fault"))
  <2> DEFINE d == [c EXCEPT !.fault = TRUE]
  <2>1. d \in Controller /\ Kept(c, d) /\ d.phase = c.phase
    BY DEF Controller, Kept, Id
  <2> HIDE DEF d
  <2> QED
    BY <1>1, <2>1 DEF StopReason, d
<1> QED
  BY <1>2, <1>3, <1>4, <1>5 DEF OnEvent, StopReason

\* An event that reports no effect can only start or stop a transmission, or
\* latch an exhausted controller Faulted; all else is a note on the record.
LEMMA HandleDrifts ==
  ASSUME NEW c, Sound(c), NEW t \in 0..MaxMs, NEW event,
         NEW pol \in SUBSET Request, NEW cur \in Request,
         event.type = "Completed" => ~Reports(Observe(c, t, pol, cur), event)
  PROVE  Drifts(c, Handle(c, t, event, pol, cur))
<1>1. CASE t < c.now
  <2> DEFINE d == [c EXCEPT !.fault = TRUE]
  <2>1. d \in Controller /\ Kept(c, d)
    BY DEF Sound, Controller, Kept, Id
  <2> HIDE DEF d
  <2>2. Drifts(d, Shutdown(d, "Clock"))
    BY <2>1, ShutdownDrifts DEF StopReason
  <2>3. \A e : Drifts(d, e) => Drifts(c, e)
    BY <2>1 DEF Drifts, Kept, Stopped, Spent, Begun, Past, Id
  <2> QED
    BY <1>1, <2>2, <2>3 DEF Handle, d
<1>2. CASE ~(t < c.now)
  <2> DEFINE d == Observe(c, t, pol, cur)
             e == OnEvent(d, event, pol, cur)
  <2>1. d \in Controller /\ c \in Controller
    BY ObserveSound DEF Sound
  <2>2. Kept(c, d) \/ Stopped(c, d)
    BY <2>1, ObserveDrifts
  <2> HIDE DEF d
  <2>3. Drifts(d, e)
    BY <2>1, OnEventDrifts DEF d
  <2> HIDE DEF e
  <2>4. Drifts(c, e)
    BY <2>2, <2>3
    DEF Drifts, Kept, Stopped, Spent, Begun, Past, Id, Active, Entering
  <2> QED
    BY <1>2, <2>4 DEF Handle, d, e
<1> QED
  BY <1>1, <1>2

LEMMA HandleReports ==
  ASSUME NEW c, NEW t, NEW event, NEW pol, NEW cur,
         ~(t < c.now), event.type = "Completed",
         Reports(Observe(c, t, pol, cur), event)
  PROVE  Handle(c, t, event, pol, cur) =
           Complete(Observe(c, t, pol, cur), event.applied)
  BY DEF Handle, OnEvent

(* Where a completion leads.                                               *)

CompletionOf(c, applied, d) ==
    CASE c.phase \in {"StartupPa", "ExitPa"} ->
           /\ d.phase = AfterPaOff(c.phase)
           /\ d.shutdownOk = Disabled(c, applied)
      [] c.phase \in {"StartupTx", "ExitTx"} ->
           d.phase = IF Disabled(c, applied) THEN AfterTxOff(c.phase) ELSE "Faulted"
      [] c.phase \in {"StartupReceive", "ExitReceive"} ->
           d.phase \in {"Idle", "Faulted", "FaultPa"} /\ (d.phase = "Idle" => applied)
      [] c.phase \in Entering ->
           IF applied THEN d.phase = NextEntry(c.phase) /\ d.accepted = c.accepted
                      ELSE d.phase = "ExitPa"
      [] OTHER -> d.phase \in {"FaultTx", "Faulted"}

LEMMA CompleteLeads ==
  ASSUME NEW c, Sound(c), c.phase \in Pending, NEW applied \in BOOLEAN
  PROVE  /\ CompletionOf(c, applied, Complete(c, applied))
         /\ Past(c, Complete(c, applied))
<1> DEFINE d == Failed(c, applied)
           e == DisableReported(c, applied)
<1>1. c \in Controller /\ d \in Controller /\ e \in Controller
  BY FailedType DEF Sound
<1>2. /\ d.cycle = c.cycle /\ d.instance = c.instance /\ d.phase = c.phase
      /\ d.accepted = c.accepted
      /\ e.cycle = c.cycle /\ e.instance = c.instance /\ e.phase = c.phase
      /\ e.shutdownOk = Disabled(c, applied)
  BY <1>1 DEF Failed, DisableReported, Controller, Disabled
<1> HIDE DEF d, e
<1>3. ASSUME NEW b \in Controller, NEW p \in Phase
      PROVE  LET a == AtPhase(b, p)
             IN  /\ a.phase = p /\ a.cycle = b.cycle /\ a.instance = b.instance
                 /\ a.shutdownOk = b.shutdownOk /\ a.accepted = b.accepted
  BY DEF AtPhase, Controller
<1>4. CASE c.phase \in {"StartupPa", "ExitPa"}
  <2>1. Complete(c, applied) = AtPhase(e, AfterPaOff(c.phase))
    BY <1>4 DEF Complete, Entering, e
  <2>2. AfterPaOff(c.phase) \in Phase /\ Rank(c.phase) < Rank(AfterPaOff(c.phase))
    BY <1>4 DEF AfterPaOff, Phase, Pending, Rank
  <2> QED
    BY <1>1, <1>2, <1>3, <1>4, <2>1, <2>2 DEF CompletionOf, Past, Entering
<1>5. CASE c.phase \in {"StartupTx", "ExitTx"}
  <2> DEFINE p == IF Disabled(c, applied) THEN AfterTxOff(c.phase) ELSE "Faulted"
  <2>1. Complete(c, applied) = AtPhase(e, p)
    BY <1>5 DEF Complete, Entering, e
  <2>2. p \in Phase /\ Rank(c.phase) < Rank(p)
    BY <1>5 DEF AfterTxOff, Phase, Pending, Rank
  <2>3. CompletionOf(c, applied, Complete(c, applied)) <=>
          Complete(c, applied).phase = p
    BY <1>5 DEF CompletionOf, Entering
  <2> HIDE DEF p
  <2> QED
    BY <1>1, <1>2, <1>3, <2>1, <2>2, <2>3 DEF Past
<1>6. CASE c.phase \in {"StartupReceive", "ExitReceive"}
  <2> DEFINE p == IF applied THEN Finished(c) ELSE "FaultPa"
  <2>1. Complete(c, applied) = AtPhase(d, p)
    BY <1>6 DEF Complete, Entering, d
  <2>2. /\ p \in Phase /\ Rank(c.phase) < Rank(p)
        /\ p \in {"Idle", "Faulted", "FaultPa"} /\ (p = "Idle" => applied)
    BY <1>6 DEF Finished, Phase, Pending, Rank
  <2> HIDE DEF p
  <2> QED
    BY <1>1, <1>2, <1>3, <1>6, <2>1, <2>2 DEF CompletionOf, Past, Entering
<1>7. CASE c.phase \in Entering /\ applied
  <2>1. Complete(c, applied) = AtPhase(c, NextEntry(c.phase))
    BY <1>7 DEF Complete, Entering
  <2>2. NextEntry(c.phase) \in Phase /\ Rank(c.phase) < Rank(NextEntry(c.phase))
    BY <1>7 DEF NextEntry, Entering, Phase, Pending, Rank
  <2>3. /\ Complete(c, applied).phase = NextEntry(c.phase)
        /\ Complete(c, applied).accepted = c.accepted
        /\ Complete(c, applied).cycle = c.cycle
        /\ Complete(c, applied).instance = c.instance
    BY <1>1, <1>3, <2>1, <2>2
  <2>4. Past(c, Complete(c, applied))
    BY <2>2, <2>3 DEF Past
  <2> QED
    BY <1>7, <2>3, <2>4 DEF CompletionOf, Entering
<1>8. CASE c.phase \in Entering /\ ~applied
  <2>1. Complete(c, applied) = Shutdown(d, "Fault")
    BY <1>8 DEF Complete, Entering, d
  <2>2. Stopped(d, Shutdown(d, "Fault"))
    BY <1>1, <1>2, <1>8, ShutdownDrifts DEF Active, StopReason
  <2> QED
    BY <1>2, <1>8, <2>1, <2>2 DEF CompletionOf, Stopped, Past, Entering
<1>9. CASE c.phase \in {"FaultPa", "FaultTx"}
  <2> DEFINE p == IF c.phase = "FaultPa" THEN "FaultTx" ELSE "Faulted"
  <2>1. Complete(c, applied) = AtPhase(d, p)
    BY <1>9 DEF Complete, Entering, d
  <2>2. p \in Phase /\ Rank(c.phase) < Rank(p) /\ p \in {"FaultTx", "Faulted"}
    BY <1>9 DEF Phase, Pending, Rank
  <2> HIDE DEF p
  <2> QED
    BY <1>1, <1>2, <1>3, <1>9, <2>1, <2>2 DEF CompletionOf, Past, Entering
<1> QED
  BY <1>4, <1>5, <1>6, <1>7, <1>8, <1>9 DEF Pending, Entering
=============================================================================
