--------------------------- MODULE TxPass_proofs ---------------------------
(***************************************************************************)
(* Proofs about TxPass, for every debounce and quiet time, set of requests *)
(* and clock range.                                                        *)
(*                                                                         *)
(* The invariant relates three things that only the code's order of events *)
(* keeps together: the controller's key and the filter's, the filter's run *)
(* of low readings and the samples really seen, and the effects a pass may *)
(* still run and those the pending phase can still ask for.                *)
(***************************************************************************)
EXTENDS TxPass, TxControl_proofs

-----------------------------------------------------------------------------
(* The key and the standing checks, over one call of Controller::handle.   *)

\* What a call leaves true: entry and transmission only with the key down and
\* the facts of the press standing.
Standing(c, pol, cur) ==
    c.phase \in Active => c.pressed /\ StillAuthorised(c, pol, cur)

LEMMA ShutdownPressed ==
  ASSUME NEW c \in Controller, NEW reason \in StopReason
  PROVE  Shutdown(c, reason).pressed = c.pressed
  BY DEF Shutdown, Controller

LEMMA CompletePressed ==
  ASSUME NEW c \in Controller, c.phase \in Pending, NEW applied \in BOOLEAN
  PROVE  Complete(c, applied).pressed = c.pressed
<1> DEFINE d == Failed(c, applied)
           e == DisableReported(c, applied)
<1>1. d \in Controller /\ e \in Controller
  BY FailedType
<1>2. d.pressed = c.pressed /\ e.pressed = c.pressed
  BY <1>1 DEF Failed, DisableReported, Controller
<1> HIDE DEF d, e
<1>3. \A b \in Controller : \A p : AtPhase(b, p).pressed = b.pressed
  BY DEF AtPhase, Controller
<1>4. Shutdown(d, "Fault").pressed = d.pressed
  BY <1>1, ShutdownPressed DEF StopReason
<1> QED
  BY <1>1, <1>2, <1>3, <1>4 DEF Complete, Pending, Entering, d, e

LEMMA ObserveStanding ==
  ASSUME NEW c, Sound(c), c.phase \in Active => c.pressed,
         NEW t \in 0..MaxMs, NEW pol, NEW cur
  PROVE  /\ Observe(c, t, pol, cur).pressed = c.pressed
         /\ Standing(Observe(c, t, pol, cur), pol, cur)
<1> DEFINE d == [c EXCEPT !.now = t]
<1>1. /\ d \in Controller /\ d.pressed = c.pressed /\ d.phase = c.phase
      /\ d.accepted = c.accepted
  BY DEF Sound, Controller
<1> HIDE DEF d
<1>2. \A reason \in StopReason :
        /\ Shutdown(d, reason).pressed = c.pressed
        /\ Shutdown(d, reason).phase \notin Active
  BY <1>1, ShutdownPressed, ShutdownStops
<1>3. "Timeout" \in StopReason /\ "Invalidated" \in StopReason
  BY DEF StopReason
<1>4. CASE Observe(c, t, pol, cur) = d /\ (c.phase \in Active => StillAuthorised(c, pol, cur))
  BY <1>1, <1>4 DEF Standing, StillAuthorised
<1>5. CASE \E reason \in StopReason : Observe(c, t, pol, cur) = Shutdown(d, reason)
  BY <1>2, <1>5 DEF Standing
<1> QED
  BY <1>3, <1>4, <1>5 DEF Observe, d

\* The controller's key follows the event alone, and every call ends with the
\* standing checks true of its facts.
LEMMA HandleStanding ==
  ASSUME NEW c, Sound(c), c.phase \in Active => c.pressed,
         NEW t \in 0..MaxMs, ~(t < c.now), NEW event,
         NEW pol \in SUBSET Request, NEW cur \in Request,
         event.type = "Completed" => event.applied \in BOOLEAN
  PROVE  /\ Handle(c, t, event, pol, cur).pressed =
              CASE event.type = "Pressed" -> TRUE
                [] event.type = "Released" -> FALSE
                [] OTHER -> c.pressed
         /\ Standing(Handle(c, t, event, pol, cur), pol, cur)
<1> DEFINE o == Observe(c, t, pol, cur)
<1>1. Sound(o) /\ o \in Controller
  BY ObserveSound DEF Sound
<1>2. o.pressed = c.pressed /\ Standing(o, pol, cur)
  BY ObserveStanding
<1>3. Handle(c, t, event, pol, cur) = OnEvent(o, event, pol, cur)
  BY DEF Handle
<1> HIDE DEF o
<1>4. CASE event.type = "Pressed"
  <2> DEFINE d == OnPressed(o, pol, cur)
  <2>1. OnEvent(o, event, pol, cur) = d
    BY <1>4 DEF OnEvent
  <2>2. CASE Accepts(o, pol, cur)
    <3>1. d.pressed = TRUE /\ d.accepted = cur /\ cur \in pol
      BY <1>1, <2>2 DEF OnPressed, Accepts, Controller
    <3> QED
      BY <1>3, <1>4, <2>1, <3>1 DEF Standing, StillAuthorised
  <2>3. CASE ~Accepts(o, pol, cur)
    <3>1. d.pressed = TRUE /\ d.accepted = o.accepted /\ d.phase = o.phase
      BY <1>1, <2>3 DEF OnPressed, Controller
    <3> QED
      BY <1>2, <1>3, <1>4, <2>1, <3>1 DEF Standing, StillAuthorised
  <2> QED
    BY <2>2, <2>3
<1>5. CASE event.type = "Released"
  <2> DEFINE e == [o EXCEPT !.pressed = FALSE]
  <2>1. e \in Controller /\ e.pressed = FALSE /\ e.phase = o.phase
    BY <1>1 DEF Controller
  <2>2. OnEvent(o, event, pol, cur) =
          IF o.phase \in Active THEN Shutdown(e, "Released") ELSE e
    BY <1>5 DEF OnEvent, OnReleased
  <2> HIDE DEF e
  <2>3. /\ Shutdown(e, "Released").pressed = FALSE
        /\ Shutdown(e, "Released").phase \notin Active
    BY <2>1, ShutdownPressed, ShutdownStops DEF StopReason
  <2> QED
    BY <1>3, <1>5, <2>1, <2>2, <2>3 DEF Standing
<1>6. CASE event.type = "Invalidated"
  <2>1. OnEvent(o, event, pol, cur) = Shutdown(o, "Invalidated")
    BY <1>6 DEF OnEvent
  <2> QED
    BY <1>1, <1>2, <1>3, <1>6, <2>1, ShutdownPressed, ShutdownStops
    DEF StopReason, Standing
<1>7. CASE event.type = "TargetFault"
  <2> DEFINE e == [o EXCEPT !.fault = TRUE]
  <2>1. e \in Controller /\ e.pressed = o.pressed
    BY <1>1 DEF Controller
  <2>2. OnEvent(o, event, pol, cur) = Shutdown(e, "Fault")
    BY <1>7 DEF OnEvent
  <2> HIDE DEF e
  <2> QED
    BY <1>2, <1>3, <1>7, <2>1, <2>2, ShutdownPressed, ShutdownStops
    DEF StopReason, Standing
<1>8. CASE event.type = "Completed" /\ Reports(o, event)
  <2> DEFINE d == Complete(o, event.applied)
  <2>1. OnEvent(o, event, pol, cur) = d /\ o.phase \in Pending
    BY <1>8 DEF OnEvent, Reports
  <2>2. d.pressed = o.pressed /\ CompletionOf(o, event.applied, d)
    BY <1>1, <1>8, <2>1, CompletePressed, CompleteLeads
  <2> HIDE DEF d
  <2>3. d.phase \in Active => o.phase \in Active /\ d.accepted = o.accepted
    BY <2>1, <2>2 DEF CompletionOf, AfterPaOff, AfterTxOff, NextEntry, Active,
       Entering, Pending
  <2> QED
    BY <1>2, <1>3, <1>8, <2>1, <2>2, <2>3 DEF Standing, StillAuthorised
<1>9. CASE /\ event.type \notin {"Pressed", "Released", "Invalidated", "TargetFault"}
           /\ ~(event.type = "Completed" /\ Reports(o, event))
  <2>1. OnEvent(o, event, pol, cur) = o
    BY <1>9 DEF OnEvent
  <2> QED
    BY <1>2, <1>3, <1>9, <2>1
<1> QED
  BY <1>4, <1>5, <1>6, <1>7, <1>8, <1>9

\* From rest only the event Pressed begins an entry.
LEMMA HandleEntry ==
  ASSUME NEW c, Sound(c), c.phase = "Idle", NEW t \in 0..MaxMs, ~(t < c.now),
         NEW event, NEW pol, NEW cur,
         Handle(c, t, event, pol, cur).phase = "EntryPa"
  PROVE  event.type = "Pressed"
<1> DEFINE o == [c EXCEPT !.now = t]
<1>1. o \in Controller /\ o.phase = "Idle"
  BY DEF Sound, Controller
<1>2. Handle(c, t, event, pol, cur) = OnEvent(o, event, pol, cur)
  BY DEF Handle, Observe, Active, Entering
<1>3. ~Reports(o, event)
  BY <1>1 DEF Reports, Pending
<1> HIDE DEF o
<1>4. CASE event.type = "Released"
  BY <1>1, <1>2, <1>4 DEF OnEvent, OnReleased, Active, Entering, Controller
<1>5. CASE event.type \in {"Invalidated", "TargetFault"}
  <2>1. [o EXCEPT !.fault = TRUE] \in Controller
    BY <1>1 DEF Controller
  <2>2. "EntryPa" \in Active
    BY DEF Active, Entering
  <2> QED
    BY <1>1, <1>2, <1>5, <2>1, <2>2, ShutdownStops DEF OnEvent, StopReason
<1> QED
  BY <1>1, <1>2, <1>3, <1>4, <1>5 DEF OnEvent

-----------------------------------------------------------------------------
(* How many effects a phase can still ask for before the pass is settled.   *)

Need(p) ==
    CASE p = "EntryPa" -> 8 [] p = "Prepare" -> 7 [] p = "TxOn" -> 6
      [] p = "PaOn" -> 5
      [] p \in {"StartupPa", "ExitPa"} -> 4
      [] p \in {"StartupTx", "ExitTx"} -> 3
      [] p \in {"StartupReceive", "ExitReceive"} -> 2
      [] p = "FaultPa" -> 1
      [] OTHER -> 0

LEMMA NeedType == \A p \in Phase : Need(p) \in 0..8
  BY DEF Need

LEMMA CompleteNeeds ==
  ASSUME NEW c, NEW d, NEW applied \in BOOLEAN, c.phase \in Pending,
         CompletionOf(c, applied, d)
  PROVE  Need(d.phase) < Need(c.phase) \/ Need(d.phase) = 0
  BY DEF Need, CompletionOf, AfterPaOff, AfterTxOff, NextEntry, Pending, Entering

LEMMA StoppedNeeds ==
  ASSUME NEW c \in Controller, NEW reason \in StopReason, c.phase \in Entering
  PROVE  Need(Shutdown(c, reason).phase) < Need(c.phase)
  BY DEF Need, Shutdown, Entering, Active, Controller

\* Reporting the pending effect, or refusing it, brings the pass nearer its end.
LEMMA ReportNeeds ==
  ASSUME NEW c, Sound(c), c.phase \in Pending, NEW t \in 0..MaxMs, ~(t < c.now),
         NEW event, NEW pol \in SUBSET Request, NEW cur \in Request,
         \/ event.type = "Completed" /\ event.id = Id(c) /\ event.applied \in BOOLEAN
         \/ event.type = "Invalidated" /\ c.phase \in Active
  PROVE  LET d == Handle(c, t, event, pol, cur)
         IN  Need(d.phase) < Need(c.phase) \/ Need(d.phase) = 0
<1> DEFINE k == [c EXCEPT !.now = t]
           o == Observe(c, t, pol, cur)
<1>1. k \in Controller /\ k.phase = c.phase /\ Id(k) = Id(c) /\ Sound(o) /\ o \in Controller
  BY ObserveSound DEF Sound, Controller, Id
<1>2. Handle(c, t, event, pol, cur) = OnEvent(o, event, pol, cur)
  BY DEF Handle
<1>3. o = k \/ (c.phase \in Active /\ \E reason \in StopReason : o = Shutdown(k, reason))
  BY DEF Observe, StopReason
<1> HIDE DEF o, k
<1>4. CASE o = k
  <2>1. CASE event.type = "Completed" /\ event.id = Id(c) /\ event.applied \in BOOLEAN
    <3>1. Reports(o, event)
      BY <1>1, <1>4, <2>1 DEF Reports
    <3>2. OnEvent(o, event, pol, cur) = Complete(o, event.applied)
      BY <2>1, <3>1 DEF OnEvent
    <3>3. CompletionOf(o, event.applied, Complete(o, event.applied))
      BY <1>1, <1>4, <2>1, CompleteLeads
    <3> HIDE DEF CompletionOf
    <3> QED
      BY <1>1, <1>2, <1>4, <2>1, <3>2, <3>3, CompleteNeeds
  <2>2. CASE event.type = "Invalidated" /\ c.phase \in Active
    <3>1. OnEvent(o, event, pol, cur) = Shutdown(o, "Invalidated")
      BY <2>2 DEF OnEvent
    <3>2. c.phase \in Entering
      BY <2>2 DEF Active, Pending
    <3> QED
      BY <1>1, <1>2, <1>4, <3>1, <3>2, StoppedNeeds DEF StopReason
  <2> QED
    BY <2>1, <2>2
<1>5. CASE c.phase \in Active /\ \E reason \in StopReason : o = Shutdown(k, reason)
  <2>1. PICK reason \in StopReason : o = Shutdown(k, reason)
    BY <1>5
  <2>2. c.phase \in Entering
    BY <1>5 DEF Active, Pending
  <2>3. Need(o.phase) < Need(c.phase) /\ o.phase = "ExitPa"
    BY <1>1, <2>1, <2>2, StoppedNeeds DEF Shutdown, Active, Entering, Controller
  <2>4. event.type = "Completed" => ~Reports(o, event)
    BY <2>2, <2>3 DEF Reports, Id, Entering
  <2>5. OnEvent(o, event, pol, cur) \in {o, Shutdown(o, "Invalidated")}
    BY <2>4 DEF OnEvent
  <2>6. Shutdown(o, "Invalidated") = o
    BY <2>3 DEF Shutdown, Active, Entering
  <2> QED
    BY <1>2, <2>3, <2>5, <2>6
<1> QED
  BY <1>3, <1>4, <1>5
-----------------------------------------------------------------------------
(* The invariant.                                                          *)

\* The filter counts a run of low readings from no earlier than the samples
\* have shown the key down and the quiet window has been over.
FilterTells ==
    /\ filter.quietUntil = (IF seen.asked = None THEN 0 ELSE seen.asked + Quiet)
    /\ filter.lowSince # None =>
         /\ seen.low # None /\ seen.low <= filter.lowSince
         /\ filter.quietUntil <= filter.lowSince
    /\ seen.low # None => seen.low <= at

PassInv ==
    /\ PassTypeOK
    /\ FilterTells
    /\ ctl = None => turn = "wait"
    /\ ctl # None =>
         /\ Sound(ctl) /\ ctl.now <= at
         /\ ctl.pressed = filter.pressed
         /\ ctl.phase \in Active => ctl.pressed
    /\ turn = "effects" => Standing(ctl, policy, current)

\* Where the share of a pass covers the longest chain but its last disable.
Settling ==
    ctl # None =>
        Need(ctl.phase) <= IF turn = "effects" THEN left ELSE 0

\* The filter's event is the edge of its level.
LEMMA EventEdge ==
  ASSUME NEW was \in BOOLEAN, NEW is \in BOOLEAN
  PROVE  /\ Event(was, is).type = "Pressed" <=> ~was /\ is
         /\ Event(was, is).type = "Released" <=> was /\ ~is
         /\ Event(was, is).type # "Completed"
  BY DEF Event, PressedEvent, ReleasedEvent, TickEvent

\* One sample of the filter.
LEMMA SampleTells ==
  ASSUME NEW f \in Filter, NEW t \in 0..MaxMs, NEW down \in BOOLEAN
  PROVE  LET g == Sample(f, t, down)
         IN  /\ g \in Filter /\ g.quietUntil = f.quietUntil
             /\ g.lowSince # None =>
                  /\ down /\ f.quietUntil <= t
                  /\ g.lowSince = IF f.lowSince = None THEN t ELSE f.lowSince
             /\ g.pressed => down /\ f.quietUntil <= t
             /\ g.pressed /\ ~f.pressed =>
                  f.lowSince # None /\ t - f.lowSince >= Debounce
<1> DEFINE g == Sample(f, t, down)
<1>1. /\ f.quietUntil \in Nat /\ t \in Nat /\ f.lowSince \in 0..MaxMs \cup {None}
      /\ Debounce \in Nat \ {0} /\ None \notin Nat
  BY BoundAssumption, PassAssumption, RequestAssumption DEF Filter
<1>2. /\ g.lowSince = LowSince(f, t, down)
      /\ g.quietUntil = f.quietUntil
      /\ g.pressed = (/\ down /\ t >= f.quietUntil
                      /\ f.pressed \/ t - LowSince(f, t, down) >= Debounce)
  BY DEF Sample, Filter
<1>3. /\ LowSince(f, t, down) \in 0..MaxMs \cup {None}
      /\ LowSince(f, t, down) # None =>
           /\ down /\ f.quietUntil <= t
           /\ LowSince(f, t, down) = IF f.lowSince = None THEN t ELSE f.lowSince
  <2>1. CASE ~down \/ t < f.quietUntil
    BY <2>1 DEF LowSince
  <2>2. CASE ~(~down \/ t < f.quietUntil)
    BY <1>1, <2>2 DEF LowSince
  <2> QED
    BY <2>1, <2>2
<1>4. g.pressed \in BOOLEAN
  BY <1>2 DEF Filter
<1>5. g \in Filter
  BY <1>2, <1>3, <1>4 DEF Sample, Filter
<1>6. ASSUME g.pressed, ~f.pressed
      PROVE  f.lowSince # None /\ t - f.lowSince >= Debounce
  <2>1. down /\ ~(t < f.quietUntil) /\ t - LowSince(f, t, down) >= Debounce
    <3>1. down /\ t >= f.quietUntil /\ (f.pressed \/ t - LowSince(f, t, down) >= Debounce)
      BY <1>2, <1>6
    <3>2. t - LowSince(f, t, down) >= Debounce
      BY <1>6, <3>1, Zenon
    <3>3. down /\ ~(t < f.quietUntil)
      BY <1>1, <3>1
    <3> QED
      BY <3>2, <3>3
  <2>2. f.lowSince # None
    <3> SUFFICES ASSUME f.lowSince = None PROVE FALSE
      OBVIOUS
    <3>1. LowSince(f, t, down) = t
      BY <2>1 DEF LowSince
    <3> QED
      <4>1. t - t >= Debounce
        BY <2>1, <3>1, Zenon
      <4> QED
        BY <1>1, <4>1
  <2>3. LowSince(f, t, down) = f.lowSince
    BY <2>1, <2>2 DEF LowSince
  <2> QED
    BY <2>1, <2>2, <2>3
<1>7. g.pressed => down /\ f.quietUntil <= t
  BY <1>1, <1>2
<1> HIDE DEF g
<1>8. /\ g \in Filter /\ g.quietUntil = f.quietUntil
      /\ g.lowSince # None =>
           /\ down /\ f.quietUntil <= t
           /\ g.lowSince = IF f.lowSince = None THEN t ELSE f.lowSince
      /\ g.pressed => down /\ f.quietUntil <= t
      /\ g.pressed /\ ~f.pressed =>
           f.lowSince # None /\ t - f.lowSince >= Debounce
  BY <1>2, <1>3, <1>5, <1>6, <1>7
<1> QED
  BY <1>8 DEF g

\* What a pass hands the filter: a host request opens the quiet window first.
Told == IF host THEN SerialActivity(filter, now) ELSE filter

LEMMA ToldTells ==
  ASSUME PassInv
  PROVE  /\ Told \in Filter /\ Told.pressed = filter.pressed
         /\ Told.lowSince = filter.lowSince
         /\ Told.quietUntil = IF host THEN now + Quiet ELSE filter.quietUntil
  BY PassAssumption, BoundAssumption
  DEF PassInv, PassTypeOK, Told, SerialActivity, Filter

LEMMA StartFilter ==
  ASSUME PassInv, StartPass
  PROVE  /\ FilterTells' /\ filter' \in Filter /\ seen' \in Seen
         /\ filter' = Sample(Told, now, raw)
         /\ filter'.pressed => raw /\ ~host
         /\ ~filter.pressed /\ filter'.pressed =>
              /\ seen'.low # None /\ now - seen'.low >= Debounce
              /\ seen'.asked # None => now - seen'.asked >= Quiet + Debounce
<1>1. /\ now \in 0..MaxMs /\ now \in Nat /\ raw \in BOOLEAN /\ host \in BOOLEAN
      /\ filter \in Filter /\ seen \in Seen
      /\ Quiet \in Nat \ {0} /\ Debounce \in Nat \ {0} /\ MaxMs \in Nat
  BY PassAssumption, BoundAssumption DEF PassInv, PassTypeOK
<1>2. /\ filter' = Sample(Told, now, raw)
      /\ seen'.low = IF ~raw THEN None ELSE IF seen.low = None THEN now ELSE seen.low
      /\ seen'.asked = IF host THEN now ELSE seen.asked
  BY DEF StartPass, Told
<1>3. seen' \in Seen
  BY <1>1 DEF StartPass, Seen
<1>4. /\ Told \in Filter /\ Told.pressed = filter.pressed
      /\ Told.lowSince = filter.lowSince
      /\ Told.quietUntil = IF host THEN now + Quiet ELSE filter.quietUntil
  BY ToldTells
<1>5. /\ filter' \in Filter /\ filter'.quietUntil = Told.quietUntil
      /\ filter'.lowSince # None =>
           /\ raw /\ Told.quietUntil <= now
           /\ filter'.lowSince = IF filter.lowSince = None THEN now ELSE filter.lowSince
      /\ filter'.pressed => raw /\ Told.quietUntil <= now
      /\ filter'.pressed /\ ~filter.pressed =>
           filter.lowSince # None /\ now - filter.lowSince >= Debounce
  BY <1>1, <1>2, <1>4, SampleTells
<1>6. /\ filter.quietUntil = (IF seen.asked = None THEN 0 ELSE seen.asked + Quiet)
      /\ filter.lowSince # None =>
           /\ seen.low # None /\ seen.low <= filter.lowSince
           /\ filter.quietUntil <= filter.lowSince
  BY DEF PassInv, FilterTells
<1>7. /\ seen.low \in Nat \cup {None} /\ seen.asked \in Nat \cup {None}
      /\ filter.lowSince \in Nat \cup {None} /\ filter.quietUntil \in Nat
      /\ None \notin Nat
  BY <1>1, RequestAssumption DEF Seen, Filter
<1>8. ~(host /\ Told.quietUntil <= now)
  BY <1>1, <1>4
<1>9. filter'.pressed => raw /\ ~host
  BY <1>5, <1>8
<1>10. FilterTells'
  <2>1. filter'.quietUntil = (IF seen'.asked = None THEN 0 ELSE seen'.asked + Quiet)
    BY <1>1, <1>2, <1>4, <1>5, <1>6, <1>7
  <2>2. filter'.lowSince # None =>
           /\ seen'.low # None /\ seen'.low <= filter'.lowSince
           /\ filter'.quietUntil <= filter'.lowSince
    <3> SUFFICES ASSUME filter'.lowSince # None
                 PROVE  /\ seen'.low # None /\ seen'.low <= filter'.lowSince
                        /\ filter'.quietUntil <= filter'.lowSince
      OBVIOUS
    <3>1. raw /\ ~host /\ filter'.quietUntil = filter.quietUntil
            /\ filter.quietUntil <= now
      BY <1>4, <1>5, <1>8
    <3>2. CASE filter.lowSince = None
      <4>1. filter'.lowSince = now
        BY <1>5, <3>2
      <4>2. seen'.low \in Nat /\ seen'.low <= now
        BY <1>1, <1>2, <1>7, <3>1 DEF PassInv, PassTypeOK, FilterTells
      <4> QED
        BY <1>1, <1>7, <3>1, <4>1, <4>2
    <3>3. CASE filter.lowSince # None
      BY <1>1, <1>2, <1>5, <1>6, <1>7, <3>1, <3>3
    <3> QED
      BY <3>2, <3>3
  <2>3. seen'.low # None => seen'.low <= at'
    <3>1. at' = now /\ at \in Nat /\ at <= now
      BY <1>1 DEF StartPass, PassInv, PassTypeOK
    <3>2. seen.low # None => seen.low <= at
      BY DEF PassInv, FilterTells
    <3> QED
      BY <1>1, <1>2, <1>7, <3>1, <3>2
  <2> QED
    BY <2>1, <2>2, <2>3 DEF FilterTells
<1>11. ASSUME ~filter.pressed, filter'.pressed
       PROVE  /\ seen'.low # None /\ now - seen'.low >= Debounce
              /\ seen'.asked # None => now - seen'.asked >= Quiet + Debounce
  <2>1. /\ filter.lowSince # None /\ now - filter.lowSince >= Debounce
        /\ raw /\ ~host
    BY <1>5, <1>9, <1>11
  <2>2. seen'.low = seen.low /\ seen'.asked = seen.asked
    BY <1>2, <1>6, <2>1
  <2> QED
    BY <1>1, <1>6, <1>7, <2>1, <2>2
<1> QED
  BY <1>2, <1>3, <1>5, <1>9, <1>10, <1>11

\* The controller a pass works with: the one there is, or a new one.
LEMMA ThisSound ==
  ASSUME PassInv, StartPass
  PROVE  LET c == ThisController(filter', now)
         IN  /\ Sound(c) /\ c.now <= now
             /\ ctl # None => c = ctl
             /\ ctl = None => c.phase = "StartupPa" /\ c.pressed = filter'.pressed
             /\ c.phase \in Active => c.pressed
<1> DEFINE c == ThisController(filter', now)
<1>1. now \in 0..MaxMs /\ now \in Nat /\ at \in Nat /\ at <= now
  BY BoundAssumption DEF PassInv, PassTypeOK
<1>2. CASE ctl # None
  <2>1. c = ctl
    BY <1>2 DEF ThisController
  <2>2. Sound(ctl) /\ ctl.now <= at /\ ctl.now \in Nat
    BY <1>2, BoundAssumption DEF PassInv, Sound, Controller
  <2>3. ctl.phase \in Active => ctl.pressed
    BY <1>2 DEF PassInv
  <2> QED
    BY <1>1, <1>2, <2>1, <2>2, <2>3
<1>3. CASE ctl = None
  <2>1. c = NewController(Instance, filter'.pressed, now)
    BY <1>3 DEF ThisController
  <2>2. filter'.pressed \in BOOLEAN
    BY StartFilter DEF Filter
  <2>3. /\ c \in Controller /\ c.phase = "StartupPa" /\ ~c.fault /\ c.now = now
        /\ c.pressed = filter'.pressed
    BY <1>1, <2>1, <2>2, BoundAssumption DEF NewController, Controller, Phase, Pending
  <2>4. Sound(c)
    BY <2>3 DEF Sound, Active, Entering
  <2> HIDE DEF c
  <2>5. c.phase \notin Active /\ c.now <= now
    BY <1>1, <2>3 DEF Active, Entering
  <2>6. /\ Sound(c) /\ c.now <= now
        /\ ctl # None => c = ctl
        /\ ctl = None => c.phase = "StartupPa" /\ c.pressed = filter'.pressed
        /\ c.phase \in Active => c.pressed
    BY <1>3, <2>3, <2>4, <2>5
  <2> QED
    BY <2>6 DEF c
<1> QED
  BY <1>2, <1>3

LEMMA StartKeeps ==
  ASSUME PassInv, StartPass
  PROVE  PassInv'
<1> DEFINE c == ThisController(filter', now)
           event == Event(filter.pressed, filter'.pressed)
<1>a. /\ now \in 0..MaxMs /\ now \in Nat /\ raw \in BOOLEAN
      /\ filter.pressed \in BOOLEAN
  BY BoundAssumption DEF PassInv, PassTypeOK, Filter
<1>b. /\ at' = now /\ now' = now /\ host' = FALSE /\ raw' = raw
      /\ policy' \in SUBSET Request /\ current' \in Request
  BY DEF StartPass
<1>1. /\ now \in 0..MaxMs /\ now \in Nat /\ at' = now /\ now' = now
      /\ host' \in BOOLEAN /\ raw' \in BOOLEAN
      /\ policy' \in SUBSET Request /\ current' \in Request
      /\ filter.pressed \in BOOLEAN
  BY <1>a, <1>b
<1>2. /\ FilterTells' /\ filter' \in Filter /\ seen' \in Seen
      /\ filter'.pressed \in BOOLEAN
  BY StartFilter DEF Filter
<1>3. /\ Sound(c) /\ c.now <= now
      /\ ctl # None => c = ctl
      /\ ctl = None => c.pressed = filter'.pressed
      /\ c.phase \in Active => c.pressed
  BY ThisSound
<1>4. \/ ctl = None /\ UNCHANGED <<ctl, turn, left>>
      \/ /\ ctl' = Handle(c, now, event, policy', current')
         /\ turn' = "effects" /\ left' = MaxEffects
  BY DEF StartPass, Share
<1>5. /\ event.type = "Pressed" <=> ~filter.pressed /\ filter'.pressed
      /\ event.type = "Released" <=> filter.pressed /\ ~filter'.pressed
      /\ event.type # "Completed"
  BY <1>1, <1>2, EventEdge
<1>6. c.pressed \in BOOLEAN /\ c.now \in Nat
  BY <1>3, BoundAssumption DEF Sound, Controller
<1> HIDE DEF c, event
<1>7. CASE ctl = None /\ UNCHANGED <<ctl, turn, left>>
  <2>1. turn' = "wait"
    BY <1>7 DEF StartPass
  <2>2. PassTypeOK'
    BY <1>1, <1>2, <1>7 DEF PassInv, PassTypeOK
  <2> QED
    BY <1>2, <1>7, <2>1, <2>2 DEF PassInv
<1>8. CASE /\ ctl' = Handle(c, now, event, policy', current')
           /\ turn' = "effects" /\ left' = MaxEffects
  <2>1. ~(now < c.now)
    BY <1>1, <1>3, <1>6
  <2>2. /\ Sound(ctl') /\ ctl' \in Controller
        /\ ctl'.now \in {c.now, now}
    BY <1>1, <1>3, <1>5, <1>8, HandleSound, HandleNow DEF Sound
  <2>3. /\ ctl'.pressed =
             CASE event.type = "Pressed" -> TRUE
               [] event.type = "Released" -> FALSE
               [] OTHER -> c.pressed
        /\ Standing(ctl', policy', current')
    BY <1>1, <1>3, <1>5, <1>8, <2>1, HandleStanding
  <2>4. ctl'.pressed = filter'.pressed
    <3>1. ctl # None => c.pressed = filter.pressed
      BY <1>3 DEF PassInv
    <3>2. CASE event.type = "Pressed"
      BY <1>2, <1>5, <2>3, <3>2
    <3>3. CASE event.type = "Released"
      BY <1>2, <1>5, <2>3, <3>3
    <3>4. CASE event.type # "Pressed" /\ event.type # "Released"
      <4>1. ctl'.pressed = c.pressed
        BY <2>3, <3>4
      <4>2. filter'.pressed = filter.pressed
        BY <1>1, <1>2, <1>5, <3>4
      <4> QED
        BY <1>3, <3>1, <4>1, <4>2
    <3> QED
      BY <3>2, <3>3, <3>4
  <2>5. PassTypeOK'
    BY <1>1, <1>2, <1>8, <2>2, PassAssumption DEF PassInv, PassTypeOK
  <2>6. ctl'.now <= at'
    BY <1>1, <1>3, <2>2
  <2>7. ctl' # None
    BY <2>2, ControllerAssumption
  <2> QED
    BY <1>2, <1>8, <2>2, <2>3, <2>4, <2>5, <2>6, <2>7 DEF PassInv, Standing
<1> QED
  BY <1>4, <1>7, <1>8

LEMMA EffectKeeps ==
  ASSUME PassInv, RunEffect
  PROVE  /\ PassInv'
         /\ Need(ctl'.phase) < Need(ctl.phase) \/ Need(ctl'.phase) = 0
<1>1. /\ ctl # None /\ Sound(ctl) /\ ctl \in Controller /\ ctl.phase \in Pending
      /\ ctl.now <= at /\ ctl.now \in Nat
      /\ ctl.pressed = filter.pressed
      /\ ctl.phase \in Active => ctl.pressed
      /\ at \in 0..MaxMs /\ at \in Nat /\ now \in Nat /\ at <= now
      /\ policy \in SUBSET Request /\ current \in Request
      /\ turn = "effects"
  BY BoundAssumption
  DEF PassInv, PassTypeOK, RunEffect, EffectDue, Sound, Controller
<1>2. PICK applied \in BOOLEAN :
        ctl' = Handle(ctl, at,
                      IF EffectGranted(ctl, policy, current)
                        THEN Completed(Id(ctl), applied) ELSE Invalidation,
                      policy, current)
  BY DEF RunEffect
<1> DEFINE event == IF EffectGranted(ctl, policy, current)
                      THEN Completed(Id(ctl), applied) ELSE Invalidation
<1>3. /\ event.type \in {"Completed", "Invalidated"}
      /\ event.type = "Completed" => event.applied \in BOOLEAN
      /\ \/ event.type = "Completed" /\ event.id = Id(ctl) /\ event.applied \in BOOLEAN
         \/ event.type = "Invalidated" /\ ctl.phase \in Active
  BY <1>1 DEF Completed, Invalidation, EffectGranted, EffectDue
<1>4. ctl' = Handle(ctl, at, event, policy, current)
  BY <1>2
<1> HIDE DEF event
<1>5. ~(at < ctl.now)
  BY <1>1
<1>6. /\ Sound(ctl') /\ ctl' \in Controller /\ ctl'.now \in {ctl.now, at}
  BY <1>1, <1>3, <1>4, HandleSound, HandleNow DEF Sound
<1>7. ctl'.pressed = ctl.pressed /\ Standing(ctl', policy, current)
  BY <1>1, <1>3, <1>4, <1>5, HandleStanding
<1>8. Need(ctl'.phase) < Need(ctl.phase) \/ Need(ctl'.phase) = 0
  BY <1>1, <1>3, <1>4, <1>5, ReportNeeds
<1>9. PassTypeOK'
  <2>1. UNCHANGED <<now, policy, current, filter, raw, host, at, turn, seen>>
    BY DEF RunEffect
  <2>2. left' \in 0..MaxEffects
    <3>1. left' = left - 1 /\ left > 0
      BY DEF RunEffect
    <3> QED
      BY <3>1, PassAssumption DEF PassInv, PassTypeOK
  <2> QED
    BY <1>6, <2>1, <2>2 DEF PassInv, PassTypeOK
<1>10. UNCHANGED <<filter, seen, at, turn, policy, current>> /\ ctl' # None
  BY <1>6, ControllerAssumption DEF RunEffect
<1>11. FilterTells'
  BY <1>10 DEF PassInv, FilterTells
<1>12. ctl'.now <= at'
  BY <1>1, <1>6, <1>10
<1> QED
  BY <1>1, <1>6, <1>7, <1>8, <1>9, <1>10, <1>11, <1>12 DEF PassInv, Standing

LEMMA OthersKeep ==
  ASSUME PassInv, EndPass \/ MoveKey \/ HostRequest \/ PassTime \/ UNCHANGED passVars
  PROVE  PassInv'
<1>1. UNCHANGED <<ctl, policy, current, filter, at, seen>>
  BY DEF EndPass, MoveKey, HostRequest, PassTime, AdvanceTime, passVars, ctlVars
<1>2. turn' = turn \/ turn' = "wait"
  BY DEF EndPass, MoveKey, HostRequest, PassTime, AdvanceTime, passVars, ctlVars
<1>3. now' \in 0..MaxMs /\ at' \in 0..now'
  BY <1>1, BoundAssumption
  DEF EndPass, MoveKey, HostRequest, PassTime, AdvanceTime, passVars, ctlVars,
      PassInv, PassTypeOK
<1>4. raw' \in BOOLEAN /\ host' \in BOOLEAN
  BY DEF EndPass, MoveKey, HostRequest, PassTime, passVars, PassInv, PassTypeOK
<1>5. turn' \in {"wait", "effects"} /\ left' \in 0..MaxEffects
  <2>1. 0 \in 0..MaxEffects
    BY PassAssumption
  <2>2. left' = left \/ left' = 0
    BY DEF EndPass, MoveKey, HostRequest, PassTime, passVars
  <2> QED
    BY <1>2, <2>1, <2>2 DEF PassInv, PassTypeOK
<1>6. PassTypeOK' /\ FilterTells'
  BY <1>1, <1>3, <1>4, <1>5 DEF PassInv, PassTypeOK, FilterTells
<1> QED
  BY <1>1, <1>2, <1>6 DEF PassInv

LEMMA InitPassInv == PassInit => PassInv
<1> SUFFICES ASSUME PassInit PROVE PassInv
  OBVIOUS
<1>1. now \in 0..MaxMs /\ at \in 0..now
  BY BoundAssumption DEF PassInit
<1>2. filter \in Filter /\ seen \in Seen /\ FilterTells
  BY BoundAssumption, PassAssumption
  DEF PassInit, NewFilter, Filter, Seen, FilterTells
<1> QED
  <2>1. 0 \in 0..MaxEffects
    BY PassAssumption
  <2>2. PassTypeOK
    BY <1>1, <1>2, <2>1 DEF PassInit, PassTypeOK
  <2> QED
    BY <1>2, <2>2 DEF PassInit, PassInv

LEMMA PassInvariance == PassSpec => []PassInv
<1>1. PassInv /\ [PassNext]_passVars => PassInv'
  BY StartKeeps, EffectKeeps, OthersKeep DEF PassNext
<1> QED
  BY <1>1, InitPassInv, PTL DEF PassSpec

-----------------------------------------------------------------------------
(* The theorems.                                                           *)

\* The controller, the filter and the pass stay well formed.
THEOREM PassTypeCorrect == PassSpec => []PassTypeOK
<1>1. PassInv => PassTypeOK
  BY DEF PassInv
<1> QED
  BY <1>1, PassInvariance, PTL

\* The controller's key and the filter's never differ, whatever edges the key
\* and the host requests make between passes.
THEOREM KeysAgree == PassSpec => []KeyAgrees
<1>1. PassInv => KeyAgrees
  BY DEF PassInv, KeyAgrees
<1> QED
  BY <1>1, PassInvariance, PTL

\* No entry effect of a pass is refused for its facts.
THEOREM NothingRefused == PassSpec => []NoRefusalInPass
<1>1. PassInv => NoRefusalInPass
  BY DEF PassInv, NoRefusalInPass, EffectGranted, Standing
<1> QED
  BY <1>1, PassInvariance, PTL

\* A lifted key and a host request end any transmission in the pass that sees
\* them.
THEOREM StopsAtOnce == PassSpec => StopsInThePass
<1>1. PassInv /\ [PassNext]_passVars =>
        [ (StartPass /\ ctl # None /\ (~raw \/ host)) => ctl'.phase \notin Active ]_passVars
  <2> SUFFICES ASSUME PassInv, StartPass, ctl # None, ~raw \/ host
               PROVE  ctl'.phase \notin Active
    OBVIOUS
  <2>1. PassInv'
    BY StartKeeps
  <2>2. ~filter'.pressed
    BY StartFilter
  <2>3. ctl' # None
    <3>1. CASE UNCHANGED <<ctl, turn, left>>
      BY <3>1
    <3>2. CASE turn' = "effects"
      BY <2>1, <3>2 DEF PassInv
    <3> QED
      BY <3>1, <3>2 DEF StartPass
  <2> QED
    BY <2>1, <2>2, <2>3 DEF PassInv
<1> QED
  BY <1>1, PassInvariance, PTL DEF PassSpec, StopsInThePass

\* An entry begins only on a key held for the debounce, clear of host requests.
THEOREM SteadyKeyNeeded == PassSpec => EntryNeedsSteadyKey
<1>1. PassInv /\ [PassNext]_passVars =>
        [ (ctl # None /\ ctl.phase = "Idle" /\ ctl'.phase = "EntryPa") =>
            /\ seen'.low # None /\ at' - seen'.low >= Debounce
            /\ seen'.asked # None => at' - seen'.asked >= Quiet + Debounce ]_passVars
  <2> SUFFICES ASSUME PassInv, PassNext, ctl # None, ctl.phase = "Idle",
                      ctl'.phase = "EntryPa"
               PROVE  /\ seen'.low # None /\ at' - seen'.low >= Debounce
                      /\ seen'.asked # None => at' - seen'.asked >= Quiet + Debounce
    BY DEF passVars, ctlVars
  <2>1. StartPass
    <3>1. ~RunEffect
      BY DEF RunEffect, EffectDue, Pending
    <3> QED
      BY <3>1 DEF PassNext, EndPass, MoveKey, HostRequest, PassTime, AdvanceTime, ctlVars
  <2> DEFINE c == ThisController(filter', now)
             event == Event(filter.pressed, filter'.pressed)
  <2>2. c = ctl /\ Sound(ctl) /\ ctl.now <= now
    BY <2>1, ThisSound
  <2>3. ctl' = Handle(c, now, event, policy', current')
    BY <2>1 DEF StartPass
  <2>4. now \in 0..MaxMs /\ at' = now /\ ~(now < ctl.now)
    BY <2>1, <2>2, BoundAssumption DEF StartPass, PassInv, PassTypeOK, Sound, Controller
  <2> HIDE DEF c, event
  <2>5. event.type = "Pressed"
    BY <2>2, <2>3, <2>4, HandleEntry
  <2>6. filter.pressed \in BOOLEAN /\ filter'.pressed \in BOOLEAN
    BY <2>1, StartFilter DEF PassInv, PassTypeOK, Filter
  <2>7. ~filter.pressed /\ filter'.pressed
    BY <2>5, <2>6, EventEdge DEF event
  <2> QED
    BY <2>1, <2>4, <2>7, StartFilter
<1> QED
  BY <1>1, PassInvariance, PTL DEF PassSpec, EntryNeedsSteadyKey

\* With a share of at least eight effects a pass leaves at most the last disable
\* of a doubly failed shutdown to the next.
THEOREM PassesSettle == MaxEffects >= 8 => (PassSpec => []PassSettles)
<1> SUFFICES ASSUME MaxEffects >= 8 PROVE PassSpec => []PassSettles
  OBVIOUS
<1>1. PassInit => Settling
  BY DEF PassInit, Settling
<1>2. PassInv /\ Settling /\ [PassNext]_passVars => Settling'
  <2> SUFFICES ASSUME PassInv, Settling, [PassNext]_passVars, ctl' # None
               PROVE  Need(ctl'.phase) <= IF turn' = "effects" THEN left' ELSE 0
    BY DEF Settling
  <2>1. PassInv'
    BY StartKeeps, EffectKeeps, OthersKeep DEF PassNext
  <2>2. ctl' \in Controller /\ Need(ctl'.phase) \in 0..8
    BY <2>1, NeedType DEF PassInv, PassTypeOK, Controller
  <2>3. left \in Nat /\ MaxEffects \in Nat
    BY PassAssumption DEF PassInv, PassTypeOK
  <2>4. CASE StartPass
    <3>1. turn' = "effects" /\ left' = MaxEffects
      BY <2>4 DEF StartPass, Share
    <3> QED
      BY <2>2, <2>3, <3>1
  <2>5. CASE RunEffect
    <3>1. /\ ctl # None /\ turn = "effects" /\ turn' = "effects"
          /\ left' = left - 1 /\ left > 0
          /\ ctl \in Controller
      BY <2>5 DEF RunEffect, PassInv, PassTypeOK
    <3>2. Need(ctl.phase) <= left /\ Need(ctl.phase) \in 0..8
      BY <3>1, NeedType DEF Settling, Controller
    <3> QED
      BY <2>2, <2>3, <2>5, <3>1, <3>2, EffectKeeps
  <2>6. CASE EndPass
    <3>1. /\ ctl' = ctl /\ turn = "effects" /\ turn' = "wait" /\ ctl # None
          /\ left = 0 \/ ctl.phase \notin Pending
      BY <2>6 DEF EndPass, ctlVars, PassInv, EffectDue
    <3>2. Need(ctl.phase) <= left
      BY <3>1 DEF Settling
    <3>3. ctl.phase \notin Pending => Need(ctl.phase) = 0
      BY DEF Need, Pending
    <3> QED
      BY <2>2, <3>1, <3>2, <3>3
  <2>7. CASE MoveKey \/ HostRequest \/ PassTime \/ UNCHANGED passVars
    BY <2>7 DEF MoveKey, HostRequest, PassTime, AdvanceTime, ctlVars, passVars, Settling
  <2> QED
    BY <2>4, <2>5, <2>6, <2>7 DEF PassNext
<1>3. PassInv /\ Settling => PassSettles
  <2> SUFFICES ASSUME PassInv, Settling, ctl # None, turn = "wait"
               PROVE  ctl.phase \in {"Idle", "Transmitting", "Faulted", "FaultTx"}
    BY DEF PassSettles
  <2>1. ctl.phase \in Phase
    BY DEF PassInv, PassTypeOK, Controller
  <2>2. Need(ctl.phase) <= 0
    BY DEF Settling
  <2> QED
    BY <2>1, <2>2 DEF Need, Phase, Pending
<1> QED
  BY <1>1, <1>2, <1>3, PassInvariance, PTL DEF PassSpec
=============================================================================
