--------------------------- MODULE TxSystem_proofs ---------------------------
(***************************************************************************)
(* Proofs about TxSystem, for every set of requests, timeouts, clock range *)
(* and cycle range, over any number of restarts.                           *)
(*                                                                         *)
(* The inductive invariant has three parts: the controller is Sound; every *)
(* identity issued since the start is past, except that of the one report  *)
(* still owed; and the chip is, phase by phase, as the effects so far left *)
(* it (ChipAgrees).                                                        *)
(***************************************************************************)
EXTENDS TxSystem, TxControl_proofs

\* The report owed is of the pending effect, and of one that was applied.
Outstanding == owed # None /\ owed.id = Id(ctl)
Done == Outstanding /\ owed.applied

IssuedArePast ==
    /\ owed # None => owed.id \in issued
    /\ \A i \in issued :
         Past(i, ctl) \/ (i = Id(ctl) /\ owed # None /\ owed.id = i)

PaOff(k) == ~k.pin /\ ~k.paBit
Quiet(k) == PaOff(k) /\ ~k.mode
Ready(k, s, r) == k.state = s /\ k.tuned = r

ChipAgrees ==
    /\ ctl.phase \in {"StartupReceive", "ExitReceive", "Idle", "EntryPa", "Prepare"} =>
         Quiet(chip)
    /\ ctl.phase = "Prepare" /\ Done =>
         Ready(chip, "PreparedTransmit", ctl.accepted)
    /\ ctl.phase = "TxOn" =>
         /\ PaOff(chip)
         /\ ~Outstanding => ~chip.mode /\ Ready(chip, "PreparedTransmit", ctl.accepted)
         /\ Done => chip.mode /\ Ready(chip, "Transmitting", ctl.accepted)
    /\ ctl.phase = "PaOn" =>
         /\ ~Outstanding =>
              PaOff(chip) /\ chip.mode /\ Ready(chip, "Transmitting", ctl.accepted)
         /\ Done => OnAir(chip) /\ Ready(chip, "Transmitting", ctl.accepted)
    /\ ctl.phase = "Transmitting" =>
         OnAir(chip) /\ Ready(chip, "Transmitting", ctl.accepted)
    /\ ctl.phase \in {"StartupPa", "ExitPa"} /\ Done => PaOff(chip)
    /\ ctl.phase \in {"StartupTx", "ExitTx"} /\ ctl.shutdownOk => PaOff(chip)
    /\ ctl.phase \in {"StartupTx", "ExitTx"} /\ ctl.shutdownOk /\ Done => ~chip.mode

Inv ==
    /\ TypeOK
    /\ Sound(ctl) /\ ctl.now <= now
    /\ IssuedArePast
    /\ ChipAgrees

-----------------------------------------------------------------------------
(* What each effect does to the chip.                                      *)

LEMMA WithType ==
  ASSUME NEW k \in Chip, NEW on \in BOOLEAN
  PROVE  /\ WithPin(k, on) \in Chip
         /\ WithPin(k, on).pin = on
         /\ WithPin(k, on).mode = k.mode
         /\ WithPin(k, on).paBit = k.paBit
         /\ WithPin(k, on).state = k.state
         /\ WithPin(k, on).tuned = k.tuned
         /\ WithMode(k, on) \in Chip
         /\ WithMode(k, on).mode = on
         /\ WithMode(k, on).pin = k.pin
         /\ WithMode(k, on).paBit = k.paBit
         /\ WithMode(k, on).tuned = k.tuned
         /\ WithPaBit(k, on) \in Chip
         /\ WithPaBit(k, on).paBit = on
         /\ WithPaBit(k, on).pin = k.pin
         /\ WithPaBit(k, on).mode = k.mode
         /\ WithPaBit(k, on).state = k.state
         /\ WithPaBit(k, on).tuned = k.tuned
  BY DEF WithPin, WithMode, WithPaBit, Chip

\* A failure leaves the outputs of one of the conditions listed.
LEMMA FailEffect ==
  ASSUME NEW chips \in SUBSET Chip, NEW o \in Fail(chips)
  PROVE  \E k \in chips :
           /\ o.chip \in Chip /\ o.done = FALSE
           /\ o.chip.pin = k.pin /\ o.chip.mode = k.mode /\ o.chip.paBit = k.paBit
<1>1. PICK k \in chips : o = Outcome(Latched(k), FALSE)
  BY DEF Fail
<1> QED
  BY <1>1 DEF Outcome, Latched, Chip, DriverState

LEMMA ChipType ==
  ASSUME NEW k \in Chip
  PROVE  k.pin \in BOOLEAN /\ k.mode \in BOOLEAN /\ k.paBit \in BOOLEAN
  BY DEF Chip

LEMMA DisablePaEffect ==
  ASSUME NEW k \in Chip, NEW o \in DisablePa(k)
  PROVE  /\ o.chip \in Chip /\ o.done \in BOOLEAN
         /\ o.done => PaOff(o.chip)
         /\ Quiet(k) => Quiet(o.chip)
         /\ o.chip.pin => k.pin
         /\ o.chip.mode = k.mode
<1> DEFINE cleared == WithPaBit(k, FALSE)
           off == WithPin(cleared, FALSE)
<1>0. /\ cleared \in Chip /\ ~cleared.paBit
      /\ cleared.pin = k.pin /\ cleared.mode = k.mode
  BY WithType
<1> HIDE DEF cleared
<1>1. /\ k \in Chip /\ cleared \in Chip /\ off \in Chip
      /\ ~cleared.paBit /\ cleared.pin = k.pin /\ cleared.mode = k.mode
      /\ ~off.paBit /\ ~off.pin /\ off.mode = k.mode
  BY <1>0, WithType
<1> HIDE DEF off
<1>2. CASE o = Outcome(off, TRUE)
  BY <1>1, <1>2 DEF Outcome, PaOff, Quiet
<1>3. CASE o \in Fail({k, cleared, off})
  <2>1. {k, cleared, off} \in SUBSET Chip
    BY <1>1
  <2>2. PICK j \in {k, cleared, off} :
          /\ o.chip \in Chip /\ o.done = FALSE
          /\ o.chip.pin = j.pin /\ o.chip.mode = j.mode /\ o.chip.paBit = j.paBit
    BY <1>3, <2>1, FailEffect
  <2> QED
    BY <1>1, <1>3, <2>2 DEF PaOff, Quiet
<1> QED
  BY <1>2, <1>3 DEF DisablePa, cleared, off

LEMMA DisableTransmitEffect ==
  ASSUME NEW k \in Chip, NEW o \in DisableTransmit(k)
  PROVE  /\ o.chip \in Chip /\ o.done \in BOOLEAN
         /\ o.done => ~o.chip.mode
         /\ o.chip.mode => k.mode
         /\ o.chip.pin = k.pin /\ o.chip.paBit = k.paBit
<1> DEFINE neutral == WithMode(k, FALSE)
<1>1. neutral \in Chip /\ ~neutral.mode /\ neutral.pin = k.pin
        /\ neutral.paBit = k.paBit
  BY WithType
<1> HIDE DEF neutral
<1>2. CASE o = Outcome([neutral EXCEPT !.state = "Standby", !.tuned = None], TRUE)
  BY <1>1, <1>2 DEF Outcome, Chip, DriverState
<1>3. CASE o \in Fail({k, neutral})
  <2>1. {k, neutral} \in SUBSET Chip
    BY <1>1
  <2>2. PICK j \in {k, neutral} :
          /\ o.chip \in Chip /\ o.done = FALSE
          /\ o.chip.pin = j.pin /\ o.chip.mode = j.mode /\ o.chip.paBit = j.paBit
    BY <1>3, <2>1, FailEffect
  <2> QED
    BY <1>1, <1>3, <2>2
<1> QED
  BY <1>2, <1>3 DEF DisableTransmit, neutral

LEMMA RefusedEffect ==
  ASSUME NEW k \in Chip, NEW o \in Refused(k)
  PROVE  o.chip = k /\ o.done = FALSE
  BY DEF Refused, Outcome

LEMMA RestoreReceiveEffect ==
  ASSUME NEW k \in Chip, NEW o \in RestoreReceive(k)
  PROVE  /\ o.chip \in Chip /\ o.done \in BOOLEAN
         /\ Quiet(k) => Quiet(o.chip)
<1> DEFINE switched == WithPin(k, k.paBit)
           receive == WithMode(k, FALSE)
           both == WithMode(switched, FALSE)
<1>a. /\ switched \in Chip /\ switched.pin = k.paBit
      /\ switched.paBit = k.paBit /\ switched.mode = k.mode
  <2>1. k.paBit \in BOOLEAN
    BY ChipType
  <2> QED
    BY <2>1, WithType
<1> HIDE DEF switched
<1>b. /\ receive \in Chip /\ receive.pin = k.pin
      /\ receive.paBit = k.paBit /\ ~receive.mode
  BY WithType
<1>c. /\ both \in Chip /\ both.pin = k.paBit
      /\ both.paBit = k.paBit /\ ~both.mode
  BY <1>a, WithType
<1> HIDE DEF receive, both
<1>1. k \in Chip /\ switched \in Chip /\ receive \in Chip /\ both \in Chip
  BY <1>a, <1>b, <1>c
<1>2. CASE o \in Refused(k)
  BY <1>2, RefusedEffect
<1>3. ASSUME NEW s \in ReceivePath,
             o = Outcome([both EXCEPT !.state = s, !.tuned = None], TRUE)
      PROVE  /\ o.chip \in Chip /\ o.done \in BOOLEAN
             /\ Quiet(k) => Quiet(o.chip)
  BY <1>c, <1>3 DEF Outcome, Chip, DriverState, Quiet, PaOff, ReceivePath
<1>4. CASE o \in Fail({k, switched, receive, both})
  <2>1. {k, switched, receive, both} \in SUBSET Chip
    BY <1>1
  <2>2. PICK j \in {k, switched, receive, both} :
          /\ o.chip \in Chip /\ o.done = FALSE
          /\ o.chip.pin = j.pin /\ o.chip.mode = j.mode /\ o.chip.paBit = j.paBit
    BY <1>4, <2>1, FailEffect
  <2> QED
    BY <1>a, <1>b, <1>c, <2>2 DEF Quiet, PaOff
<1> QED
  BY <1>2, <1>3, <1>4 DEF RestoreReceive, switched, receive, both

LEMMA PrepareTransmitEffect ==
  ASSUME NEW k \in Chip, NEW r \in Request, NEW o \in PrepareTransmit(k, r)
  PROVE  /\ o.chip \in Chip /\ o.done \in BOOLEAN
         /\ Quiet(k) => Quiet(o.chip)
         /\ o.done => Ready(o.chip, "PreparedTransmit", r)
<1> DEFINE switched == WithPin(k, k.paBit)
<1>1. /\ switched \in Chip /\ switched.pin = k.paBit
      /\ switched.paBit = k.paBit /\ switched.mode = k.mode
  <2>1. k.paBit \in BOOLEAN
    BY ChipType
  <2> QED
    BY <2>1, WithType
<1> HIDE DEF switched
<1>2. CASE o \in Refused(k)
  BY <1>2, RefusedEffect
<1>3. CASE o = Outcome([switched EXCEPT !.state = "PreparedTransmit", !.tuned = r],
                       TRUE)
  BY <1>1, <1>3 DEF Outcome, Chip, DriverState, Quiet, PaOff, Ready
<1>4. CASE o \in Fail({k, switched})
  <2>1. {k, switched} \in SUBSET Chip
    BY <1>1
  <2>2. PICK j \in {k, switched} :
          /\ o.chip \in Chip /\ o.done = FALSE
          /\ o.chip.pin = j.pin /\ o.chip.mode = j.mode /\ o.chip.paBit = j.paBit
    BY <1>4, <2>1, FailEffect
  <2> QED
    BY <1>1, <1>4, <2>2 DEF Quiet, PaOff
<1> QED
  BY <1>2, <1>3, <1>4 DEF PrepareTransmit, switched

LEMMA EnableTransmitEffect ==
  ASSUME NEW k \in Chip, NEW r \in Request, NEW o \in EnableTransmit(k, r)
  PROVE  /\ o.chip \in Chip /\ o.done \in BOOLEAN
         /\ o.chip.pin = k.pin /\ o.chip.paBit = k.paBit
         /\ o.done => o.chip.mode /\ Ready(o.chip, "Transmitting", r)
<1> DEFINE keyed == WithMode(k, TRUE)
<1>1. /\ keyed \in Chip /\ keyed.mode /\ keyed.pin = k.pin
      /\ keyed.paBit = k.paBit /\ keyed.tuned = k.tuned
  BY WithType
<1> HIDE DEF keyed
<1>2. CASE o \in Refused(k)
  BY <1>2, RefusedEffect
<1>3. CASE /\ k.tuned = r
           /\ o = Outcome([keyed EXCEPT !.state = "Transmitting"], TRUE)
  BY <1>1, <1>3 DEF Outcome, Chip, DriverState, Ready
<1>4. CASE o \in Fail({k, keyed})
  <2>1. {k, keyed} \in SUBSET Chip
    BY <1>1
  <2>2. PICK j \in {k, keyed} :
          /\ o.chip \in Chip /\ o.done = FALSE
          /\ o.chip.pin = j.pin /\ o.chip.mode = j.mode /\ o.chip.paBit = j.paBit
    BY <1>4, <2>1, FailEffect
  <2> QED
    BY <1>1, <1>4, <2>2
<1> QED
  BY <1>2, <1>3, <1>4 DEF EnableTransmit, keyed

LEMMA EnablePaEffect ==
  ASSUME NEW k \in Chip, NEW r \in Request, NEW o \in EnablePa(k, r)
  PROVE  /\ o.chip \in Chip /\ o.done \in BOOLEAN
         /\ o.done /\ k.mode => OnAir(o.chip) /\ Ready(o.chip, "Transmitting", r)
         /\ o.chip # k => Ready(k, "Transmitting", r)
<1> DEFINE switched == WithPin(k, k.paBit)
           set == WithPaBit(switched, TRUE)
           on == WithPin(set, TRUE)
<1>a. /\ switched \in Chip /\ switched.mode = k.mode
      /\ switched.state = k.state /\ switched.tuned = k.tuned
  <2>1. k.paBit \in BOOLEAN
    BY ChipType
  <2> QED
    BY <2>1, WithType
<1> HIDE DEF switched
<1>b. /\ set \in Chip /\ set.mode = k.mode
      /\ set.state = k.state /\ set.tuned = k.tuned
  BY <1>a, WithType
<1> HIDE DEF set
<1>1. /\ switched \in Chip /\ set \in Chip
      /\ on \in Chip /\ on.pin /\ on.mode = k.mode
      /\ on.state = k.state /\ on.tuned = k.tuned
  BY <1>a, <1>b, WithType
<1> HIDE DEF on
<1>2. CASE o \in Refused(k)
  BY <1>2, RefusedEffect
<1>3. CASE k.state = "Transmitting" /\ k.tuned = r /\ o = Outcome(on, TRUE)
  BY <1>1, <1>3 DEF Outcome, Ready, OnAir
<1>4. CASE /\ k.state = "Transmitting" /\ k.tuned = r
           /\ o \in Fail({k, switched, set, on})
  <2>1. {k, switched, set, on} \in SUBSET Chip
    BY <1>1
  <2>2. PICK j \in {k, switched, set, on} :
          /\ o.chip \in Chip /\ o.done = FALSE
          /\ o.chip.pin = j.pin /\ o.chip.mode = j.mode /\ o.chip.paBit = j.paBit
    BY <1>4, <2>1, FailEffect
  <2> QED
    BY <1>1, <1>4, <2>2 DEF Ready
<1> QED
  BY <1>2, <1>3, <1>4 DEF EnablePa, switched, set, on

-----------------------------------------------------------------------------
(* Steps that report no effect.                                            *)

LEMMA NotPresent ==
  ASSUME NEW c \in Controller, NEW d \in Controller, NEW i \in EffectId,
         Past(i, c) \/ i = Id(c),
         Kept(c, d) \/ Stopped(c, d)
  PROVE  i = Id(d) => i = Id(c) /\ Kept(c, d)
<1>1. CASE Kept(c, d)
  BY <1>1 DEF Kept
<1>2. CASE Stopped(c, d)
  BY <1>2, PastStays, PastIsNotPresent DEF Stopped
<1> QED
  BY <1>1, <1>2

LEMMA DriftKeeps ==
  ASSUME Inv, ctl' \in Controller, Drifts(ctl, ctl'),
         UNCHANGED <<chip, issued>>,
         owed' = owed \/ (owed' = None /\ (Kept(ctl, ctl') => ~Outstanding))
  PROVE  IssuedArePast' /\ ChipAgrees'
<1>1. ctl \in Controller /\ issued \in SUBSET EffectId
  BY DEF Inv, TypeOK, CtlTypeOK
<1>2. \A i \in issued : Past(i, ctl) \/ i = Id(ctl)
  BY DEF Inv, IssuedArePast
<1>3. CASE Kept(ctl, ctl')
  <2>1. /\ Id(ctl') = Id(ctl) /\ ctl'.phase = ctl.phase
        /\ ctl'.accepted = ctl.accepted /\ ctl'.shutdownOk = ctl.shutdownOk
    BY <1>3 DEF Kept, Id
  <2>2. Outstanding' <=> Outstanding
    BY <1>3, <2>1 DEF Outstanding
  <2>3. Done' <=> Done
    BY <2>1, <2>2 DEF Outstanding, Done
  <2>4. ChipAgrees'
    BY <2>1, <2>2, <2>3 DEF Inv, ChipAgrees
  <2>5. \A i \in issued : Past(i, ctl) => Past(i, ctl')
    BY <2>1 DEF Past, Id
  <2>6. IssuedArePast'
    BY <1>3, <2>1, <2>5 DEF Inv, IssuedArePast, Outstanding
  <2> QED
    BY <2>4, <2>6
<1>4. CASE Past(ctl, ctl') /\ ctl'.phase \in {"ExitPa", "Faulted", "EntryPa"}
             /\ (ctl'.phase = "EntryPa" => ctl.phase = "Idle")
  <2>1. \A i \in issued : Past(i, ctl') /\ i # Id(ctl')
    BY <1>1, <1>2, <1>4, PastStays, PastIsNotPresent
  <2>2. IssuedArePast'
    BY <2>1 DEF Inv, IssuedArePast
  <2>3. ~Outstanding'
    BY <2>1, <2>2 DEF Outstanding, IssuedArePast
  <2>4. ChipAgrees'
    BY <1>4, <2>3 DEF Inv, ChipAgrees, Done
  <2> QED
    BY <2>2, <2>4
<1> QED
  BY <1>3, <1>4 DEF Drifts, Stopped, Spent, Begun

LEMMA DeliverKeeps ==
  ASSUME Inv, NEW event, NEW t \in 0..MaxMs, t <= now,
         ctl' = Handle(ctl, t, event, policy, current),
         event.type = "Completed" =>
           event.applied \in BOOLEAN /\ ~Reports(Observe(ctl, t, policy, current), event),
         UNCHANGED <<now, policy, current, chip, issued>>,
         owed' = owed \/ (owed' = None /\ ~Outstanding)
  PROVE  Inv'
<1>1. /\ Sound(ctl) /\ policy \in SUBSET Request /\ current \in Request
  BY DEF Inv, TypeOK, CtlTypeOK
<1>2. Sound(ctl')
  BY <1>1, HandleSound
<1>3. Drifts(ctl, ctl')
  BY <1>1, HandleDrifts
<1>4. TypeOK'
  BY <1>2 DEF Inv, TypeOK, CtlTypeOK, Sound
<1>5. ctl'.now <= now'
  <2>1. ctl'.now \in {ctl.now, t}
    BY <1>1, HandleNow
  <2> QED
    BY <2>1 DEF Inv
<1> QED
  BY <1>2, <1>3, <1>4, <1>5, DriftKeeps DEF Inv, Sound

LEMMA EventsKeep ==
  ASSUME Inv, Events
  PROVE  Inv'
<1>1. now \in 0..MaxMs /\ ctl.now \in 0..MaxMs /\ ctl.now <= now
  BY DEF Inv, TypeOK, CtlTypeOK, Controller
<1>2. ASSUME NEW event, Deliver(event), event.type # "Completed",
             UNCHANGED <<chip, owed, issued>>
      PROVE  Inv'
  BY <1>1, <1>2, DeliverKeeps DEF Deliver
<1>3. CASE ClockBack
  <2>1. ctl.now - 1 \in 0..MaxMs /\ ctl.now - 1 <= now
    BY <1>1, <1>3, BoundAssumption DEF ClockBack
  <2>2. TickEvent.type # "Completed"
    BY DEF TickEvent
  <2> QED
    BY <1>3, <2>1, <2>2, DeliverKeeps DEF ClockBack, Events
<1> QED
  BY <1>2, <1>3 DEF Events, Press, Release, Tick, Invalidate, Fault,
     PressedEvent, ReleasedEvent, TickEvent, Invalidation, TargetFault

LEMMA RejectKeeps ==
  ASSUME Inv, RejectEffect
  PROVE  Inv'
<1>1. now \in 0..MaxMs /\ Invalidation.type # "Completed"
  BY DEF Inv, TypeOK, CtlTypeOK, Invalidation
<1> QED
  BY <1>1, DeliverKeeps DEF RejectEffect, Invalidate, Deliver

\* A second report of an effect names a past identity, and is only a note.
LEMMA RedeliverKeeps ==
  ASSUME Inv, Redeliver
  PROVE  Inv'
<1>1. PICK id \in issued, applied \in BOOLEAN :
        /\ owed # None => owed.id # id
        /\ Deliver(Completed(id, applied))
  BY DEF Redeliver
<1> DEFINE event == Completed(id, applied)
           o == Observe(ctl, now, policy, current)
<1>2. /\ now \in 0..MaxMs /\ issued \in SUBSET EffectId
      /\ ctl \in Controller /\ Sound(ctl)
  BY DEF Inv, TypeOK, CtlTypeOK
<1>3. event.type = "Completed" /\ event.applied \in BOOLEAN /\ event.id = id
  BY DEF Completed
<1>4. Past(id, ctl)
  BY <1>1 DEF Inv, IssuedArePast
<1>5. o \in Controller /\ (Kept(ctl, o) \/ Stopped(ctl, o))
  BY <1>2, ObserveSound, ObserveDrifts DEF Sound
<1>6. id # Id(o)
  BY <1>2, <1>4, <1>5, NotPresent, PastIsNotPresent
<1>7. ~Reports(o, event)
  BY <1>3, <1>6 DEF Reports
<1> HIDE DEF event, o
<1> QED
  BY <1>1, <1>2, <1>3, <1>7, DeliverKeeps DEF Redeliver, Deliver, event, o

LEMMA SurroundingsKeep ==
  ASSUME Inv, Surroundings
  PROVE  Inv'
<1>1. now' \in 0..MaxMs /\ now <= now' /\ ctl' = ctl /\ chip' = chip
        /\ owed' = owed /\ issued' = issued
        /\ policy' \in SUBSET Request /\ current' \in Request
  BY BoundAssumption
  DEF Surroundings, AdvanceTime, ChangeFacts, ctlVars, Inv, TypeOK, CtlTypeOK
<1>2. TypeOK'
  BY <1>1 DEF Inv, TypeOK, CtlTypeOK
<1>3. IssuedArePast' /\ ChipAgrees'
  BY <1>1 DEF Inv, IssuedArePast, ChipAgrees, Outstanding, Done
<1>4. Sound(ctl)' /\ ctl'.now <= now'
  BY <1>1 DEF Inv, TypeOK, CtlTypeOK, Controller
<1> QED
  BY <1>2, <1>3, <1>4 DEF Inv

LEMMA RetuneKeeps ==
  ASSUME Inv, Retune
  PROVE  Inv'
<1>1. PICK o \in RestoreReceive(chip) : chip' = o.chip
  BY DEF Retune
<1>2. ctl.phase = "Idle"
  BY DEF Retune, State, Inv, TypeOK, CtlTypeOK, Controller, Phase, Pending, Entering
<1>3. chip \in Chip /\ Quiet(chip)
  BY <1>2 DEF Inv, TypeOK, ChipAgrees
<1>4. chip' \in Chip /\ Quiet(chip')
  BY <1>1, <1>3, RestoreReceiveEffect
<1>5. UNCHANGED <<ctl, now, policy, current, owed, issued>>
  BY DEF Retune, ctlVars
<1>6. TypeOK'
  BY <1>4, <1>5 DEF Inv, TypeOK, CtlTypeOK
<1>7. IssuedArePast'
  BY <1>5 DEF Inv, IssuedArePast
<1>8. ChipAgrees'
  BY <1>2, <1>4, <1>5 DEF ChipAgrees
<1> QED
  BY <1>5, <1>6, <1>7, <1>8 DEF Inv

LEMMA RestartKeeps ==
  ASSUME Inv, Restart
  PROVE  Inv'
<1>1. PICK down \in BOOLEAN : ctl' = NewController(Instance, down, now')
  BY DEF Restart
<1>2. now' = 0 /\ now' \in 0..MaxMs
  BY BoundAssumption DEF Restart
<1>3. /\ ctl' \in Controller /\ ctl'.phase = "StartupPa" /\ ~ctl'.fault
      /\ ctl'.now = now'
  BY <1>1, <1>2, BoundAssumption DEF NewController, Controller, Phase, Pending
<1>4. Sound(ctl')
  BY <1>3 DEF Sound, Active, Entering
<1>5. chip' \in Chip
  BY DEF Restart, Reset, Chip, DriverState, Inv, TypeOK
<1>6. TypeOK'
  BY <1>2, <1>3, <1>5 DEF Restart, Inv, TypeOK, CtlTypeOK
<1>7. IssuedArePast'
  BY DEF Restart, IssuedArePast
<1>8. ChipAgrees'
  BY <1>3 DEF Restart, ChipAgrees, Done, Outstanding
<1> QED
  BY <1>2, <1>3, <1>4, <1>6, <1>7, <1>8 DEF Inv, Restart

-----------------------------------------------------------------------------
(* Executing the pending effect, and reporting it.                         *)

\* A report that counts moves to the phase the chip is already fit for.
LEMMA CompletionAgrees ==
  ASSUME Inv, NEW o \in Controller, o.phase = ctl.phase, o.accepted = ctl.accepted,
         o.shutdownOk = ctl.shutdownOk, o.phase \in Pending, Outstanding,
         CompletionOf(o, owed.applied, ctl'),
         UNCHANGED chip, ~Outstanding'
  PROVE  ChipAgrees'
<1>1. ~Done' /\ (Done <=> owed.applied)
  BY DEF Done
<1>2. CASE o.phase \in {"StartupPa", "ExitPa"}
  <2>1. /\ ctl'.phase \in {"StartupTx", "ExitTx"}
        /\ ctl'.shutdownOk = (ctl.shutdownOk /\ owed.applied)
    BY <1>2 DEF CompletionOf, AfterPaOff, Disabled, Entering
  <2>2. owed.applied => PaOff(chip)
    BY <1>1, <1>2 DEF Inv, ChipAgrees
  <2> QED
    BY <1>1, <2>1, <2>2 DEF ChipAgrees
<1>3. CASE o.phase \in {"StartupTx", "ExitTx"}
  <2>1. \/ ctl'.phase = "Faulted"
        \/ /\ ctl.shutdownOk /\ owed.applied
           /\ ctl'.phase \in {"StartupReceive", "ExitReceive"}
    BY <1>3 DEF CompletionOf, AfterTxOff, Disabled, Entering
  <2>2. ctl.shutdownOk /\ owed.applied => Quiet(chip)
    BY <1>1, <1>3 DEF Inv, ChipAgrees, Quiet
  <2> QED
    BY <1>1, <2>1, <2>2 DEF ChipAgrees
<1>4. CASE o.phase \in {"StartupReceive", "ExitReceive"}
  <2>1. ctl'.phase \in {"Idle", "Faulted", "FaultPa"}
    BY <1>4 DEF CompletionOf, Entering
  <2>2. Quiet(chip)
    BY <1>4 DEF Inv, ChipAgrees
  <2> QED
    BY <1>1, <2>1, <2>2 DEF ChipAgrees
<1>5. CASE o.phase \in Entering /\ owed.applied
  <2>1. ctl'.phase = NextEntry(ctl.phase) /\ ctl'.accepted = ctl.accepted
    BY <1>5 DEF CompletionOf, Entering
  <2>2. CASE ctl.phase = "EntryPa"
    BY <1>1, <2>1, <2>2 DEF NextEntry, Inv, ChipAgrees
  <2>3. CASE ctl.phase = "Prepare"
    BY <1>1, <1>5, <2>1, <2>3 DEF NextEntry, Inv, ChipAgrees, Quiet
  <2>4. CASE ctl.phase = "TxOn"
    BY <1>1, <1>5, <2>1, <2>4 DEF NextEntry, Inv, ChipAgrees
  <2>5. CASE ctl.phase = "PaOn"
    BY <1>1, <1>5, <2>1, <2>5 DEF NextEntry, Inv, ChipAgrees
  <2> QED
    BY <1>5, <2>2, <2>3, <2>4, <2>5 DEF Entering
<1>6. CASE o.phase \in Entering /\ ~owed.applied
  <2>1. ctl'.phase = "ExitPa"
    BY <1>6 DEF CompletionOf, Entering
  <2> QED
    BY <1>1, <2>1 DEF ChipAgrees
<1>7. CASE o.phase \in {"FaultPa", "FaultTx"}
  <2>1. ctl'.phase \in {"FaultTx", "Faulted"}
    BY <1>7 DEF CompletionOf, Entering
  <2> QED
    BY <2>1 DEF ChipAgrees
<1> QED
  BY <1>2, <1>3, <1>4, <1>5, <1>6, <1>7 DEF Pending, Entering

LEMMA AcknowledgeKeeps ==
  ASSUME Inv, Acknowledge
  PROVE  Inv'
<1> DEFINE event == Completed(owed.id, owed.applied)
           o == Observe(ctl, now, policy, current)
<1>1. /\ now \in 0..MaxMs /\ issued \in SUBSET EffectId
      /\ ctl \in Controller /\ Sound(ctl) /\ ctl.now <= now
      /\ policy \in SUBSET Request /\ current \in Request
  BY DEF Inv, TypeOK, CtlTypeOK
<1>2. owed # None /\ owed \in Report
  BY DEF Acknowledge, Inv, TypeOK
<1>3. /\ ctl' = Handle(ctl, now, event, policy, current)
      /\ owed' = None /\ UNCHANGED <<now, policy, current, chip, issued>>
  BY DEF Acknowledge, Deliver
<1>4. /\ event.type = "Completed" /\ event.id = owed.id
      /\ event.applied = owed.applied /\ event.applied \in BOOLEAN
  BY <1>2 DEF Completed, Report
<1>5. o \in Controller /\ Sound(o) /\ (Kept(ctl, o) \/ Stopped(ctl, o))
  BY <1>1, ObserveSound, ObserveDrifts DEF Sound
<1>6. owed.id \in issued /\ owed.id \in EffectId /\ owed.id.phase \in Pending
  BY <1>1, <1>2 DEF Inv, IssuedArePast, EffectId
<1>7. \A i \in issued : Past(i, ctl) \/ i = Id(ctl)
  BY DEF Inv, IssuedArePast
<1> HIDE DEF event, o
<1>8. CASE ~Reports(o, event)
  <2>1. ~Outstanding \/ ~Kept(ctl, o)
    <3>1. ASSUME Outstanding, Kept(ctl, o)
          PROVE  Reports(o, event)
      <4>1. owed.id = Id(o)
        BY <3>1 DEF Outstanding, Kept
      <4>2. o.phase \in Pending
        BY <1>6, <4>1 DEF Id
      <4> QED
        BY <1>4, <4>1, <4>2 DEF Reports
    <3> QED
      BY <1>8, <3>1
  <2>2. ctl' = o
    BY <1>1, <1>3, <1>4, <1>8 DEF Handle, OnEvent, o, Controller
  <2>3. Drifts(ctl, ctl') /\ ctl' \in Controller /\ Sound(ctl')
    BY <1>5, <2>2 DEF Drifts
  <2>4. IssuedArePast' /\ ChipAgrees'
    BY <1>3, <2>1, <2>2, <2>3, DriftKeeps
  <2>5. TypeOK'
    BY <1>3, <2>3 DEF Inv, TypeOK, CtlTypeOK
  <2>6. ctl'.now <= now'
    <3>1. ctl'.now \in {ctl.now, now}
      BY <1>1, <1>3, <1>4, HandleNow
    <3> QED
      BY <1>1, <1>3, <3>1
  <2> QED
    BY <2>3, <2>4, <2>5, <2>6 DEF Inv
<1>9. CASE Reports(o, event)
  <2>1. owed.id = Id(o) /\ o.phase \in Pending
    BY <1>4, <1>9 DEF Reports
  <2>2. owed.id = Id(ctl) /\ Kept(ctl, o)
    BY <1>1, <1>5, <1>6, <1>7, <2>1, NotPresent
  <2>3. /\ Id(o) = Id(ctl) /\ o.phase = ctl.phase
        /\ o.accepted = ctl.accepted /\ o.shutdownOk = ctl.shutdownOk
    BY <2>2 DEF Kept, Id
  <2>4. ctl' = Complete(o, owed.applied)
    BY <1>1, <1>3, <1>4, <1>9, HandleReports DEF o, Controller
  <2>5. /\ Sound(ctl') /\ ctl' \in Controller
        /\ CompletionOf(o, owed.applied, ctl') /\ Past(o, ctl')
    BY <1>4, <1>5, <2>1, <2>4, CompleteSound, CompleteLeads DEF Sound
  <2>6. \A i \in issued : Past(i, ctl')
    BY <1>1, <1>5, <1>7, <2>3, <2>5, PastStays DEF Past, Id
  <2>7. IssuedArePast' /\ ~Outstanding'
    BY <1>3, <2>6 DEF IssuedArePast, Outstanding
  <2>8. ChipAgrees'
    BY <1>2, <1>3, <1>5, <2>1, <2>2, <2>3, <2>5, <2>7, CompletionAgrees
    DEF Outstanding
  <2>9. TypeOK'
    BY <1>3, <2>5 DEF Inv, TypeOK, CtlTypeOK
  <2>10. ctl'.now <= now'
    <3>1. ctl'.now \in {ctl.now, now}
      BY <1>1, <1>3, <1>4, HandleNow
    <3> QED
      BY <1>1, <1>3, <3>1
  <2> QED
    BY <2>5, <2>7, <2>8, <2>9, <2>10 DEF Inv
<1> QED
  BY <1>8, <1>9

\* The pending effect is executed only with no report owed, so its identity is
\* new, and it leaves the chip as its phase promises.
LEMMA ExecuteKeeps ==
  ASSUME Inv, ExecuteEffect
  PROVE  Inv'
<1>1. /\ owed = None /\ ctl.phase \in Pending
      /\ ctl.phase \in Active => ctl.accepted = current
      /\ UNCHANGED <<ctl, now, policy, current>>
      /\ issued' = issued \cup {Id(ctl)}
  BY DEF ExecuteEffect, EffectGranted, EffectDue, StillAuthorised, ctlVars
<1>2. PICK o \in Execute(chip, Action(ctl.phase), current) :
        chip' = o.chip /\ owed' = [id |-> Id(ctl), applied |-> o.done]
  BY DEF ExecuteEffect
<1>3. chip \in Chip /\ current \in Request /\ ctl \in Controller
        /\ issued \in SUBSET EffectId
  BY DEF Inv, TypeOK, CtlTypeOK
<1>4. ~Outstanding
  BY <1>1 DEF Outstanding
<1>5. Id(ctl) \in EffectId
  BY <1>1, <1>3 DEF Id, EffectId, Controller
<1>6. Done' => o.done
  BY <1>2 DEF Done
<1>7. o.chip \in Chip /\ o.done \in BOOLEAN
  BY <1>2, <1>3, DisablePaEffect, DisableTransmitEffect, RestoreReceiveEffect,
     PrepareTransmitEffect, EnableTransmitEffect, EnablePaEffect DEF Execute
<1>8. owed' \in Report /\ owed' # None /\ Outstanding'
  BY <1>1, <1>2, <1>5, <1>7, NoneAssumption DEF Report, Outstanding
<1>9. ChipAgrees'
  <2>1. CASE ctl.phase \in {"StartupPa", "EntryPa", "ExitPa", "FaultPa"}
    <3>1. o \in DisablePa(chip)
      BY <1>2, <2>1 DEF Execute, Action
    <3> QED
      BY <1>1, <1>2, <1>3, <1>6, <2>1, <3>1, DisablePaEffect
      DEF Inv, ChipAgrees, Done, Outstanding
  <2>2. CASE ctl.phase \in {"StartupTx", "ExitTx", "FaultTx"}
    <3>1. o \in DisableTransmit(chip)
      BY <1>2, <2>2 DEF Execute, Action
    <3> QED
      BY <1>1, <1>2, <1>3, <1>6, <2>2, <3>1, DisableTransmitEffect
      DEF Inv, ChipAgrees, Done, Outstanding, PaOff
  <2>3. CASE ctl.phase \in {"StartupReceive", "ExitReceive"}
    <3>1. o \in RestoreReceive(chip)
      BY <1>2, <2>3 DEF Execute, Action
    <3> QED
      BY <1>1, <1>2, <1>3, <2>3, <3>1, RestoreReceiveEffect
      DEF Inv, ChipAgrees
  <2>4. CASE ctl.phase = "Prepare"
    <3>1. o \in PrepareTransmit(chip, current)
      BY <1>2, <2>4 DEF Execute, Action
    <3> QED
      BY <1>1, <1>2, <1>3, <1>6, <2>4, <3>1, PrepareTransmitEffect
      DEF Inv, ChipAgrees, Done, Outstanding, Active, Entering
  <2>5. CASE ctl.phase = "TxOn"
    <3>1. o \in EnableTransmit(chip, current)
      BY <1>2, <2>5 DEF Execute, Action
    <3> QED
      BY <1>1, <1>2, <1>3, <1>4, <1>6, <1>8, <2>5, <3>1, EnableTransmitEffect
      DEF Inv, ChipAgrees, Active, Entering, PaOff
  <2>6. CASE ctl.phase = "PaOn"
    <3>1. o \in EnablePa(chip, current)
      BY <1>2, <2>6 DEF Execute, Action
    <3> QED
      BY <1>1, <1>2, <1>3, <1>4, <1>6, <1>8, <2>6, <3>1, EnablePaEffect
      DEF Inv, ChipAgrees, Active, Entering
  <2> QED
    BY <1>1, <2>1, <2>2, <2>3, <2>4, <2>5, <2>6 DEF Pending
<1>10. TypeOK'
  BY <1>1, <1>2, <1>3, <1>5, <1>7, <1>8 DEF Inv, TypeOK, CtlTypeOK
<1>11. IssuedArePast'
  BY <1>1, <1>2, <1>8 DEF Inv, IssuedArePast
<1> QED
  BY <1>1, <1>9, <1>10, <1>11 DEF Inv

-----------------------------------------------------------------------------
(* The theorems.                                                           *)

LEMMA InitInv == Init => Inv
<1> SUFFICES ASSUME Init PROVE Inv
  OBVIOUS
<1>1. PICK down \in BOOLEAN : ctl = NewController(Instance, down, 0)
  BY DEF Init, CtlInit
<1>2. /\ ctl \in Controller /\ ctl.phase = "StartupPa" /\ ~ctl.fault /\ ctl.now = 0
  BY <1>1, BoundAssumption DEF NewController, Controller, Phase, Pending
<1>3. Sound(ctl) /\ ctl.now <= now
  BY <1>2 DEF Sound, Active, Entering, Init, CtlInit
<1>4. TypeOK
  BY <1>2, BoundAssumption
  DEF TypeOK, CtlTypeOK, Init, CtlInit, ChipInit, Chip, DriverState
<1>5. IssuedArePast /\ ChipAgrees
  BY <1>2 DEF Init, IssuedArePast, ChipAgrees, Done, Outstanding
<1> QED
  BY <1>3, <1>4, <1>5 DEF Inv

LEMMA NextInv == Inv /\ [Next]_vars => Inv'
<1> SUFFICES ASSUME Inv, [Next]_vars PROVE Inv'
  OBVIOUS
<1>1. CASE UNCHANGED vars
  BY <1>1 DEF vars, ctlVars, Inv, TypeOK, CtlTypeOK, IssuedArePast, ChipAgrees,
     Outstanding, Done
<1> QED
  BY <1>1, EventsKeep, SurroundingsKeep, ExecuteKeeps, RejectKeeps,
     AcknowledgeKeeps, RedeliverKeeps, RetuneKeeps, RestartKeeps DEF Next

LEMMA Invariance == Spec => []Inv
  BY InitInv, NextInv, PTL DEF Spec

\* The state the controller, the driver and the target keep is well formed.
THEOREM TypeCorrect == Spec => []TypeOK
<1>1. Inv => TypeOK
  BY DEF Inv
<1> QED
  BY <1>1, Invariance, PTL

\* The receiver is restored and the radio is at rest only with the amplifier and
\* chip TX off, whichever effects failed and whichever reports were repeated.
THEOREM Silence == Spec => []SilentBeforeReceive
<1>1. Inv => SilentBeforeReceive
  BY DEF Inv, ChipAgrees, SilentBeforeReceive, Quiet, PaOff
<1> QED
  BY <1>1, Invariance, PTL

\* Transmitting is reported only while the accepted request is on the air.
THEOREM TransmissionIsReal == Spec => []TransmittingIsOnAir
<1>1. Inv => TransmittingIsOnAir
  BY DEF Inv, ChipAgrees, TransmittingIsOnAir, Ready
<1> QED
  BY <1>1, Invariance, PTL

\* A latched fault excludes entry, transmission and rest until a restart.
THEOREM FaultsLatch == Spec => []FaultLatches
<1>1. Inv => FaultLatches
  BY DEF Inv, Sound, FaultLatches
<1> QED
  BY <1>1, Invariance, PTL

\* Entry and transmission end by the deadline the press was accepted with.
THEOREM DeadlineKept == Spec => []WithinDeadline
<1>1. Inv => WithinDeadline
  BY DEF Inv, Sound, WithinDeadline
<1> QED
  BY <1>1, Invariance, PTL

\* No effect identity is used twice within one start, over any number of presses
\* and shutdowns; every start uses the same identities over again.
THEOREM IdentitiesAreUnique == Spec => IdentitiesUsedOnce
<1>1. Inv /\ [Next]_vars =>
        [owed' # owed /\ owed' # None => owed'.id \notin issued]_vars
  <2> SUFFICES ASSUME Inv, Next, owed' # owed, owed' # None
               PROVE  owed'.id \notin issued
    BY DEF vars
  <2>1. ExecuteEffect
    BY DEF Next, Events, Surroundings, RejectEffect, Acknowledge, Redeliver,
       Retune, Restart
  <2>2. owed = None /\ owed'.id = Id(ctl)
    BY <2>1 DEF ExecuteEffect
  <2>3. ctl \in Controller /\ issued \in SUBSET EffectId
    BY DEF Inv, TypeOK, CtlTypeOK
  <2> QED
    BY <2>2, <2>3, PastIsNotPresent DEF Inv, IssuedArePast
<1> QED
  BY <1>1, Invariance, PTL DEF Spec, IdentitiesUsedOnce

\* The amplifier is switched on only under the authority of an accepted press.
THEOREM KeyingHasAuthority == Spec => KeyedWithAuthority
<1>1. Inv /\ [Next]_vars =>
        [ (~chip.pin /\ chip'.pin) =>
            /\ ctl.phase = "PaOn" /\ owed = None
            /\ ctl.accepted = current /\ current \in policy
            /\ now < ctl.deadline
            /\ chip.state = "Transmitting" /\ chip.tuned = current ]_vars
  <2> SUFFICES ASSUME Inv, Next, ~chip.pin, chip'.pin
               PROVE  /\ ctl.phase = "PaOn" /\ owed = None
                      /\ ctl.accepted = current /\ current \in policy
                      /\ now < ctl.deadline
                      /\ chip.state = "Transmitting" /\ chip.tuned = current
    BY DEF vars
  <2>1. chip \in Chip /\ current \in Request /\ ctl \in Controller
    BY DEF Inv, TypeOK, CtlTypeOK
  <2>2. ~Retune
    <3> SUFFICES ASSUME Retune PROVE FALSE
      OBVIOUS
    <3>1. ctl.phase = "Idle"
      BY <2>1 DEF Retune, State, Controller, Phase, Pending, Entering
    <3>2. Quiet(chip) /\ \E o \in RestoreReceive(chip) : chip' = o.chip
      BY <3>1 DEF Retune, Inv, ChipAgrees
    <3> QED
      BY <2>1, <3>2, RestoreReceiveEffect DEF Quiet, PaOff
  <2>3. ~Restart
    BY <2>1 DEF Restart, Reset, Chip
  <2>4. ExecuteEffect
    BY <2>2, <2>3 DEF Next, Events, Surroundings, RejectEffect, Acknowledge, Redeliver
  <2>5. PICK o \in Execute(chip, Action(ctl.phase), current) : chip' = o.chip
    BY <2>4 DEF ExecuteEffect
  <2>6. ctl.phase \in Pending /\ owed = None /\ ctl.now = now
    BY <2>4 DEF ExecuteEffect, EffectGranted, EffectDue
  <2>7. ctl.phase = "PaOn"
    <3>1. CASE ctl.phase \in {"StartupPa", "EntryPa", "ExitPa", "FaultPa"}
      BY <2>1, <2>5, <3>1, DisablePaEffect DEF Execute, Action
    <3>2. CASE ctl.phase \in {"StartupTx", "ExitTx", "FaultTx"}
      BY <2>1, <2>5, <3>2, DisableTransmitEffect DEF Execute, Action
    <3>3. CASE ctl.phase \in {"StartupReceive", "ExitReceive"}
      BY <2>1, <2>5, <3>3, RestoreReceiveEffect
      DEF Execute, Action, Inv, ChipAgrees, Quiet, PaOff
    <3>4. CASE ctl.phase = "Prepare"
      BY <2>1, <2>5, <3>4, PrepareTransmitEffect
      DEF Execute, Action, Inv, ChipAgrees, Quiet, PaOff
    <3>5. CASE ctl.phase = "TxOn"
      BY <2>1, <2>5, <3>5, EnableTransmitEffect DEF Execute, Action
    <3> QED
      BY <2>6, <3>1, <3>2, <3>3, <3>4, <3>5 DEF Pending
  <2>8. ctl.accepted = current /\ current \in policy /\ now < ctl.deadline
    BY <2>4, <2>6, <2>7
    DEF ExecuteEffect, EffectGranted, StillAuthorised, Active, Entering, Inv, Sound
  <2>9. o \in EnablePa(chip, current) /\ o.chip # chip
    BY <2>5, <2>7 DEF Execute, Action
  <2>10. Ready(chip, "Transmitting", current)
    BY <2>1, <2>9, EnablePaEffect
  <2> QED
    BY <2>6, <2>7, <2>8, <2>10 DEF Ready
<1> QED
  BY <1>1, Invariance, PTL DEF Spec, KeyedWithAuthority

-----------------------------------------------------------------------------
(* TxSystem implements TxLifecycle: every step of the controller, the      *)
(* driver and the target is a step of the promised lifecycle or leaves the *)
(* public state, the key and the air as they are.  To the invariant above  *)
(* this adds that an accepted press is still held (KeyDown): a released    *)
(* key has already stopped it.                                             *)

Held(c) == c.phase \in Active => c.pressed
KeyDown == Held(ctl)

-----------------------------------------------------------------------------
(* What a call of Controller::handle does to the phase and the key.        *)

Still(c, d) == d.phase = c.phase /\ d.pressed = c.pressed

\* The key goes up or down where it neither begins nor ends a transmission.
Noted(c, d) == d.phase = c.phase /\ c.phase \notin Active

Began(c, d) ==
    /\ c.phase = "Idle" /\ ~c.pressed
    /\ d.phase = "EntryPa" /\ d.pressed

Ended(c, d) ==
    /\ c.phase \in Active /\ d.phase = "ExitPa"
    /\ d.pressed \in {c.pressed, FALSE}

Left(c, d) ==
    /\ c.phase = "Idle" /\ d.phase \in {"ExitPa", "Faulted"}
    /\ d.pressed = c.pressed

Beats(c, d) == Still(c, d) \/ Noted(c, d) \/ Began(c, d) \/ Ended(c, d) \/ Left(c, d)

LEMMA ShutdownBeats ==
  ASSUME NEW c \in Controller, NEW reason \in StopReason
  PROVE  /\ Shutdown(c, reason).pressed = c.pressed
         /\ c.phase \in Active => Shutdown(c, reason).phase = "ExitPa"
         /\ c.phase = "Idle" => Shutdown(c, reason).phase \in {"ExitPa", "Faulted"}
         /\ c.phase \notin Active \cup {"Idle"} => Shutdown(c, reason) = c
<1>1. "Idle" \notin Active
  BY DEF Active, Entering
<1> QED
  BY <1>1 DEF Shutdown, Controller

LEMMA ObserveBeats ==
  ASSUME NEW c \in Controller, NEW t \in 0..MaxMs, NEW pol, NEW cur
  PROVE  LET o == Observe(c, t, pol, cur)
         IN  /\ o.pressed = c.pressed
             /\ o.phase = c.phase \/ (c.phase \in Active /\ o.phase = "ExitPa")
<1> DEFINE d == [c EXCEPT !.now = t]
<1>1. d \in Controller /\ d.phase = c.phase /\ d.pressed = c.pressed
  BY DEF Controller
<1> HIDE DEF d
<1>2. \A reason \in StopReason :
        /\ Shutdown(d, reason).pressed = c.pressed
        /\ c.phase \in Active => Shutdown(d, reason).phase = "ExitPa"
  BY <1>1, ShutdownBeats
<1> QED
  BY <1>1, <1>2 DEF Observe, d, StopReason

LEMMA OnEventBeats ==
  ASSUME NEW c \in Controller, Held(c), NEW event,
         NEW pol \in SUBSET Request, NEW cur \in Request,
         event.type = "Completed" => ~Reports(c, event)
  PROVE  Beats(c, OnEvent(c, event, pol, cur))
<1>0. "Idle" \notin Active /\ "ExitPa" \notin Active
  BY DEF Active, Entering
<1>1. Beats(c, c)
  BY DEF Beats, Still
<1>2. \A reason \in StopReason : Beats(c, Shutdown(c, reason))
  BY <1>1, ShutdownBeats DEF Beats, Ended, Left
<1>3. Beats(c, OnPressed(c, pol, cur))
  <2> DEFINE d == OnPressed(c, pol, cur)
  <2>1. CASE Accepts(c, pol, cur)
    <3>1. d.phase = "EntryPa" /\ d.pressed = TRUE
      BY <2>1 DEF OnPressed, Controller
    <3> HIDE DEF d
    <3> QED
      BY <2>1, <3>1 DEF Accepts, Beats, Began, d
  <2>2. CASE ~Accepts(c, pol, cur)
    <3>1. d.phase = c.phase /\ d.pressed = TRUE
      BY <2>2 DEF OnPressed, Controller
    <3>2. c.pressed \in BOOLEAN
      BY DEF Controller
    <3> HIDE DEF d
    <3> QED
      BY <3>1, <3>2 DEF Beats, Still, Noted, Held, d
  <2> QED
    BY <2>1, <2>2
<1>4. Beats(c, OnReleased(c))
  <2> DEFINE d == [c EXCEPT !.pressed = FALSE]
  <2>1. d \in Controller /\ d.phase = c.phase /\ d.pressed = FALSE
    BY DEF Controller
  <2> HIDE DEF d
  <2>2. c.phase \in Active => Ended(c, Shutdown(d, "Released"))
    BY <2>1, ShutdownBeats DEF Ended, StopReason
  <2>3. c.phase \notin Active => Noted(c, d)
    BY <2>1 DEF Noted
  <2> QED
    BY <2>2, <2>3 DEF OnReleased, Beats, d
<1>5. Beats(c, Shutdown([c EXCEPT !.fault = TRUE], "Fault"))
  <2> DEFINE d == [c EXCEPT !.fault = TRUE]
  <2>1. d \in Controller /\ d.phase = c.phase /\ d.pressed = c.pressed
    BY DEF Controller
  <2> HIDE DEF d
  <2>2. Shutdown(d, "Fault").pressed = c.pressed
    BY <2>1, ShutdownBeats DEF StopReason
  <2> QED
    BY <2>1, <2>2, ShutdownBeats DEF StopReason, Beats, Still, Ended, Left, d
<1> QED
  BY <1>1, <1>2, <1>3, <1>4, <1>5 DEF OnEvent, StopReason

\* Any event that completes no effect.
LEMMA HandleBeats ==
  ASSUME NEW c, Sound(c), Held(c), NEW t \in 0..MaxMs, NEW event,
         NEW pol \in SUBSET Request, NEW cur \in Request,
         event.type = "Completed" =>
           event.applied \in BOOLEAN /\ ~Reports(Observe(c, t, pol, cur), event)
  PROVE  /\ Beats(c, Handle(c, t, event, pol, cur))
         /\ Held(Handle(c, t, event, pol, cur))
<1>0. "Idle" \notin Active /\ "ExitPa" \notin Active /\ "Faulted" \notin Active
  BY DEF Active, Entering
<1> DEFINE h == Handle(c, t, event, pol, cur)
<1>1. Beats(c, h)
  <2>1. CASE t < c.now
    <3> DEFINE d == [c EXCEPT !.fault = TRUE]
    <3>1. d \in Controller /\ d.phase = c.phase /\ d.pressed = c.pressed
      BY DEF Sound, Controller
    <3> HIDE DEF d
    <3>2. h = Shutdown(d, "Clock")
      BY <2>1 DEF Handle, d
    <3>3. h.pressed = c.pressed
      BY <3>1, <3>2, ShutdownBeats DEF StopReason
    <3> HIDE DEF h
    <3>4. /\ c.phase \in Active => h.phase = "ExitPa"
          /\ c.phase = "Idle" => h.phase \in {"ExitPa", "Faulted"}
          /\ c.phase \notin Active \cup {"Idle"} => h.phase = c.phase
      BY <3>1, <3>2, ShutdownBeats DEF StopReason
    <3> QED
      BY <3>3, <3>4 DEF Beats, Still, Ended, Left
  <2>2. CASE ~(t < c.now)
    <3> DEFINE o == Observe(c, t, pol, cur)
    <3>1. c \in Controller /\ o \in Controller
      BY ObserveSound DEF Sound
    <3>2. /\ o.pressed = c.pressed
          /\ o.phase = c.phase \/ (c.phase \in Active /\ o.phase = "ExitPa")
      BY <3>1, ObserveBeats
    <3> HIDE DEF o
    <3>3. Held(o)
      BY <1>0, <3>2 DEF Held
    <3>4. Beats(o, h)
      BY <2>2, <3>1, <3>3, OnEventBeats DEF Handle, o
    <3> HIDE DEF h
    <3>5. CASE o.phase = c.phase
      BY <3>2, <3>4, <3>5 DEF Beats, Still, Noted, Began, Ended, Left
    <3>6. CASE c.phase \in Active /\ o.phase = "ExitPa"
      <4>1. h.phase = "ExitPa"
        BY <1>0, <3>4, <3>6 DEF Beats, Still, Noted, Began, Ended, Left
      <4>2. h \in Controller
        BY HandleSound DEF Sound, h
      <4>3. h.pressed \in {c.pressed, FALSE}
        BY <3>6, <4>2 DEF Held, Controller
      <4> QED
        BY <3>6, <4>1, <4>3 DEF Beats, Ended
    <3> QED
      BY <3>2, <3>5, <3>6
  <2> QED
    BY <2>1, <2>2
<1> HIDE DEF h
<1>2. Held(h)
  BY <1>0, <1>1 DEF Beats, Still, Noted, Began, Ended, Left, Held
<1> QED
  BY <1>1, <1>2 DEF h

\* A completion does not touch the key.
LEMMA CompleteKey ==
  ASSUME NEW c \in Controller, c.phase \in Pending, NEW applied \in BOOLEAN
  PROVE  Complete(c, applied).pressed = c.pressed
<1> DEFINE d == Failed(c, applied)
           e == DisableReported(c, applied)
<1>1. d \in Controller /\ e \in Controller
  BY FailedType
<1>2. d.pressed = c.pressed
  BY DEF Failed, Controller
<1>3. e.pressed = c.pressed
  BY <1>1, <1>2 DEF DisableReported, Controller
<1> HIDE DEF d, e
<1>4. \A p : AtPhase(c, p).pressed = c.pressed /\ AtPhase(d, p).pressed = c.pressed
               /\ AtPhase(e, p).pressed = c.pressed
  BY <1>1, <1>2, <1>3 DEF AtPhase, Controller
<1>5. Shutdown(d, "Fault").pressed = c.pressed
  BY <1>1, <1>2, ShutdownBeats DEF StopReason
<1> QED
  BY <1>4, <1>5 DEF Complete, Pending, Entering, d, e

-----------------------------------------------------------------------------
(* The steps of the lifecycle.                                             *)

Air == OnAir(chip)
Public == <<State(ctl), ctl.pressed, Air>>
Step == [Lifecycle!Next]_Public

LEMMA StateOf ==
  ASSUME NEW c \in Controller
  PROVE  /\ c.phase \in {"StartupPa", "StartupTx", "StartupReceive"} =>
              State(c) = "Starting"
         /\ c.phase = "Idle" => State(c) = Lifecycle!Rest(c.pressed)
         /\ c.phase \in Entering => State(c) = "Entering"
         /\ c.phase = "Transmitting" => State(c) = "Transmitting"
         /\ c.phase = "Faulted" => State(c) = "Faulted"
         /\ c.phase \in {"ExitPa", "ExitTx", "ExitReceive", "FaultPa", "FaultTx"} =>
              State(c) = "ShuttingDown"
  BY DEF State, Lifecycle!Rest, Controller, Entering

\* A step of the controller that leaves the chip alone.
LEMMA BeatSteps ==
  ASSUME ctl \in Controller, ctl' \in Controller, KeyDown,
         Beats(ctl, ctl'), UNCHANGED chip
  PROVE  Step
<1>1. Air' = Air
  BY DEF Air, OnAir
<1>2. ctl.pressed \in BOOLEAN /\ ctl'.pressed \in BOOLEAN
  BY DEF Controller
<1>3. CASE Still(ctl, ctl')
  BY <1>1, <1>3 DEF Still, Step, Public, State
<1>4. CASE Noted(ctl, ctl')
  <2>1. CASE ctl.phase = "Idle"
    <3>1. State(ctl) = Lifecycle!Rest(ctl.pressed) /\ State(ctl)' = Lifecycle!Rest(ctl'.pressed)
      BY <1>4, <2>1, StateOf DEF Noted
    <3>2. CASE ctl'.pressed = ctl.pressed
      BY <1>1, <3>1, <3>2 DEF Step, Public
    <3>3. CASE ctl.pressed = FALSE /\ ctl'.pressed = TRUE
      BY <1>1, <3>1, <3>3
      DEF Step, Public, Air, Lifecycle!Rest, Lifecycle!Next, Lifecycle!PressKey
    <3>4. CASE ctl.pressed = TRUE /\ ctl'.pressed = FALSE
      BY <1>1, <3>1, <3>4
      DEF Step, Public, Air, Lifecycle!Rest, Lifecycle!Next, Lifecycle!ReleaseKey
    <3> QED
      BY <1>2, <3>2, <3>3, <3>4
  <2>2. CASE ctl.phase # "Idle"
    <3>1. State(ctl) \notin Lifecycle!Resting \cup Lifecycle!Keyed
      BY <1>4, <2>2
      DEF Noted, State, Controller, Phase, Pending, Active, Entering,
          Lifecycle!Resting, Lifecycle!Keyed
    <3>2. State(ctl)' = State(ctl)
      BY <1>4, <2>2 DEF Noted, State
    <3> QED
      BY <1>1, <1>2, <3>1, <3>2 DEF Step, Air, Lifecycle!Next, Lifecycle!NoteKey
  <2> QED
    BY <2>1, <2>2
<1>5. CASE Began(ctl, ctl')
  <2>1. State(ctl) = "Ready" /\ State(ctl)' = "Entering" /\ ctl'.pressed = TRUE
    BY <1>2, <1>5, StateOf DEF Began, Lifecycle!Rest, Entering
  <2> QED
    BY <1>1, <2>1 DEF Step, Air, Lifecycle!Next, Lifecycle!PressKey
<1>6. CASE Ended(ctl, ctl')
  <2>1. State(ctl) \in Lifecycle!Keyed /\ State(ctl)' = "ShuttingDown"
    BY <1>6, StateOf DEF Ended, Active, Lifecycle!Keyed
  <2> QED
    BY <1>1, <1>6, <2>1 DEF Step, Air, Ended, Lifecycle!Next, Lifecycle!StopTransmission
<1>7. CASE Left(ctl, ctl')
  <2>1. State(ctl) \in Lifecycle!Resting /\ State(ctl)' \in {"ShuttingDown", "Faulted"}
    BY <1>7, StateOf DEF Left, Lifecycle!Resting, Lifecycle!Rest
  <2> QED
    BY <1>1, <1>7, <2>1 DEF Step, Air, Left, Lifecycle!Next, Lifecycle!LeaveRest
<1> QED
  BY <1>3, <1>4, <1>5, <1>6, <1>7 DEF Beats

\* The report of the pending effect.  Transmitting is reached on the air and
\* rest off it, because the chip is as the effects have left it.
LEMMA CompletionSteps ==
  ASSUME Inv, KeyDown, NEW o \in Controller, Outstanding,
         o.phase = ctl.phase, o.pressed = ctl.pressed, o.phase \in Pending,
         CompletionOf(o, owed.applied, ctl'), ctl' \in Controller,
         ctl'.pressed = ctl.pressed, UNCHANGED chip
  PROVE  Step /\ KeyDown'
<1>0. ctl \in Controller /\ ctl.pressed \in BOOLEAN /\ Air' = Air
  BY DEF Inv, TypeOK, CtlTypeOK, Controller, Air, OnAir
<1>1. CASE ctl.phase \in {"StartupPa", "StartupTx", "StartupReceive"}
  <2>1. ctl'.phase \in {"StartupTx", "StartupReceive", "Faulted", "Idle", "FaultPa"}
    BY <1>1 DEF CompletionOf, AfterPaOff, AfterTxOff, Entering
  <2>2. ctl'.phase = "Idle" => ~Air
    <3>1. ctl'.phase = "Idle" => ctl.phase = "StartupReceive"
      BY <1>1 DEF CompletionOf, AfterPaOff, AfterTxOff, Entering
    <3> QED
      BY <3>1 DEF Inv, ChipAgrees, Quiet, PaOff, Air, OnAir
  <2>3. State(ctl) = "Starting"
    BY <1>0, <1>1, StateOf
  <2>4. \/ State(ctl)' \in {"Starting", "Faulted", "ShuttingDown"}
        \/ State(ctl)' = Lifecycle!Rest(ctl.pressed) /\ ~Air
    BY <2>1, <2>2, StateOf
  <2>5. Step
    BY <1>0, <2>3, <2>4 DEF Step, Public, Air, Lifecycle!Next, Lifecycle!Settle
  <2> QED
    BY <2>1, <2>5 DEF KeyDown, Held, Active, Entering
<1>2. CASE ctl.phase \in {"ExitPa", "ExitTx", "ExitReceive", "FaultPa", "FaultTx"}
  <2>1. ctl'.phase \in {"ExitTx", "ExitReceive", "Faulted", "Idle", "FaultPa", "FaultTx"}
    BY <1>2 DEF CompletionOf, AfterPaOff, AfterTxOff, Entering
  <2>2. ctl'.phase = "Idle" => ~Air
    <3>1. ctl'.phase = "Idle" => ctl.phase = "ExitReceive"
      BY <1>2 DEF CompletionOf, AfterPaOff, AfterTxOff, Entering
    <3> QED
      BY <3>1 DEF Inv, ChipAgrees, Quiet, PaOff, Air, OnAir
  <2>3. State(ctl) = "ShuttingDown"
    BY <1>0, <1>2, StateOf
  <2>4. \/ State(ctl)' \in {"Faulted", "ShuttingDown"}
        \/ State(ctl)' = Lifecycle!Rest(ctl.pressed) /\ ~Air
    BY <2>1, <2>2, StateOf
  <2>5. Step
    BY <1>0, <2>3, <2>4 DEF Step, Public, Air, Lifecycle!Next, Lifecycle!Settle
  <2> QED
    BY <2>1, <2>5 DEF KeyDown, Held, Active, Entering
<1>3. CASE ctl.phase \in Entering
  <2>1. /\ owed.applied => ctl'.phase = NextEntry(ctl.phase)
        /\ ~owed.applied => ctl'.phase = "ExitPa"
    BY <1>3 DEF CompletionOf, Entering
  <2>2. State(ctl) = "Entering" /\ ctl.pressed
    BY <1>0, <1>3, StateOf DEF KeyDown, Held, Active
  <2>3. CASE ctl'.phase = "ExitPa"
    <3>1. State(ctl)' = "ShuttingDown"
      BY <2>3, StateOf
    <3>2. Step
      BY <1>0, <2>2, <3>1
      DEF Step, Air, Lifecycle!Next, Lifecycle!StopTransmission, Lifecycle!Keyed
    <3> QED
      BY <2>2, <3>2 DEF KeyDown, Held
  <2>4. CASE owed.applied /\ ctl.phase # "PaOn"
    <3>1. ctl'.phase \in Entering
      BY <1>3, <2>1, <2>4 DEF NextEntry, Entering
    <3>2. Step
      BY <1>0, <2>2, <3>1, StateOf DEF Step, Public
    <3> QED
      BY <2>2, <3>2 DEF KeyDown, Held
  <2>5. CASE owed.applied /\ ctl.phase = "PaOn"
    <3>1. State(ctl)' = "Transmitting"
      BY <2>1, <2>5, StateOf DEF NextEntry
    <3>2. Air
      BY <2>5 DEF Inv, ChipAgrees, Done, Air
    <3>3. Step
      BY <1>0, <2>2, <3>1, <3>2 DEF Step, Air, Lifecycle!Next, Lifecycle!Established
    <3> QED
      BY <2>2, <3>3 DEF KeyDown, Held
  <2> QED
    BY <2>1, <2>3, <2>4, <2>5
<1> QED
  BY <1>1, <1>2, <1>3 DEF Pending, Entering

\* An event that completes no effect.
LEMMA DeliverSteps ==
  ASSUME Inv, KeyDown, NEW event, NEW t \in 0..MaxMs,
         ctl' = Handle(ctl, t, event, policy, current),
         event.type = "Completed" =>
           event.applied \in BOOLEAN /\ ~Reports(Observe(ctl, t, policy, current), event),
         UNCHANGED chip
  PROVE  Step /\ KeyDown'
<1>1. Sound(ctl) /\ policy \in SUBSET Request /\ current \in Request
  BY DEF Inv, TypeOK, CtlTypeOK
<1>2. Beats(ctl, ctl') /\ Held(ctl') /\ Sound(ctl')
  BY <1>1, HandleBeats, HandleSound DEF KeyDown
<1> QED
  BY <1>1, <1>2, BeatSteps DEF Sound, KeyDown

LEMMA EventsStep ==
  ASSUME Inv, KeyDown, Events \/ RejectEffect
  PROVE  Step /\ KeyDown'
<1>1. now \in 0..MaxMs /\ ctl.now \in 0..MaxMs
  BY DEF Inv, TypeOK, CtlTypeOK, Controller
<1>2. ASSUME NEW event, Deliver(event), event.type # "Completed", UNCHANGED chip
      PROVE  Step /\ KeyDown'
  BY <1>1, <1>2, DeliverSteps DEF Deliver
<1>3. CASE ClockBack /\ UNCHANGED chip
  <2>1. ctl.now - 1 \in 0..MaxMs
    BY <1>1, <1>3, BoundAssumption DEF ClockBack
  <2>2. TickEvent.type # "Completed"
    BY DEF TickEvent
  <2> QED
    BY <1>3, <2>1, <2>2, DeliverSteps DEF ClockBack
<1> QED
  BY <1>2, <1>3 DEF Events, RejectEffect, Press, Release, Tick, Invalidate, Fault,
     PressedEvent, ReleasedEvent, TickEvent, Invalidation, TargetFault

\* A report owed or repeated: it completes the pending effect or is no more
\* than the time of its delivery.
LEMMA AcknowledgeSteps ==
  ASSUME Inv, KeyDown, Acknowledge
  PROVE  Step /\ KeyDown'
<1> DEFINE event == Completed(owed.id, owed.applied)
           o == Observe(ctl, now, policy, current)
<1>1. /\ now \in 0..MaxMs /\ ctl \in Controller /\ Sound(ctl) /\ ctl.now <= now
      /\ issued \in SUBSET EffectId
  BY DEF Inv, TypeOK, CtlTypeOK
<1>2. owed # None /\ owed \in Report
  BY DEF Acknowledge, Inv, TypeOK
<1>3. ctl' = Handle(ctl, now, event, policy, current) /\ UNCHANGED chip
  BY DEF Acknowledge, Deliver
<1>4. /\ event.type = "Completed" /\ event.id = owed.id
      /\ event.applied = owed.applied /\ event.applied \in BOOLEAN
  BY <1>2 DEF Completed, Report
<1>5. o \in Controller /\ Sound(o) /\ (Kept(ctl, o) \/ Stopped(ctl, o))
  BY <1>1, ObserveSound, ObserveDrifts DEF Sound
<1>6. o.pressed = ctl.pressed
  BY <1>1, ObserveBeats
<1>7. owed.id \in issued /\ owed.id \in EffectId
  BY <1>1, <1>2 DEF Inv, IssuedArePast
<1>8. \A i \in issued : Past(i, ctl) \/ i = Id(ctl)
  BY DEF Inv, IssuedArePast
<1> HIDE DEF event, o
<1>9. CASE ~Reports(o, event)
  BY <1>1, <1>3, <1>4, <1>9, DeliverSteps DEF o
<1>10. CASE Reports(o, event)
  <2>1. owed.id = Id(o) /\ o.phase \in Pending
    BY <1>4, <1>10 DEF Reports
  <2>2. owed.id = Id(ctl) /\ Kept(ctl, o)
    BY <1>1, <1>5, <1>7, <1>8, <2>1, NotPresent
  <2>3. o.phase = ctl.phase /\ Outstanding
    BY <1>2, <2>2 DEF Kept, Id, Outstanding
  <2>4. ctl' = Complete(o, owed.applied)
    BY <1>1, <1>3, <1>4, <1>10, HandleReports DEF o, Controller
  <2>5. ctl' \in Controller /\ CompletionOf(o, owed.applied, ctl')
    BY <1>4, <1>5, <2>1, <2>4, CompleteSound, CompleteLeads DEF Sound
  <2>6. ctl'.pressed = ctl.pressed
    BY <1>4, <1>5, <1>6, <2>1, <2>4, CompleteKey
  <2> QED
    BY <1>3, <1>5, <1>6, <2>1, <2>3, <2>5, <2>6, CompletionSteps
<1> QED
  BY <1>9, <1>10

LEMMA RedeliverSteps ==
  ASSUME Inv, KeyDown, Redeliver
  PROVE  Step /\ KeyDown'
<1>1. PICK id \in issued, applied \in BOOLEAN :
        /\ owed # None => owed.id # id
        /\ Deliver(Completed(id, applied))
  BY DEF Redeliver
<1> DEFINE event == Completed(id, applied)
           o == Observe(ctl, now, policy, current)
<1>2. /\ now \in 0..MaxMs /\ issued \in SUBSET EffectId
      /\ ctl \in Controller /\ Sound(ctl)
  BY DEF Inv, TypeOK, CtlTypeOK
<1>3. event.type = "Completed" /\ event.applied \in BOOLEAN /\ event.id = id
  BY DEF Completed
<1>4. Past(id, ctl)
  BY <1>1 DEF Inv, IssuedArePast
<1>5. o \in Controller /\ (Kept(ctl, o) \/ Stopped(ctl, o))
  BY <1>2, ObserveSound, ObserveDrifts DEF Sound
<1>6. id # Id(o)
  BY <1>2, <1>4, <1>5, NotPresent, PastIsNotPresent
<1>7. ~Reports(o, event)
  BY <1>3, <1>6 DEF Reports
<1> HIDE DEF event, o
<1> QED
  BY <1>1, <1>2, <1>3, <1>7, DeliverSteps DEF Redeliver, Deliver, event, o

LEMMA SurroundingsStep ==
  ASSUME KeyDown, Surroundings \/ UNCHANGED vars
  PROVE  Step /\ KeyDown'
<1>1. ctl' = ctl /\ chip' = chip
  BY DEF Surroundings, AdvanceTime, ChangeFacts, vars, ctlVars
<1> QED
  BY <1>1 DEF Step, Public, Air, State, KeyDown

\* Only the PA effect of an entry can put the radio on the air, and no effect
\* is executed at rest.
LEMMA ExecuteSteps ==
  ASSUME Inv, KeyDown, ExecuteEffect
  PROVE  Step /\ KeyDown'
<1>1. owed = None /\ ctl.phase \in Pending /\ ctl' = ctl
  BY DEF ExecuteEffect, EffectGranted, EffectDue, ctlVars
<1>2. PICK o \in Execute(chip, Action(ctl.phase), current) : chip' = o.chip
  BY DEF ExecuteEffect
<1>3. chip \in Chip /\ current \in Request /\ ctl \in Controller
  BY DEF Inv, TypeOK, CtlTypeOK
<1>4. o.chip \in Chip
  BY <1>2, <1>3, DisablePaEffect, DisableTransmitEffect, RestoreReceiveEffect,
     PrepareTransmitEffect, EnableTransmitEffect, EnablePaEffect DEF Execute
<1>5. Air \in BOOLEAN /\ Air' \in BOOLEAN
  BY <1>2, <1>3, <1>4, ChipType DEF Air, OnAir
<1>6. Air' => Air \/ ctl.phase = "PaOn"
  <2>1. CASE ctl.phase \in {"StartupPa", "EntryPa", "ExitPa", "FaultPa"}
    <3>1. o \in DisablePa(chip)
      BY <1>2, <2>1 DEF Execute, Action
    <3> QED
      BY <1>2, <1>3, <3>1, DisablePaEffect DEF Air, OnAir
  <2>2. CASE ctl.phase \in {"StartupTx", "ExitTx", "FaultTx"}
    <3>1. o \in DisableTransmit(chip)
      BY <1>2, <2>2 DEF Execute, Action
    <3> QED
      BY <1>2, <1>3, <3>1, DisableTransmitEffect DEF Air, OnAir
  <2>3. CASE ctl.phase \in {"StartupReceive", "ExitReceive"}
    <3>1. o \in RestoreReceive(chip)
      BY <1>2, <2>3 DEF Execute, Action
    <3>2. Quiet(chip)
      BY <2>3 DEF Inv, ChipAgrees
    <3> QED
      BY <1>2, <1>3, <3>1, <3>2, RestoreReceiveEffect DEF Air, OnAir, Quiet
  <2>4. CASE ctl.phase = "Prepare"
    <3>1. o \in PrepareTransmit(chip, current)
      BY <1>2, <2>4 DEF Execute, Action
    <3>2. Quiet(chip)
      BY <2>4 DEF Inv, ChipAgrees
    <3> QED
      BY <1>2, <1>3, <3>1, <3>2, PrepareTransmitEffect DEF Air, OnAir, Quiet
  <2>5. CASE ctl.phase = "TxOn"
    <3>1. o \in EnableTransmit(chip, current)
      BY <1>2, <2>5 DEF Execute, Action
    <3>2. PaOff(chip)
      BY <2>5 DEF Inv, ChipAgrees
    <3> QED
      BY <1>2, <1>3, <3>1, <3>2, EnableTransmitEffect DEF Air, OnAir, PaOff
  <2> QED
    BY <1>1, <2>1, <2>2, <2>3, <2>4, <2>5 DEF Pending
<1>7. State(ctl)' = State(ctl) /\ ctl'.pressed = ctl.pressed
  BY <1>1 DEF State
<1>8. State(ctl) \notin Lifecycle!Resting
  BY <1>1, <1>3, StateOf DEF Pending, Entering, Lifecycle!Resting
<1>9. Step
  <2>1. CASE Air' = Air
    BY <1>7, <2>1 DEF Step, Public
  <2>2. CASE Air = TRUE /\ Air' = FALSE
    BY <1>7, <1>8, <2>2 DEF Step, Air, Lifecycle!Next, Lifecycle!LeaveAir
  <2>3. CASE Air = FALSE /\ Air' = TRUE
    <3>1. State(ctl) = "Entering"
      BY <1>3, <1>6, <2>3, StateOf DEF Entering
    <3> QED
      BY <1>7, <2>3, <3>1 DEF Step, Air, Lifecycle!Next, Lifecycle!GoOnAir
  <2> QED
    BY <1>5, <2>1, <2>2, <2>3
<1> QED
  BY <1>1, <1>9 DEF KeyDown

\* At rest the amplifier and chip TX are off, and retuning leaves them off.
LEMMA RetuneSteps ==
  ASSUME Inv, KeyDown, Retune
  PROVE  Step /\ KeyDown'
<1>1. PICK o \in RestoreReceive(chip) : chip' = o.chip
  BY DEF Retune
<1>2. ctl.phase = "Idle"
  BY DEF Retune, State, Inv, TypeOK, CtlTypeOK, Controller, Phase, Pending, Entering
<1>3. chip \in Chip /\ Quiet(chip)
  BY <1>2 DEF Inv, TypeOK, ChipAgrees
<1>4. chip' \in Chip /\ Quiet(chip')
  BY <1>1, <1>3, RestoreReceiveEffect
<1>5. Air' = Air
  BY <1>3, <1>4, ChipType DEF Air, OnAir, Quiet
<1>6. ctl' = ctl
  BY DEF Retune, ctlVars
<1> QED
  BY <1>5, <1>6 DEF Step, Public, State, KeyDown

\* A restart leaves the outputs of the chip alone and starts over.
LEMMA RestartSteps ==
  ASSUME Inv, Restart
  PROVE  Step /\ KeyDown'
<1>1. PICK down \in BOOLEAN : ctl' = NewController(Instance, down, now')
  BY DEF Restart
<1>2. ctl'.phase = "StartupPa" /\ ctl'.pressed \in BOOLEAN
  BY <1>1 DEF NewController
<1>3. State(ctl)' = "Starting"
  BY <1>2 DEF State, Entering
<1>4. Air' = Air
  BY DEF Restart, Reset, Air, OnAir, Inv, TypeOK, Chip
<1>5. Step
  BY <1>2, <1>3, <1>4 DEF Step, Air, Lifecycle!Next, Lifecycle!Restart
<1> QED
  BY <1>2, <1>5 DEF KeyDown, Held, Active, Entering

-----------------------------------------------------------------------------

LEMMA InitLifecycle == Init => Lifecycle!Init /\ KeyDown
<1> SUFFICES ASSUME Init PROVE Lifecycle!Init /\ KeyDown
  OBVIOUS
<1>1. PICK down \in BOOLEAN : ctl = NewController(Instance, down, now)
  BY DEF Init, CtlInit
<1>2. ctl.phase = "StartupPa" /\ ctl.pressed \in BOOLEAN
  BY <1>1 DEF NewController
<1>3. OnAir(chip) = FALSE
  BY DEF Init, ChipInit, OnAir
<1>4. Lifecycle!Init
  BY <1>2, <1>3 DEF Lifecycle!Init, State, Entering
<1> QED
  BY <1>2, <1>4 DEF KeyDown, Held, Active, Entering

LEMMA NextLifecycle == Inv /\ KeyDown /\ [Next]_vars => Step /\ KeyDown'
  BY SurroundingsStep, EventsStep, ExecuteSteps, AcknowledgeSteps,
     RedeliverSteps, RetuneSteps, RestartSteps DEF Next

\* The controller, the driver and the target implement the lifecycle promised
\* to the operator: no interleaving of events, failed effects, repeated reports
\* and restarts shows the operator a step the lifecycle does not have.
THEOREM LifecycleImplemented == Spec => ImplementsLifecycle
<1>1. Inv /\ KeyDown /\ [Next]_vars => [Lifecycle!Next]_Lifecycle!vars
  BY NextLifecycle DEF Step, Public, Air, Lifecycle!vars
<1> QED
  BY <1>1, InitLifecycle, NextLifecycle, Invariance, PTL
  DEF Spec, ImplementsLifecycle, Lifecycle!Spec
=============================================================================
