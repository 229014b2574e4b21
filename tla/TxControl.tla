------------------------------ MODULE TxControl ------------------------------
(***************************************************************************)
(* The shared push-to-talk controller of radio-platform::tx_control.       *)
(*                                                                         *)
(* The controller is one record, ctl, and every call of Controller::handle *)
(* is one function of it: Handle(c, t, event, pol, cur).  It owns no clock *)
(* and no hardware: time, the programmed policy and the current request    *)
(* are inputs the target delivers with every event.  Each effect it asks   *)
(* for is named by an identity (instance, cycle, phase), and the target    *)
(* reports its completion under that identity.                             *)
(*                                                                         *)
(* A TxRequest is a member of Request; a TxPolicy is the set of requests   *)
(* that TxPolicy::authorise accepts.  Error values returned to the caller  *)
(* only choose what the display says, so they are left out.                *)
(***************************************************************************)
EXTENDS Naturals

CONSTANTS
    Request,     \* complete TX requests (TxRequest)
    Timeout,     \* timeout_ms of each request
    None,        \* an absent Option
    MaxMs,       \* largest millisecond timestamp (u64::MAX in the code)
    MaxCycle     \* largest cycle number (u32::MAX in the code)

\* TxRequest::validate refuses a zero timeout, so an accepted one is positive.
ASSUME RequestAssumption ==
    /\ None \notin Request /\ None \notin Nat
    /\ Timeout \in [Request -> Nat \ {0}]

ASSUME BoundAssumption ==
    MaxMs \in Nat /\ MaxCycle \in Nat

VARIABLES
    ctl,      \* the Controller
    now,      \* the target's clock, in milliseconds
    policy,   \* the requests the programmed policy authorises now
    current   \* the request built from the current selection

ctlVars == <<ctl, now, policy, current>>

-----------------------------------------------------------------------------
(* Phases, and the adapter operation each pending one asks for.            *)

Pending == {"StartupPa", "StartupTx", "StartupReceive", "EntryPa", "Prepare",
            "TxOn", "PaOn", "ExitPa", "ExitTx", "ExitReceive", "FaultPa",
            "FaultTx"}
Entering == {"EntryPa", "Prepare", "TxOn", "PaOn"}
Active  == Entering \cup {"Transmitting"}
Phase   == Pending \cup {"Idle", "Transmitting", "Faulted"}

\* Phase::action, for the phases that have one.
Action(p) ==
    CASE p \in {"StartupPa", "EntryPa", "ExitPa", "FaultPa"} -> "DisablePa"
      [] p \in {"StartupTx", "ExitTx", "FaultTx"} -> "DisableTransmit"
      [] p \in {"StartupReceive", "ExitReceive"} -> "RestoreReceive"
      [] p = "Prepare" -> "PrepareTransmit"
      [] p = "TxOn" -> "EnableTransmit"
      [] p = "PaOn" -> "EnablePa"

StopReason == {"Released", "Timeout", "Invalidated", "Fault", "Clock"}

\* The firmware makes every controller, of every start, with this instance.
Instance == 1

EffectId == [instance : {Instance}, cycle : 0..MaxCycle, phase : Pending]

Controller == [
    instance   : {Instance},
    cycle      : 0..MaxCycle,
    phase      : Phase,
    pressed    : BOOLEAN,
    fault      : BOOLEAN,
    shutdownOk : BOOLEAN,
    now        : 0..MaxMs,
    deadline   : 0..MaxMs \cup {None},
    accepted   : Request \cup {None},
    stopReason : StopReason \cup {None}]

Id(c) == [instance |-> c.instance, cycle |-> c.cycle, phase |-> c.phase]

\* A restart takes the amplifier for off.
NewControllerTrusting(instance, pttDown, t) == [
    instance |-> instance, cycle |-> 0, phase |-> "StartupTx",
    pressed |-> pttDown, fault |-> FALSE, shutdownOk |-> TRUE, now |-> t,
    deadline |-> None, accepted |-> None, stopReason |-> None]

NewController(instance, pttDown, t) == [
    instance |-> instance, cycle |-> 0, phase |-> "StartupPa",
    pressed |-> pttDown, fault |-> FALSE, shutdownOk |-> TRUE, now |-> t,
    deadline |-> None, accepted |-> None, stopReason |-> None]

\* What Controller::state reports to the rest of the firmware.
State(c) ==
    CASE c.phase \in {"StartupPa", "StartupTx", "StartupReceive"} -> "Starting"
      [] c.phase = "Idle" /\ c.pressed -> "ReleaseRequired"
      [] c.phase = "Idle" /\ ~c.pressed -> "Ready"
      [] c.phase \in Entering -> "Entering"
      [] c.phase = "Transmitting" -> "Transmitting"
      [] c.phase = "Faulted" -> "Faulted"
      [] OTHER -> "ShuttingDown"

-----------------------------------------------------------------------------
(* Controller::shutdown.  From Idle it opens a cycle of its own            *)
(* (Controller::next_cycle), so that its effects are not mistaken for      *)
(* those of the last one; with no cycle left it only latches Faulted.      *)

CycleOfShutdownSame(c) == c.cycle
CycleOfShutdown(c) == IF c.phase = "Idle" THEN c.cycle + 1 ELSE c.cycle

Exhausted(c) == c.cycle = MaxCycle

Shutdown(c, reason) ==
    IF c.phase = "Idle" /\ Exhausted(c)
      THEN [c EXCEPT !.phase = "Faulted"]
    ELSE IF c.phase \in Active \cup {"Idle"}
      THEN [c EXCEPT !.cycle = CycleOfShutdown(c), !.phase = "ExitPa",
                     !.shutdownOk = TRUE, !.deadline = None,
                     !.accepted = None, !.stopReason = reason]
    ELSE c

(* Controller::complete, for the completion of the pending operation.      *)

NextEntry(p) ==
    CASE p = "EntryPa" -> "Prepare" [] p = "Prepare" -> "TxOn"
      [] p = "TxOn" -> "PaOn" [] p = "PaOn" -> "Transmitting"

AfterPaOff(p) == IF p = "StartupPa" THEN "StartupTx" ELSE "ExitTx"
AfterTxOff(p) == IF p = "StartupTx" THEN "StartupReceive" ELSE "ExitReceive"

\* Controller::finish.
FinishedIdle(c) == "Idle"
Finished(c) == IF c.fault THEN "Faulted" ELSE "Idle"

Failed(c, applied) ==
    IF applied THEN c ELSE [c EXCEPT !.fault = TRUE, !.stopReason = "Fault"]

\* Both disables of a shutdown have succeeded so far.
Disabled(c, applied) == c.shutdownOk /\ applied

AtPhase(c, p) == [c EXCEPT !.phase = p]

\* A disable's outcome counts for the shutdown it belongs to.
DisableReported(c, applied) ==
    [Failed(c, applied) EXCEPT !.shutdownOk = Disabled(c, applied)]

Complete(c, applied) ==
    CASE c.phase \in {"StartupPa", "ExitPa"} ->
           AtPhase(DisableReported(c, applied), AfterPaOff(c.phase))
      [] c.phase \in {"StartupTx", "ExitTx"} ->
           AtPhase(DisableReported(c, applied),
                   IF Disabled(c, applied) THEN AfterTxOff(c.phase) ELSE "Faulted")
      [] c.phase \in {"StartupReceive", "ExitReceive"} ->
           AtPhase(Failed(c, applied),
                   IF applied THEN Finished(c) ELSE "FaultPa")
      [] c.phase \in Entering /\ applied -> AtPhase(c, NextEntry(c.phase))
      [] c.phase \in Entering /\ ~applied -> Shutdown(Failed(c, applied), "Fault")
      [] c.phase = "FaultPa" -> AtPhase(Failed(c, applied), "FaultTx")
      [] c.phase = "FaultTx" -> AtPhase(Failed(c, applied), "Faulted")

-----------------------------------------------------------------------------
(* Controller::handle: the clock, then the standing checks, then the event.*)

PressedEvent  == [type |-> "Pressed"]
ReleasedEvent == [type |-> "Released"]
TickEvent     == [type |-> "Tick"]
Invalidation  == [type |-> "Invalidated"]
TargetFault   == [type |-> "TargetFault"]
Completed(id, applied) ==
    [type |-> "Completed", id |-> id, applied |-> applied]

\* The facts of the accepted press still hold and are still authorised.
StillAuthorised(c, pol, cur) == c.accepted = cur /\ cur \in pol

ExpiredLate(c, t)  == c.deadline # None /\ t > c.deadline
ExpiredNever(c, t) == FALSE
Expired(c, t) == c.deadline # None /\ t >= c.deadline

Observe(c, t, pol, cur) ==
    LET d == [c EXCEPT !.now = t]
    IN  IF c.phase \notin Active THEN d
        ELSE IF Expired(c, t) THEN Shutdown(d, "Timeout")
        ELSE IF ~StillAuthorised(c, pol, cur) THEN Shutdown(d, "Invalidated")
        ELSE d

\* A press is accepted from Idle, after a release, with authority, a
\* representable deadline and an unused cycle; otherwise it only marks the key.
AcceptsHeld(c, pol, cur) ==
    /\ c.phase = "Idle" /\ cur \in pol
    /\ c.now + Timeout[cur] <= MaxMs
    /\ ~Exhausted(c)

AcceptsUnauthorised(c, pol, cur) ==
    /\ c.phase = "Idle" /\ ~c.pressed
    /\ c.now + Timeout[cur] <= MaxMs
    /\ ~Exhausted(c)

Accepts(c, pol, cur) ==
    /\ c.phase = "Idle" /\ ~c.pressed
    /\ cur \in pol
    /\ c.now + Timeout[cur] <= MaxMs
    /\ ~Exhausted(c)

OnPressed(c, pol, cur) ==
    IF Accepts(c, pol, cur)
      THEN [c EXCEPT !.pressed = TRUE, !.cycle = @ + 1, !.phase = "EntryPa",
                     !.accepted = cur, !.deadline = c.now + Timeout[cur],
                     !.shutdownOk = TRUE, !.stopReason = None]
      ELSE [c EXCEPT !.pressed = TRUE]

OnReleased(c) ==
    LET d == [c EXCEPT !.pressed = FALSE]
    IN  IF c.phase \in Active THEN Shutdown(d, "Released") ELSE d

\* A completion counts only under the identity of the pending effect.
ReportsAny(c, event) == c.phase \in Pending
Reports(c, event) == c.phase \in Pending /\ event.id = Id(c)

OnEvent(c, event, pol, cur) ==
    CASE event.type = "Pressed"     -> OnPressed(c, pol, cur)
      [] event.type = "Released"    -> OnReleased(c)
      [] event.type = "Invalidated" -> Shutdown(c, "Invalidated")
      [] event.type = "TargetFault" ->
           Shutdown([c EXCEPT !.fault = TRUE], "Fault")
      [] event.type = "Completed" /\ Reports(c, event) ->
           Complete(c, event.applied)
      [] OTHER -> c

Handle(c, t, event, pol, cur) ==
    IF t < c.now
      THEN Shutdown([c EXCEPT !.fault = TRUE], "Clock")
      ELSE OnEvent(Observe(c, t, pol, cur), event, pol, cur)

(* Controller::effect.  An entry effect is handed out only for the request *)
(* of the accepted press and under the policy of this moment.              *)

EffectDue(c) == c.phase \in Pending

EffectGrantedStale(c, pol, cur) == EffectDue(c)
EffectGranted(c, pol, cur) ==
    EffectDue(c) /\ (c.phase \in Active => StillAuthorised(c, pol, cur))

-----------------------------------------------------------------------------
(* The events a target delivers, at its clock and with its facts.          *)

Deliver(event) ==
    /\ ctl' = Handle(ctl, now, event, policy, current)
    /\ UNCHANGED <<now, policy, current>>

Press      == Deliver(PressedEvent)
Release    == Deliver(ReleasedEvent)
Tick       == Deliver(TickEvent)
Invalidate == Deliver(Invalidation)
Fault      == Deliver(TargetFault)

\* A timestamp before the last one; nothing of the event is looked at.
ClockBack ==
    /\ ctl.now > 0
    /\ ctl' = Handle(ctl, ctl.now - 1, TickEvent, policy, current)
    /\ UNCHANGED <<now, policy, current>>

AdvanceTime ==
    /\ now < MaxMs
    /\ now' = now + 1
    /\ UNCHANGED <<ctl, policy, current>>

\* Selection, configuration, calibration or programmed ranges change.
ChangeFacts ==
    /\ current' \in Request
    /\ policy' \in SUBSET Request
    /\ UNCHANGED <<ctl, now>>

CtlInit ==
    /\ now = 0
    /\ policy \in SUBSET Request
    /\ current \in Request
    /\ \E pttDown \in BOOLEAN : ctl = NewController(Instance, pttDown, now)

CtlTypeOK ==
    /\ ctl \in Controller
    /\ now \in 0..MaxMs
    /\ policy \in SUBSET Request
    /\ current \in Request
=============================================================================
