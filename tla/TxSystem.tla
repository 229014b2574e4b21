------------------------------ MODULE TxSystem ------------------------------
(***************************************************************************)
(* The controller, the transmit chip and the target that drives them.      *)
(*                                                                         *)
(* The target obtains the pending effect, executes it on the driver and    *)
(* reports its completion (transmit::run_effects and transmit::execute in  *)
(* the firmware, TxSimulator::step in the simulator).  Between execution   *)
(* and report any event may be delivered, and a report already made may be *)
(* delivered again: the controller promises that both are harmless.        *)
(*                                                                         *)
(* A restart keeps the chip's outputs, which are not on the processor, and *)
(* loses everything else, the reports of effects with it: they are values  *)
(* of the task that was running.  So a report is only ever delivered to    *)
(* the controller of the start that executed the effect, although every    *)
(* start uses the same identities over again.                              *)
(***************************************************************************)
EXTENDS TxChip

VARIABLES
    owed,     \* the completion not yet reported, or None
    issued    \* identities of every effect executed since the start (history)

vars == <<ctlVars, chip, owed, issued>>

Report == [id : EffectId, applied : BOOLEAN]

ASSUME NoneAssumption == None \notin Report

Init ==
    /\ CtlInit
    /\ ChipInit
    /\ owed = None
    /\ issued = {}

-----------------------------------------------------------------------------
(* Events.  Delivering one touches neither the chip nor the reports.       *)

Events ==
    /\ Press \/ Release \/ Tick \/ Invalidate \/ Fault \/ ClockBack
    /\ UNCHANGED <<chip, owed, issued>>

Surroundings ==
    /\ AdvanceTime \/ ChangeFacts
    /\ UNCHANGED <<chip, owed, issued>>

\* The poll that only tells the controller the time.
Ticking == Tick /\ UNCHANGED <<chip, owed, issued>>

\* Executes the pending effect once, after the controller has seen this time.
ExecuteEffect ==
    /\ owed = None
    /\ ctl.now = now
    /\ EffectGranted(ctl, policy, current)
    /\ \E outcome \in Execute(chip, Action(ctl.phase), current) :
         /\ chip' = outcome.chip
         /\ owed' = [id |-> Id(ctl), applied |-> outcome.done]
    /\ issued' = issued \cup {Id(ctl)}
    /\ UNCHANGED ctlVars

\* An effect refused for stale facts or lost authority: the target delivers
\* the invalidation before it asks again.
RejectEffect ==
    /\ owed = None
    /\ EffectDue(ctl)
    /\ ~EffectGranted(ctl, policy, current)
    /\ Invalidate
    /\ UNCHANGED <<chip, owed, issued>>

Acknowledge ==
    /\ owed # None
    /\ Deliver(Completed(owed.id, owed.applied))
    /\ owed' = None
    /\ UNCHANGED <<chip, issued>>

\* A report of an effect already reported, in either outcome.
Redeliver ==
    /\ \E id \in issued, applied \in BOOLEAN :
         /\ owed # None => owed.id # id
         /\ Deliver(Completed(id, applied))
    /\ UNCHANGED <<chip, owed, issued>>

\* At rest the interface task retunes the receiver (Receiver::tune).
Retune ==
    /\ State(ctl) \in {"Ready", "ReleaseRequired"}
    /\ \E outcome \in RestoreReceive(chip) : chip' = outcome.chip
    /\ UNCHANGED <<ctlVars, owed, issued>>

\* Power loss, watchdog or panic: a new controller, of the same instance as
\* every one before it, over the old chip outputs.  The clock counts from 0 again.
Restart ==
    /\ now' = 0
    /\ \E pttDown \in BOOLEAN : ctl' = NewController(Instance, pttDown, now')
    /\ chip' = Reset(chip)
    /\ owed' = None
    /\ issued' = {}
    /\ UNCHANGED <<policy, current>>

Next == Events \/ Surroundings \/ ExecuteEffect \/ RejectEffect
        \/ Acknowledge \/ Redeliver \/ Retune \/ Restart

Spec == Init /\ [][Next]_vars

(***************************************************************************)
(* Fairness.  The interface task calls handle and run_effects on every     *)
(* pass (every 5 ms), so the controller sees time go by and each pending   *)
(* effect is executed and reported.  The radio may restart any number of   *)
(* times, but not for ever: one that never stays up completes nothing.     *)
(* Nothing is assumed of the operator, of the facts, or of the outcome of  *)
(* any effect.                                                             *)
(***************************************************************************)
Fairness ==
    /\ WF_vars(AdvanceTime /\ UNCHANGED <<chip, owed, issued>>)
    /\ WF_vars(Ticking)
    /\ WF_vars(ExecuteEffect)
    /\ WF_vars(RejectEffect)
    /\ WF_vars(Acknowledge)
    /\ <>[][~Restart]_vars

FairSpec == Spec /\ Fairness

-----------------------------------------------------------------------------
(* Properties.                                                             *)

TypeOK ==
    /\ CtlTypeOK
    /\ chip \in Chip
    /\ owed \in Report \cup {None}
    /\ issued \in SUBSET EffectId

\* The receiver is restored, and the radio is at rest, only once the amplifier
\* and chip TX are really off and no cached word can switch the amplifier on.
SilentBeforeReceive ==
    ctl.phase \in {"StartupReceive", "ExitReceive", "Idle"} =>
        ~chip.pin /\ ~chip.mode /\ ~chip.paBit

\* The amplifier pin rises in one way: the PA effect of an entry whose press,
\* request, policy and deadline all still hold, with the chip on its channel.
KeyedWithAuthority ==
    [][ (~chip.pin /\ chip'.pin) =>
          /\ ctl.phase = "PaOn" /\ owed = None
          /\ ctl.accepted = current /\ current \in policy
          /\ now < ctl.deadline
          /\ chip.state = "Transmitting" /\ chip.tuned = current ]_vars

\* Transmitting is reported only when the accepted request really is on the
\* air: no late, duplicated or foreign report stands in for the PA effect.
TransmittingIsOnAir ==
    ctl.phase = "Transmitting" =>
        /\ OnAir(chip) /\ chip.state = "Transmitting"
        /\ chip.tuned = ctl.accepted

\* Within one start no identity is used for two effects, in whatever cycles and
\* shutdowns they fall, so a report names one effect (tx_control.rs, next_cycle).
IdentitiesUsedOnce ==
    [][ owed' # owed /\ owed' # None => owed'.id \notin issued ]_vars

\* A latched fault lets cleanup finish and then stops: it is never followed by
\* rest, and so never by another entry, without a restart.
FaultLatches ==
    ctl.fault => ctl.phase \notin Active \cup {"Idle"}

\* Entry and transmission never outlive the deadline of the accepted press.
WithinDeadline ==
    ctl.phase \in Active =>
        ctl.accepted \in Request /\ ctl.deadline \in Nat /\ ctl.now < ctl.deadline

\* Every entry or transmission ends, whatever the operator and the facts do.
EveryTransmissionEnds ==
    ctl.phase \in Active ~> ctl.phase \in {"Idle", "Faulted"}

\* An amplifier that is on is switched off, or the radio is left faulted.
AmplifierReleased ==
    chip.pin ~> (~chip.pin \/ ctl.phase = "Faulted")

\* The controller, driver and target implement the promised lifecycle.
Lifecycle == INSTANCE TxLifecycle
    WITH state <- State(ctl), held <- ctl.pressed, air <- OnAir(chip)
ImplementsLifecycle == Lifecycle!Spec
=============================================================================
