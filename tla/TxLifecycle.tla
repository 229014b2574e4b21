----------------------------- MODULE TxLifecycle -----------------------------
(***************************************************************************)
(* What the transmit path promises the operator, stated without phases,    *)
(* effects or registers: the public state of the controller, the PTT key,  *)
(* and whether the radio is on the air.                                    *)
(*                                                                         *)
(*   - a transmission begins only when the key goes down in Ready, and     *)
(*     lifting the key ends it;                                            *)
(*   - the radio goes on the air only in that transmission's entry, and    *)
(*     comes to rest only off the air;                                     *)
(*   - it comes to rest in ReleaseRequired while the key is held, so a     *)
(*     held key never begins a second transmission;                        *)
(*   - Faulted is left only by a restart, and never goes on the air.       *)
(***************************************************************************)

VARIABLES
    state,  \* Controller::state
    held,   \* the PTT key, as delivered to the controller
    air     \* the chip modulates and the amplifier is on

vars == <<state, held, air>>

Keyed   == {"Entering", "Transmitting"}
Resting == {"Ready", "ReleaseRequired"}
Rest(h) == IF h THEN "ReleaseRequired" ELSE "Ready"

Init == state = "Starting" /\ held \in BOOLEAN /\ air = FALSE

\* The key goes down in Ready: a transmission begins or is refused.
PressKey ==
    /\ state = "Ready"
    /\ state' \in {"Entering", "ReleaseRequired"}
    /\ held' = TRUE
    /\ UNCHANGED air

\* The key is lifted at rest.
ReleaseKey ==
    /\ state = "ReleaseRequired"
    /\ state' = "Ready"
    /\ held' = FALSE
    /\ UNCHANGED air

\* Anywhere else the key is only noted.
NoteKey ==
    /\ state \notin Resting \cup Keyed
    /\ held' \in BOOLEAN
    /\ UNCHANGED <<state, air>>

GoOnAir ==
    /\ state = "Entering"
    /\ air' = TRUE
    /\ UNCHANGED <<state, held>>

\* Only a radio on the air reports Transmitting.
Established ==
    /\ state = "Entering" /\ air
    /\ state' = "Transmitting"
    /\ UNCHANGED <<held, air>>

\* The key is lifted, or the deadline, lost authority or a failure ends it.
StopTransmission ==
    /\ state \in Keyed
    /\ state' = "ShuttingDown"
    /\ held' \in {held, FALSE}
    /\ UNCHANGED air

\* Facts change or a fault is reported at rest.
LeaveRest ==
    /\ state \in Resting
    /\ state' \in {"ShuttingDown", "Faulted"}
    /\ UNCHANGED <<held, air>>

LeaveAir ==
    /\ state \notin Resting
    /\ air' = FALSE
    /\ UNCHANGED <<state, held>>

\* Start-up or shutdown ends: at rest off the air, or Faulted.
Settle ==
    /\ state \in {"Starting", "ShuttingDown"}
    /\ \/ state' = Rest(held) /\ ~air
       \/ state' \in {"ShuttingDown", "Faulted"}
    /\ UNCHANGED <<held, air>>

\* The processor restarts, on or off the air.
Restart ==
    /\ state' = "Starting"
    /\ held' \in BOOLEAN
    /\ UNCHANGED air

Next == PressKey \/ ReleaseKey \/ NoteKey \/ GoOnAir \/ Established
        \/ StopTransmission \/ LeaveRest \/ LeaveAir \/ Settle \/ Restart

Spec == Init /\ [][Next]_vars
=============================================================================
