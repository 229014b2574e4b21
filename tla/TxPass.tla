------------------------------- MODULE TxPass -------------------------------
(***************************************************************************)
(* The transmit part of one pass of the interface task                     *)
(* (radio-app::interface), with the PTT filter in front of the controller  *)
(* (radio-platform::ptt) and run_effects behind it.                        *)
(*                                                                         *)
(* A pass takes one time, one raw key sample and one set of facts, and     *)
(* uses them to its end.  The serial task shares the executor, so a host   *)
(* request is raised only between passes; the key and the clock move at    *)
(* any moment.                                                             *)
(***************************************************************************)
EXTENDS TxControl

CONSTANTS
    Debounce,    \* PRESS_DEBOUNCE_MS
    Quiet,       \* SERIAL_QUIET_MS
    MaxEffects   \* MAX_EFFECTS_PER_PASS

ASSUME PassAssumption ==
    Debounce \in Nat \ {0} /\ Quiet \in Nat \ {0} /\ MaxEffects \in Nat \ {0}

ASSUME ControllerAssumption == None \notin Controller

VARIABLES
    filter,   \* the PttFilter
    raw,      \* the PTT input reads pressed
    host,     \* SERIAL_ACTIVITY is signalled
    at,       \* tx_now, the time the pass uses
    turn,     \* where the interface task is
    left,     \* effects this pass may still run
    seen      \* history: what the samples so far have shown

passVars == <<ctlVars, filter, raw, host, at, turn, left, seen>>

Filter == [pressed : BOOLEAN, lowSince : 0..MaxMs \cup {None},
           quietUntil : 0..(MaxMs + Quiet)]

\* low: time of the first of the latest run of pressed samples.
\* asked: time of the last host request taken.
\* lifted: a sample has shown the key up since the last entry.
Seen == [low : 0..MaxMs \cup {None}, asked : 0..MaxMs \cup {None},
         lifted : BOOLEAN]

-----------------------------------------------------------------------------
(* PttFilter.                                                              *)

NewFilter(down, t) ==
    [pressed |-> down, lowSince |-> IF down THEN t ELSE None, quietUntil |-> 0]

SerialActivityShort(f, t) == [f EXCEPT !.quietUntil = t]
SerialActivity(f, t) == [f EXCEPT !.quietUntil = t + Quiet]

\* A run of low readings is begun again by any reading that does not count.
LowSinceKept(f, t, down) ==
    IF ~down THEN None
    ELSE IF f.lowSince # None THEN f.lowSince
    ELSE t
LowSince(f, t, down) ==
    IF ~down \/ t < f.quietUntil THEN None
    ELSE IF f.lowSince # None THEN f.lowSince
    ELSE t

\* PttFilter::level and sample.
Sample(f, t, down) ==
    LET since == LowSince(f, t, down)
    IN  [f EXCEPT !.lowSince = since,
                  !.pressed = /\ down /\ t >= f.quietUntil
                              /\ f.pressed \/ t - since >= Debounce]

EventLevel(was, is) == IF is THEN PressedEvent ELSE TickEvent
Event(was, is) ==
    CASE ~was /\ is -> PressedEvent
      [] was /\ ~is -> ReleasedEvent
      [] OTHER      -> TickEvent

-----------------------------------------------------------------------------
(* The pass.                                                               *)

\* The controller of this pass.  It is made once the receiver has a channel,
\* with the key as the filter has just read it.
ControllerUp(f, t) == IF ctl = None THEN NewController(Instance, FALSE, t) ELSE ctl
ControllerHeld(f, t) == IF ctl = None THEN NewController(Instance, TRUE, t) ELSE ctl
ThisController(f, t) == IF ctl = None THEN NewController(Instance, f.pressed, t) ELSE ctl

ShareShort == MaxEffects - 2
Share == MaxEffects

StartPass ==
    LET taken == Sample(IF host THEN SerialActivity(filter, now) ELSE filter,
                        now, raw)
        event == Event(filter.pressed, taken.pressed)
    IN  /\ turn = "wait"
        /\ at' = now
        /\ host' = FALSE
        /\ filter' = taken
        /\ policy' \in SUBSET Request
        /\ current' \in Request
        /\ \/ \* no channel yet, so no controller
              /\ ctl = None
              /\ UNCHANGED <<ctl, turn, left>>
           \/ /\ ctl' = Handle(ThisController(taken, now), now, event, policy', current')
              /\ turn' = "effects"
              /\ left' = Share
        /\ seen' = [low    |-> IF ~raw THEN None
                               ELSE IF seen.low = None THEN now ELSE seen.low,
                    asked  |-> IF host THEN now ELSE seen.asked,
                    lifted |-> IF ctl' # None /\ ctl'.phase = "EntryPa"
                                 THEN FALSE ELSE seen.lifted \/ ~raw]
        /\ UNCHANGED <<now, raw>>

\* run_effects: one effect is executed and reported, or is refused for its
\* facts and answered by Invalidated.
RunEffect ==
    /\ turn = "effects" /\ left > 0 /\ EffectDue(ctl)
    /\ \E applied \in BOOLEAN :
         ctl' = Handle(ctl, at,
                       IF EffectGranted(ctl, policy, current)
                         THEN Completed(Id(ctl), applied) ELSE Invalidation,
                       policy, current)
    /\ left' = left - 1
    /\ UNCHANGED <<now, policy, current, filter, raw, host, at, turn, seen>>

\* Nothing is pending, or the pass has run its share.
EndPass ==
    /\ turn = "effects" /\ (left = 0 \/ ~EffectDue(ctl))
    /\ turn' = "wait"
    /\ left' = 0
    /\ UNCHANGED <<ctlVars, filter, raw, host, at, seen>>

MoveKey ==
    /\ raw' = ~raw
    /\ UNCHANGED <<ctlVars, filter, host, at, turn, left, seen>>

HostRequest ==
    /\ turn = "wait" /\ ~host
    /\ host' = TRUE
    /\ UNCHANGED <<ctlVars, filter, raw, at, turn, left, seen>>

PassTime ==
    /\ AdvanceTime
    /\ UNCHANGED <<filter, raw, host, at, turn, left, seen>>

PassInit ==
    /\ ctl = None
    /\ now = 0 /\ at = 0
    /\ policy \in SUBSET Request /\ current \in Request
    /\ raw \in BOOLEAN
    /\ filter = NewFilter(raw, now)
    /\ host = FALSE
    /\ turn = "wait" /\ left = 0
    /\ seen = [low |-> IF raw THEN now ELSE None, asked |-> None,
               lifted |-> ~raw]

PassNext == StartPass \/ RunEffect \/ EndPass
            \/ MoveKey \/ HostRequest \/ PassTime

PassSpec == PassInit /\ [][PassNext]_passVars

\* The executor polls the interface task, and a pass runs to its end.
FairPassSpec ==
    PassSpec /\ WF_passVars(StartPass)
             /\ WF_passVars(RunEffect \/ EndPass)

-----------------------------------------------------------------------------
(* Properties.                                                             *)

PassTypeOK ==
    /\ ctl \in Controller \cup {None}
    /\ now \in 0..MaxMs /\ at \in 0..now
    /\ policy \in SUBSET Request /\ current \in Request
    /\ filter \in Filter /\ seen \in Seen
    /\ raw \in BOOLEAN /\ host \in BOOLEAN
    /\ turn \in {"wait", "effects"} /\ left \in 0..MaxEffects

\* The filter hands over edges only, so the controller's key must never differ
\* from the filter's: a lost edge would hold the radio keyed or refuse it for
\* good.
KeyAgrees == ctl # None => ctl.pressed = filter.pressed

\* An entry begins only on a key that every sample of the last Debounce ms has
\* shown down, with no host request in the quiet window before that.
EntryNeedsSteadyKey ==
    [][ (ctl # None /\ ctl.phase = "Idle" /\ ctl'.phase = "EntryPa") =>
          /\ seen'.low # None /\ at' - seen'.low >= Debounce
          /\ seen'.asked # None => at' - seen'.asked >= Quiet + Debounce ]_passVars

\* A lifted key or a host request ends any transmission in the pass that sees it.
StopsInThePass ==
    [][ (StartPass /\ ctl # None /\ (~raw \/ host)) => ctl'.phase \notin Active ]_passVars

\* A pass leaves no operation pending but the last disable of a shutdown whose
\* entry and receive restoration have both failed.
PassSettles ==
    ctl # None /\ turn = "wait" =>
        ctl.phase \in {"Idle", "Transmitting", "Faulted", "FaultTx"}

\* The facts of a pass do not change under its effects: each entry effect the
\* pass reaches is granted, or the controller has already begun to stop.
NoRefusalInPass ==
    turn = "effects" /\ EffectDue(ctl) => EffectGranted(ctl, policy, current)

\* Once the key stays up the radio comes to Ready, or is faulted, for good.
LiftedKeyRearms ==
    <>[]~raw => <>[](ctl = None \/ State(ctl) \in {"Ready", "Faulted"})

\* What docs/tx-control.md says of a held key: it never begins two entries.
OneEntryPerPress ==
    [][ (ctl # None /\ ctl.phase = "Idle" /\ ctl'.phase = "EntryPa") =>
          seen.lifted ]_passVars
=============================================================================
