--------------------------- MODULE ReceiveControl ---------------------------
(***************************************************************************)
(* BankedReceiveController (radio-channel-control::banked): which channel  *)
(* of a source is tuned, and the scan that walks a view of them.           *)
(*                                                                         *)
(* The controller has no clock and no bus.  Each operation returns an      *)
(* update: the controller after it, the setup to tune, if any, and what    *)
(* becomes of the one timer: left, cancelled, or armed with the fresh      *)
(* token the controller now waits for.  An operation the controller        *)
(* refuses leaves it as it was.                                            *)
(*                                                                         *)
(* A source is a set of indices; the record at one of them may not be      *)
(* readable now.  The VFO is a source of its own with one record.  The     *)
(* radio arms neither the controller's own VFO nor its own dual watch.     *)
(***************************************************************************)
EXTENDS Integers, FiniteSetsExt

CONSTANTS
    Channels,   \* number of channels the memory holds
    Skipped,    \* those marked scan-skip
    Tokens,     \* bound of the model: timer tokens are counted modulo Tokens
    None        \* an absent Option

Channel == 0 .. Channels - 1
Vfo     == Channels
Token   == 0 .. Tokens - 1

Resume == {"TimeOut", "Carrier", "Stop"}

\* ReceiveState: Idle, or Scanning in one of its phases.
Phase == {"Idle", "Dwell", "Hold"}

Controller == [view : SUBSET (Channel \cup {Vfo}), index : Channel \cup {Vfo},
               phase : Phase, monitor : BOOLEAN,
               active : Token \cup {None}, next : Token]

\* ChannelReceiveSetup: a channel, the side of it that is heard, and whether
\* monitoring holds the squelch open.
Setup == [channel : Channel \cup {Vfo}, side : {"Receive", "Transmit"},
          open : BOOLEAN]

ASSUME ControlAssumption ==
    /\ Channels \in Nat \ {0} /\ Skipped \subseteq Channel
    /\ Tokens \in Nat \ {0, 1}
    /\ None \notin Nat /\ None \notin Controller /\ None \notin Setup

Scanning(c) == c.phase # "Idle"

SetupOf(c) == [channel |-> c.index, side |-> "Receive", open |-> c.monitor]

-----------------------------------------------------------------------------
(* Updates.                                                                *)

Same(c)     == [ctl |-> c, tune |-> None, timer |-> "Unchanged"]
Tuned(c)    == [ctl |-> c, tune |-> SetupOf(c), timer |-> "Unchanged"]
Cancelled(c) == [Same([c EXCEPT !.active = None]) EXCEPT !.timer = "Cancel"]

\* fresh_timer.
Armed(c) ==
    [Same([c EXCEPT !.active = c.next, !.next = (c.next + 1) % Tokens])
       EXCEPT !.timer = "Arm"]

-----------------------------------------------------------------------------
(* Selection.                                                              *)

CanRead(index, readable) == index = Vfo \/ index \in readable

\* neighbour, forwards: the walk comes round to where it started.
Following(set, from) ==
    LET ahead == {i \in set : i > from}
    IN  Min(IF ahead # {} THEN ahead ELSE set)

\* The channels a scan may walk: in the view, readable, and not skipped.
Walk(c, readable) == {i \in c.view : CanRead(i, readable)} \ Skipped

\* activate_at: the kept channel if the view still has it, else the first.
Activate(view, keep, readable) ==
    LET index == IF keep \in view THEN keep ELSE Min(view)
    IN  IF CanRead(index, readable)
          THEN [view |-> view, index |-> index, phase |-> "Idle",
                monitor |-> FALSE, active |-> None, next |-> 1]
          ELSE None

Select(c, index, readable) ==
    IF index \in c.view /\ CanRead(index, readable)
      THEN [Tuned([c EXCEPT !.index = index, !.phase = "Idle", !.active = None])
              EXCEPT !.timer = "Cancel"]
      ELSE Same(c)

SetMonitor(c, on) == Tuned([c EXCEPT !.monitor = on])

-----------------------------------------------------------------------------
(* The scan.                                                               *)

StartScanning(c, readable) ==
    IF Scanning(c) \/ Walk(c, readable) = {} THEN Same(c)
    ELSE Armed([c EXCEPT !.phase = "Dwell"])

StopScanning(c) ==
    IF Scanning(c) THEN Cancelled([c EXCEPT !.phase = "Idle"]) ELSE Same(c)

\* advance_scan: with nothing readable to go to, it dwells again where it is.
AdvanceScanOrFail(c, readable) ==
    LET there == [c EXCEPT !.phase = "Dwell",
                           !.index = Following(Walk(c, readable), c.index)]
    IN  IF Walk(c, readable) = {} THEN Same([c EXCEPT !.phase = "Dwell"])
        ELSE [Armed(there) EXCEPT !.tune = SetupOf(there)]
AdvanceScanInPlace(c, readable) ==
    [Armed([c EXCEPT !.phase = "Dwell"]) EXCEPT !.tune = SetupOf(c)]
AdvanceScan(c, readable) ==
    LET walk  == Walk(c, readable)
        there == [c EXCEPT !.phase = "Dwell", !.index = Following(walk, @)]
    IN  IF walk = {} THEN Armed([c EXCEPT !.phase = "Dwell"])
        ELSE [Armed(there) EXCEPT !.tune = SetupOf(there)]

SkipQuiet(c, readable) ==
    IF c.phase = "Dwell" THEN AdvanceScan(c, readable) ELSE Same(c)

RestartDwell(c) == IF c.phase = "Dwell" THEN Armed(c) ELSE Same(c)

\* observe, for a scan that resumes as `resume` says.
Observe(c, busy, resume, readable) ==
    CASE ~Scanning(c)             -> Same(c)
      [] Scanning(c) /\ busy /\ resume = "Stop" ->
             Cancelled([c EXCEPT !.phase = "Idle"])
      [] Scanning(c) /\ busy /\ resume # "Stop" ->
             Armed([c EXCEPT !.phase = "Hold"])
      [] c.phase = "Hold" /\ ~busy /\ resume = "Carrier" ->
             AdvanceScan(c, readable)
      [] OTHER                    -> Same(c)

\* timer_elapsed; a stale token changes nothing.
TimerElapsed(c, token, resume, readable) ==
    IF c.active # token \/ ~Scanning(c) THEN Same(c)
    ELSE IF c.phase = "Dwell" \/ resume = "TimeOut" THEN AdvanceScan(c, readable)
    ELSE Armed(c)
=============================================================================
