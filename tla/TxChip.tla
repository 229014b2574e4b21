------------------------------- MODULE TxChip -------------------------------
(***************************************************************************)
(* The transmit and receive-restore operations of the BK4819 driver        *)
(* (radio-bk4819), at the grain of what a failed register write leaves     *)
(* behind.                                                                 *)
(*                                                                         *)
(* The power amplifier is one bit of the shared GPIO word.  The driver     *)
(* keeps that word in RAM (gpio_out) and rewrites all of it for the RX     *)
(* enable and filter switches, so the cached bit reaches the pin with any  *)
(* of those writes.  A failed write may or may not have reached the chip,  *)
(* and latches the driver state Faulted.                                   *)
(*                                                                         *)
(* Each operation is the set of its outcomes: the chip and the result.     *)
(***************************************************************************)
EXTENDS TxControl

VARIABLE chip

DriverState == {"Unknown", "Standby", "Receiving", "PreparedTransmit",
                "Transmitting", "Faulted"}

Chip == [
    state : DriverState,            \* what the driver believes
    tuned : Request \cup {None},    \* the request prepared or transmitted
    paBit : BOOLEAN,                \* PA enable in the cached GPIO word
    pin   : BOOLEAN,                \* PA enable on the chip's output
    mode  : BOOLEAN]                \* chip TX entered in REG_30

\* On the air: the chip modulates and the amplifier is on.
OnAir(k) == k.pin /\ k.mode

Outcome(k, done) == [chip |-> k, done |-> done]

\* The outputs as far as the sequence of register writes had come.
WithPin(k, on) == [k EXCEPT !.pin = on]
WithMode(k, on) == [k EXCEPT !.mode = on]
WithPaBit(k, on) == [k EXCEPT !.paBit = on]

\* A register write fails, leaving the chip in one of these conditions.
Latched(k) == [k EXCEPT !.state = "Faulted", !.tuned = None]
Fail(chips) == {Outcome(Latched(k), FALSE) : k \in chips}

Reset(k) == [k EXCEPT !.state = "Unknown", !.tuned = None, !.paBit = FALSE]

\* Only the pin is cleared, not the word the next GPIO write sends.
DisablePaPinOnly(k) == {Outcome(WithPin(k, FALSE), TRUE)}

\* Bk4819::disable_pa: zero bias, then clear the bit and write the word.
DisablePa(k) ==
    LET cleared == WithPaBit(k, FALSE)
    IN  {Outcome(WithPin(cleared, FALSE), TRUE)}
        \cup Fail({k, cleared, WithPin(cleared, FALSE)})

\* Bk4819::disable_transmit: neutral mode from any state.
DisableTransmit(k) ==
    {Outcome([WithMode(k, FALSE) EXCEPT !.state = "Standby", !.tuned = None], TRUE)}
    \cup Fail({k, WithMode(k, FALSE)})

Refused(k) == {Outcome(k, FALSE)}

ReceivePath == {"Standby", "Receiving"}

\* Receiver::tune.  A broadcast channel switches the path and puts the chip to
\* sleep; any other is configure_receive, which goes neutral, then switches the
\* path.  A setup that is missing or cannot be encoded is refused unwritten.
RestoreReceive(k) ==
    LET switched == WithPin(k, k.paBit)
        both     == WithMode(switched, FALSE)
    IN  IF k.state \notin ReceivePath THEN Refused(k)
        ELSE {Outcome([both EXCEPT !.state = s, !.tuned = None], TRUE) :
                s \in ReceivePath}
             \cup Refused(k)
             \cup Fail({k, switched, WithMode(k, FALSE), both})

\* Bk4819::prepare_transmit.
PrepareTransmit(k, r) ==
    LET switched == WithPin(k, k.paBit)
    IN  IF k.state \notin ReceivePath THEN Refused(k)
        ELSE {Outcome([switched EXCEPT !.state = "PreparedTransmit", !.tuned = r],
                      TRUE)}
             \cup Refused(k)
             \cup Fail({k, switched})

\* Bk4819::enable_transmit.
EnableTransmit(k, r) ==
    IF k.state # "PreparedTransmit" \/ k.tuned # r THEN Refused(k)
    ELSE {Outcome([WithMode(k, TRUE) EXCEPT !.state = "Transmitting"], TRUE)}
         \cup Fail({k, WithMode(k, TRUE)})

\* Bk4819::enable_pa, set_pa_bias and set_transmit_tone: the filter path is
\* switched with the amplifier still off, then the bit is set and written.
EnablePa(k, r) ==
    LET switched == WithPin(k, k.paBit)
        set      == WithPaBit(switched, TRUE)
    IN  IF k.state # "Transmitting" \/ k.tuned # r THEN Refused(k)
        ELSE {Outcome(WithPin(set, TRUE), TRUE)}
             \cup Refused(k)
             \cup Fail({k, switched, set, WithPin(set, TRUE)})

\* transmit::execute: the operation an effect names, on the driver.
Execute(k, action, r) ==
    CASE action = "DisablePa"       -> DisablePa(k)
      [] action = "DisableTransmit" -> DisableTransmit(k)
      [] action = "RestoreReceive"  -> RestoreReceive(k)
      [] action = "PrepareTransmit" -> PrepareTransmit(k, r)
      [] action = "EnableTransmit"  -> EnableTransmit(k, r)
      [] OTHER                      -> EnablePa(k, r)

\* After power-on nothing is known; the amplifier is off.
ChipInit ==
    chip = [state |-> "Unknown", tuned |-> None, paBit |-> FALSE,
            pin |-> FALSE, mode |-> FALSE]
=============================================================================
