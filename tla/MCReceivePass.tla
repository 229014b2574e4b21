--------------------------- MODULE MCReceivePass ---------------------------
(* Instances of ReceivePass for TLC: two channels, of which one is duplex,  *)
(* and a list that may be narrowed to one of them.                          *)
EXTENDS ReceivePass

MCView == {Channel, {1}}
MCReadable == {{}, Channel}

InMode(mode) == [mode |-> mode, view |-> Channel]

\* Both slots on a memory channel, or either on its VFO.
MCStartPlace ==
    {[slot |-> InMode(mode), other |-> InMode(other), dual |-> TRUE] :
        mode \in {"Memory", "Vfo"}, other \in {"Memory", "Vfo"}}
    \cup {[slot |-> InMode("Memory"), other |-> InMode("Memory"), dual |-> FALSE]}

MCHostedPlace == {[slot |-> [mode |-> "Memory", view |-> {1}], kept |-> 1]}
=============================================================================
