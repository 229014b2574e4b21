----------------------------- MODULE MCAppTasks -----------------------------
(* Instances of AppTasks for TLC.                                           *)
EXTENDS AppTasks

\* An image of two channels with the default squelch, and the place a studio
\* starts it on.
MCHosted == {[channels |-> Channel, squelch |-> Conservative, dual |-> FALSE]}
MCHostedPlace ==
    {[mode |-> "memory", channel |-> Max(Channel), squelch |-> Conservative,
      dual |-> FALSE]}
=============================================================================
