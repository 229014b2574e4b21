---------------------------- MODULE AtomicImage -----------------------------
(***************************************************************************)
(* What a retained configuration promises, without slots, blocks or        *)
(* generations: one image that an attempt replaces in a single step or not *)
(* at all.  An attempt reported as stored has replaced it; one that was    *)
(* interrupted may or may not have.                                        *)
(***************************************************************************)
CONSTANTS Image, None

VARIABLES
    image,     \* what a start would read back
    attempt    \* the image being stored

Init == image \in Image \cup {None} /\ attempt = None

Begin ==
    /\ attempt = None
    /\ attempt' \in Image
    /\ UNCHANGED image

(* The one step that replaces the image, which also ends a stored attempt. *)
Replace ==
    /\ attempt # None
    /\ image' = attempt
    /\ attempt' = None

GiveUp ==
    /\ attempt # None
    /\ attempt' = None
    /\ UNCHANGED image

Next == Begin \/ Replace \/ GiveUp

Spec == Init /\ [][Next]_<<image, attempt>>
=============================================================================
