---------------------------- MODULE ReleasePromise ----------------------------
(***************************************************************************)
(* What an offline update promises the administrator who reads its status: *)
(* programs, VERSION and web application change only while an update is    *)
(* said to be under way; VERSION only grows, once the programs have been   *)
(* replaced and before the rest has; "done" is said of a device in one     *)
(* piece, and "ready" of one whose last update was done.  Whoever installs *)
(* what, and whatever is cut off, is left open.                            *)
(***************************************************************************)
EXTENDS Naturals

CONSTANT First      \* the version the device is delivered with

VARIABLES
    word,           \* "ready", "busy", "failed" or "done"
    installed,      \* VERSION
    whole           \* all parts are of that version

vars == <<word, installed, whole>>

Init == word = "ready" /\ installed = First /\ whole = TRUE

Begin == word \in {"ready", "failed"} /\ word' = "busy" /\ UNCHANGED <<installed, whole>>

\* A part is being replaced.
Break == word = "busy" /\ ~whole' /\ UNCHANGED <<word, installed>>

Advance ==
    /\ word = "busy" /\ ~whole
    /\ installed' > installed
    /\ UNCHANGED <<word, whole>>

Mend == word = "busy" /\ ~whole /\ whole' /\ UNCHANGED <<word, installed>>

Fail == word = "busy" /\ word' = "failed" /\ UNCHANGED <<installed, whole>>
Finish == word = "busy" /\ whole /\ word' = "done" /\ UNCHANGED <<installed, whole>>
Acknowledge == word = "done" /\ word' = "ready" /\ UNCHANGED <<installed, whole>>

Next == Begin \/ Break \/ Advance \/ Mend \/ Fail \/ Finish \/ Acknowledge

Spec == Init /\ [][Next]_vars
=============================================================================
