---------------------------- MODULE ImagerPromise ----------------------------
(***************************************************************************)
(* What a generic image promises about the customisation that Raspberry Pi *)
(* Imager asks for, whatever order the guards, the validation, crashes and *)
(* restarts come in: it is decided once.  An open customisation is either  *)
(* imported, with one administrator key, or failed; neither verdict is     *)
(* ever withdrawn, and services start only on an imported one.             *)
(***************************************************************************)
CONSTANTS Keys,     \* public keys that Imager may hand over
          NoKey     \* no key: the customisation is not imported

VARIABLES verdict,  \* "open", "failed" or "imported"
          key,      \* the administrator key the device works with
          up        \* SSH and the web have been released at this start

vars == <<verdict, key, up>>

Init == verdict = "open" /\ key = NoKey /\ ~up

Fail == verdict = "open" /\ verdict' = "failed" /\ UNCHANGED <<key, up>>

Import(k) == /\ verdict = "open"
             /\ verdict' = "imported" /\ key' = k
             /\ UNCHANGED up

Release == verdict = "imported" /\ up' = TRUE /\ UNCHANGED <<verdict, key>>

PowerOff == up' = FALSE /\ UNCHANGED <<verdict, key>>

Next == Fail \/ Release \/ PowerOff \/ \E k \in Keys : Import(k)

Spec == Init /\ [][Next]_vars
=============================================================================
