---------------------------- MODULE MCImagerGuard ----------------------------
(* Small instances of ImagerGuard for TLC: every payload of up to two       *)
(* calls and the usual ones of three, with a good key, a second one and a  *)
(* text that is no key.                                                     *)
EXTENDS ImagerGuard

CONSTANTS good, other, junk, none

MCKeys == {good, other, junk}
MCEd25519 == {good, other}

MCCalls == {[op |-> "user_config", arg |-> "consolepi"],
            [op |-> "user_config", arg |-> "root"],
            [op |-> "enable_ssh", arg |-> good],
            [op |-> "enable_ssh", arg |-> other],
            [op |-> "enable_ssh", arg |-> junk],
            [op |-> "set_hostname", arg |-> "clean"],
            [op |-> "set_wlan", arg |-> "clean"],
            [op |-> "direct", arg |-> "password"],
            [op |-> "direct", arg |-> "account"],
            [op |-> "direct", arg |-> "profile"]}

MCUsual == {call \in MCCalls : call.arg \in {"consolepi", "clean", good}}

MCScripts == UNION {[1..n -> MCCalls] : n \in 0..2} \cup
  {<<a, b, c>> : a \in MCUsual, b \in MCUsual, c \in MCUsual}
=============================================================================
