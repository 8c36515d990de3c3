---------------------------- MODULE PortsPromise ----------------------------
(***************************************************************************)
(* What the console configuration promises an administrator who is alone   *)
(* at it: an edit is one step, it changes the entry it is about and no     *)
(* other, it leaves a console in use alone, and no cable is given to two   *)
(* ports.                                                                  *)
(***************************************************************************)
CONSTANTS Port, Cable, File

VARIABLES
    entries,    \* for each file, each port's entry
    inUse       \* the ports some session has

Use(p) == p \notin inUse /\ inUse' = inUse \union {p} /\ UNCHANGED entries
Leave(p) == p \in inUse /\ inUse' = inUse \ {p} /\ UNCHANGED entries

\* Labels may be edited at any time.
Change(f, p, v) ==
    /\ f \in {"ports", "serial"} => p \notin inUse
    /\ f = "ports" /\ v \in Cable => \A q \in Port \ {p} : entries[f][q] # v
    /\ entries' = [entries EXCEPT ![f][p] = v]
    /\ UNCHANGED inUse

\* The value written is whatever the entry is afterwards.
Next ==
    \/ \E p \in Port : Use(p) \/ Leave(p)
    \/ \E f \in File, p \in Port : Change(f, p, entries'[f][p])
=============================================================================
