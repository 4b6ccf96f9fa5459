------------------------------- MODULE PollUntil -------------------------------
(***************************************************************************)
(* What a kleya poll loop promises its caller: it concludes once, it gives *)
(* up only when its time is over, it says cancelled only when the operator *)
(* pressed Ctrl-C, and it never takes longer than a stated bound.          *)
(* instance_wait_running and probe_ssh_ready both implement it.            *)
(***************************************************************************)
EXTENDS Integers

CONSTANTS Timeout,  \* the deadline given to the loop
          Longest   \* no loop is still waiting after this time

VARIABLES elapsed, cancelled, result

vars == <<elapsed, cancelled, result>>

Results == {"none", "ready", "timeout", "cancelled", "failed"}

Init == elapsed = 0 /\ cancelled \in BOOLEAN /\ result = "none"

Interrupt == /\ cancelled' = TRUE
             /\ UNCHANGED <<elapsed, result>>

(* Time passes while the loop asks or sleeps, and the loop may conclude. *)
Poll == /\ result = "none"
        /\ elapsed' \in elapsed .. Longest
        /\ result' \in Results
        /\ result' = "timeout" => elapsed' >= Timeout
        /\ result' = "cancelled" => cancelled
        /\ UNCHANGED cancelled

Next == Interrupt \/ Poll

Spec == Init /\ [][Next]_vars
================================================================================
