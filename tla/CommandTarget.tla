----------------------------- MODULE CommandTarget -----------------------------
(***************************************************************************)
(* What `launch`, `connect` and `terminate` promise about instances,       *)
(* without the steps they take: a command takes one instance in hand and   *)
(* keeps it to its end, one that it launched, that was given by its id, or *)
(* that was the only one of kleya's with the given name; and a command     *)
(* that reports an error has changed nothing but what it launched.         *)
(***************************************************************************)
CONSTANTS Launchers, Connectors, Terminators, Instances, Theirs,
          Names, NameOf, NoInstance

VARIABLES handle, target, state, result

vars == <<handle, target, state, result>>

Procs == Launchers \cup Connectors \cup Terminators

Listed == {i \in Instances : state[i] \in {"pending", "running", "down"}}

Init == /\ handle \in [Connectors \cup Terminators -> Instances \cup Names]
        /\ target = [p \in Procs |-> NoInstance]
        /\ state = [i \in Instances |-> IF i \in Theirs THEN "running" ELSE "none"]
        /\ result = [p \in Procs |-> "none"]

Launch(p) == /\ p \in Launchers /\ result[p] = "none" /\ target[p] = NoInstance
             /\ target' = [target EXCEPT ![p] = p]
             /\ state' = [state EXCEPT ![p] = "created"]
             /\ UNCHANGED <<handle, result>>

OnlyOneNamed(i, n) == {j \in Listed \ Theirs : NameOf[j] = n} = {i}

(* What is found may still be refused, in the same step. *)
Resolve(p, i) == /\ p \notin Launchers /\ result[p] = "none" /\ target[p] = NoInstance
                 /\ i = handle[p] \/ OnlyOneNamed(i, handle[p])
                 /\ target' = [target EXCEPT ![p] = i]
                 /\ result' \in {result, [result EXCEPT ![p] = "error"]}
                 /\ UNCHANGED <<handle, state>>

Succeed(p) ==
  /\ result[p] = "none" /\ target[p] # NoInstance
  /\ \/ /\ p \in Launchers /\ UNCHANGED state
        /\ \E r \in {"done", "ssh"} : result' = [result EXCEPT ![p] = r]
     \/ /\ p \in Connectors /\ target[p] \notin Theirs /\ UNCHANGED state
        /\ result' = [result EXCEPT ![p] = "ssh"]
     \/ /\ p \in Terminators /\ target[p] \in Listed
        /\ state' = [state EXCEPT ![target[p]] = "down"]
        /\ result' = [result EXCEPT ![p] = "done"]
  /\ UNCHANGED <<handle, target>>

Fail(p) == /\ result[p] = "none"
           /\ result' = [result EXCEPT ![p] = "error"]
           /\ UNCHANGED <<handle, target, state>>

(* EC2 moves an instance on; one of a launch it does not begin.            *)
World(i) == /\ i \notin Theirs
            /\ state[i] = "none" => i \notin Launchers
            /\ \E s \in {"pending", "running", "down", "gone"} :
                 state' = [state EXCEPT ![i] = s]
            /\ UNCHANGED <<handle, target, result>>

Next == \/ \E p \in Procs : \/ Launch(p) \/ Succeed(p) \/ Fail(p)
                            \/ \E i \in Instances : Resolve(p, i)
        \/ \E i \in Instances : World(i)

Spec == Init /\ [][Next]_vars
================================================================================
