------------------------------ MODULE KeyRegistry ------------------------------
(***************************************************************************)
(* What the keypair lifecycle of `kleya launch` promises, with none of the *)
(* steps it takes: a private key is made on one machine and never replaced *)
(* there, and the name in EC2 is only ever given a public key whose        *)
(* private half some machine holds.                                        *)
(***************************************************************************)
CONSTANTS Machines, Keys, NoFile, NoKey, Foreign, Drift

VARIABLES pem, cloud

vars == <<pem, cloud>>

Init == /\ pem = [m \in Machines |-> NoFile]
        /\ cloud \in {NoKey, Foreign}

(* A key no other machine has appears in a store that had none. *)
Generate(m, k) == /\ pem[m] = NoFile
                  /\ \A n \in Machines : pem[n] # k
                  /\ pem' = [pem EXCEPT ![m] = k]
                  /\ UNCHANGED cloud

(* The name is free, and gets the key of machine m. *)
Register(m) == /\ cloud = NoKey
               /\ pem[m] \in Keys
               /\ cloud' = pem[m]
               /\ UNCHANGED pem

Revoke == /\ cloud' = NoKey
          /\ UNCHANGED pem

(* Someone who is not kleya puts a key of their own under the name. *)
Rotate == /\ Drift
          /\ cloud' = Foreign
          /\ UNCHANGED pem

Next == \/ \E m \in Machines, k \in Keys : Generate(m, k)
        \/ \E m \in Machines : Register(m)
        \/ Revoke
        \/ Rotate

Spec == Init /\ [][Next]_vars
================================================================================
