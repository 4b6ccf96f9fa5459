-------------------------- MODULE KeyLifecycleProofs --------------------------
(***************************************************************************)
(* What TLAPS checks about KeyLifecycle, for every set of processes and    *)
(* machines.                                                               *)
(***************************************************************************)
EXTENDS KeyLifecycle, Integers, TLAPS

(* A step is a stutter, a teammate's, or one of these of some process. *)
LEMMA StepCases ==
  ASSUME [Next]_vars
  PROVE  \/ UNCHANGED vars
         \/ Teammate
         \/ \E p \in Procs :
              \/ Start(p) \/ Describe(p) \/ Compare(p) \/ ReadPublic(p)
              \/ Delete(p) \/ DeleteConfirm(p) \/ Open(p) \/ Write(p)
              \/ Ensure(p) \/ Import(p) \/ Confirm(p) \/ RunInstances(p)
              \/ Failure(p)
  BY DEF Next, Advance

(* A complete pem is kept, and a file is never removed. *)
LEMMA PemStep ==
  ASSUME KeyInv, [Next]_vars
  PROVE  \A m \in Machines : /\ pem[m] \in Procs => pem'[m] = pem[m]
                             /\ pem[m] # NoFile => pem'[m] # NoFile
  <1> USE ProcsAssumption, ValuesAssumption DEF KeyInv, TypeOK
  <1>1. CASE UNCHANGED pem
    BY <1>1
  <1>2. ASSUME NEW p \in Procs, Open(p)
        PROVE  \/ UNCHANGED pem
               \/ /\ Pem(p) = NoFile
                  /\ pem' = [pem EXCEPT ![MachineOf[p]] = Truncated]
    BY <1>2 DEF Open
  <1>3. ASSUME NEW p \in Procs, Write(p)
        PROVE  /\ Pem(p) = Truncated
               /\ pem' = [pem EXCEPT ![MachineOf[p]] = p]
    BY <1>3 DEF Write, Goto, OneWriter
  <1>4. CASE \E p \in Procs : Open(p) \/ Write(p)
    BY <1>2, <1>3, <1>4 DEF Pem
  <1>5. QED
    BY <1>1, <1>4, StepCases
       DEF vars, Teammate, Start, Describe, Compare, ReadPublic, Delete,
           DeleteConfirm, Ensure, Import, Confirm, RunInstances, Failure,
           CallFails, StoreFails, Crash

(* Every action keeps the types; ReadPublic needs the file it reads. *)
LEMMA TypeOKStep == TypeOK /\ FilesStay /\ [Next]_vars => TypeOK'
  <1> USE ProcsAssumption, ValuesAssumption
      DEF TypeOK, Goto, Steps, Ended, Errors, CloudKeys, Pem
  <1> SUFFICES ASSUME TypeOK, FilesStay, [Next]_vars PROVE TypeOK'
    OBVIOUS
  <1>1. CASE UNCHANGED vars
    BY <1>1 DEF vars
  <1>2. CASE Teammate
    BY <1>2 DEF Teammate
  <1>3. ASSUME NEW p \in Procs, Start(p) PROVE TypeOK'
    BY <1>3 DEF Start
  <1>4. ASSUME NEW p \in Procs, Describe(p) PROVE TypeOK'
    BY <1>4 DEF Describe, AfterObserve
  <1>5. ASSUME NEW p \in Procs, Compare(p) PROVE TypeOK'
    BY <1>5 DEF Compare
  <1>6. ASSUME NEW p \in Procs, ReadPublic(p) PROVE TypeOK'
    BY <1>6 DEF ReadPublic, FilesStay
  <1>7. ASSUME NEW p \in Procs, Delete(p) PROVE TypeOK'
    BY <1>7 DEF Delete
  <1>8. ASSUME NEW p \in Procs, DeleteConfirm(p) PROVE TypeOK'
    BY <1>8 DEF DeleteConfirm
  <1>9. ASSUME NEW p \in Procs, Open(p) PROVE TypeOK'
    BY <1>9 DEF Open
  <1>10. ASSUME NEW p \in Procs, Write(p) PROVE TypeOK'
    BY <1>10 DEF Write
  <1>11. ASSUME NEW p \in Procs, Ensure(p) PROVE TypeOK'
    BY <1>11 DEF Ensure
  <1>12. ASSUME NEW p \in Procs, Import(p) PROVE TypeOK'
    BY <1>12 DEF Import
  <1>13. ASSUME NEW p \in Procs, Confirm(p) PROVE TypeOK'
    BY <1>13 DEF Confirm
  <1>14. ASSUME NEW p \in Procs, RunInstances(p) PROVE TypeOK'
    BY <1>14 DEF RunInstances
  <1>15. ASSUME NEW p \in Procs, Failure(p) PROVE TypeOK'
    BY <1>15 DEF Failure, CallFails, StoreFails, Crash
  <1>16. QED
    BY <1>1, <1>2, <1>3, <1>4, <1>5, <1>6, <1>7, <1>8, <1>9, <1>10, <1>11,
       <1>12, <1>13, <1>14, <1>15, StepCases

(* KeyInv is inductive: one step per action, and under the actions that    *)
(* change pem or cloud one step per conjunct they can disturb.             *)
LEMMA KeyInvStep == KeyInv /\ [Next]_vars => KeyInv'
  <1> SUFFICES ASSUME KeyInv, [Next]_vars PROVE KeyInv'
    OBVIOUS
  <1> USE ProcsAssumption, ValuesAssumption, PemStep DEF TypeOK, Goto, Pem
  <1> DEFINE Rest == /\ FilesStay
                     /\ OneWriter
                     /\ KeysStayHome
                     /\ OfferIsLocal
                     /\ RegisteredKeyIsHeld
  <1>a. TypeOK /\ Rest
    BY DEF KeyInv
  <1>b. TypeOK'
    BY <1>a, TypeOKStep
  <1>1. ASSUME UNCHANGED vars PROVE Rest'
    BY <1>a, <1>1 DEF vars, FilesStay, OneWriter, KeysStayHome, OfferIsLocal,
                       RegisteredKeyIsHeld
  <1>2. ASSUME Teammate PROVE Rest'
    BY <1>a, <1>2 DEF Teammate, FilesStay, OneWriter, KeysStayHome, OfferIsLocal,
                       RegisteredKeyIsHeld
  <1>3. ASSUME NEW p \in Procs, Start(p) PROVE Rest'
    BY <1>a, <1>3
       DEF Start, FilesStay, OneWriter, KeysStayHome, OfferIsLocal,
           RegisteredKeyIsHeld
  <1>4. ASSUME NEW p \in Procs, Describe(p) PROVE Rest'
    BY <1>a, <1>4
       DEF Describe, AfterObserve, FilesStay, OneWriter, KeysStayHome, OfferIsLocal,
           RegisteredKeyIsHeld
  <1>5. ASSUME NEW p \in Procs, Compare(p) PROVE Rest'
    BY <1>a, <1>5
       DEF Compare, FilesStay, OneWriter, KeysStayHome, OfferIsLocal,
           RegisteredKeyIsHeld
  <1>6. ASSUME NEW p \in Procs, ReadPublic(p) PROVE Rest'
    BY <1>a, <1>6
       DEF ReadPublic, FilesStay, OneWriter, KeysStayHome, OfferIsLocal,
           RegisteredKeyIsHeld
  <1>7. ASSUME NEW p \in Procs, Delete(p) PROVE Rest'
    BY <1>a, <1>7
       DEF Delete, FilesStay, OneWriter, KeysStayHome, OfferIsLocal,
           RegisteredKeyIsHeld
  <1>8. ASSUME NEW p \in Procs, DeleteConfirm(p) PROVE Rest'
    BY <1>a, <1>8
       DEF DeleteConfirm, FilesStay, OneWriter, KeysStayHome, OfferIsLocal,
           RegisteredKeyIsHeld
  <1>9. ASSUME NEW p \in Procs, Open(p) PROVE Rest'
    <2>1. FilesStay'
      BY <1>a, <1>9 DEF Open, FilesStay
    <2>2. OneWriter'
      BY <1>a, <1>9 DEF Open, OneWriter
    <2>3. KeysStayHome'
      BY <1>a, <1>9 DEF Open, KeysStayHome
    <2>4. OfferIsLocal'
      BY <1>a, <1>9 DEF Open, OfferIsLocal
    <2>5. RegisteredKeyIsHeld'
      BY <1>a, <1>9 DEF Open, RegisteredKeyIsHeld
    <2>6. QED
      BY <2>1, <2>2, <2>3, <2>4, <2>5
  <1>10. ASSUME NEW p \in Procs, Write(p) PROVE Rest'
    <2>1. FilesStay'
      BY <1>a, <1>10 DEF Write, FilesStay
    <2>2. OneWriter'
      BY <1>a, <1>10 DEF Write, OneWriter
    <2>3. KeysStayHome'
      BY <1>a, <1>10 DEF Write, KeysStayHome
    <2>4. OfferIsLocal'
      BY <1>a, <1>10 DEF Write, OfferIsLocal
    <2>5. RegisteredKeyIsHeld'
      BY <1>a, <1>10 DEF Write, RegisteredKeyIsHeld
    <2>6. QED
      BY <2>1, <2>2, <2>3, <2>4, <2>5
  <1>11. ASSUME NEW p \in Procs, Ensure(p) PROVE Rest'
    BY <1>a, <1>11
       DEF Ensure, FilesStay, OneWriter, KeysStayHome, OfferIsLocal,
           RegisteredKeyIsHeld
  <1>12. ASSUME NEW p \in Procs, Import(p) PROVE Rest'
    <2>1. RegisteredKeyIsHeld'
      BY <1>a, <1>12 DEF Import, OfferIsLocal, RegisteredKeyIsHeld
    <2>2. FilesStay' /\ OneWriter' /\ KeysStayHome' /\ OfferIsLocal'
      BY <1>a, <1>12 DEF Import, FilesStay, OneWriter, KeysStayHome, OfferIsLocal
    <2>3. QED
      BY <2>1, <2>2
  <1>13. ASSUME NEW p \in Procs, Confirm(p) PROVE Rest'
    BY <1>a, <1>13
       DEF Confirm, FilesStay, OneWriter, KeysStayHome, OfferIsLocal,
           RegisteredKeyIsHeld
  <1>14. ASSUME NEW p \in Procs, RunInstances(p) PROVE Rest'
    BY <1>a, <1>14
       DEF RunInstances, FilesStay, OneWriter, KeysStayHome, OfferIsLocal,
           RegisteredKeyIsHeld
  <1>15. ASSUME NEW p \in Procs, Failure(p) PROVE Rest'
    BY <1>a, <1>15
       DEF Failure, CallFails, StoreFails, Crash, FilesStay, OneWriter, KeysStayHome, OfferIsLocal,
           RegisteredKeyIsHeld
  <1>16. QED
    BY <1>b, <1>1, <1>2, <1>3, <1>4, <1>5, <1>6, <1>7, <1>8, <1>9, <1>10, <1>11,
       <1>12, <1>13, <1>14, <1>15, StepCases DEF KeyInv

(* Nothing is held, offered or under way at the start. *)
LEMMA KeyInvInit == Init => KeyInv
  BY ProcsAssumption, ValuesAssumption
     DEF Init, KeyInv, TypeOK, CloudKeys, Steps, FilesStay, OneWriter,
         KeysStayHome, OfferIsLocal, RegisteredKeyIsHeld

(* KeyInv holds in every reachable state. *)
THEOREM KeyInvariance == Spec => []KeyInv
  <1>1. Init => KeyInv
    BY KeyInvInit
  <1>2. KeyInv /\ [Next]_vars => KeyInv'
    BY KeyInvStep
  <1>3. QED
    BY <1>1, <1>2, PTL DEF Spec

(* Every variable keeps its type. *)
THEOREM TypeCorrectness == Spec => []TypeOK
  <1>1. KeyInv => TypeOK
    BY DEF KeyInv
  <1>2. QED
    BY <1>1, KeyInvariance, PTL

(* EC2 never trusts a public key that kleya made and whose private half is *)
(* in nobody's pem: not after a crash, a failed write, a failed call or a  *)
(* race, whatever the number of machines, and with a teammate meddling.    *)
THEOREM KeyIsHeld == Spec => []RegisteredKeyIsHeld
  <1>1. KeyInv => RegisteredKeyIsHeld
    BY DEF KeyInv
  <1>2. QED
    BY <1>1, KeyInvariance, PTL

(* No launch overwrites or removes a private key that one has written. *)
THEOREM KeysAreKept == Spec => PrivateKeysAreKept
  <1>1. KeyInv /\ [Next]_vars
          => [\A m \in Machines : pem[m] \in Procs => pem'[m] = pem[m]]_vars
    BY PemStep
  <1>2. QED
    BY <1>1, KeyInvariance, PTL DEF Spec, PrivateKeysAreKept

(* A step that leaves cloud alone and completes no pem is a stutter of the *)
(* registry.                                                               *)
LEMMA RegistryStutter ==
  ASSUME UNCHANGED <<pemBar, cloud>>
  PROVE  [Registry!Next]_(Registry!vars)
  BY DEF Registry!vars

(* Every step of the lifecycle is a step of the registry or a stutter: the *)
(* file that generate creates counts only once it is written, an import    *)
(* registers what the importing machine holds.                             *)
LEMMA RegistryStep ==
  ASSUME KeyInv, [Next]_vars
  PROVE  [Registry!Next]_(Registry!vars)
  <1> USE ProcsAssumption, ValuesAssumption DEF KeyInv, TypeOK
  <1>1. CASE UNCHANGED <<pem, cloud>>
    BY <1>1, RegistryStutter DEF pemBar
  <1>2. CASE Teammate
    <2>1. CASE cloud' = NoKey
      BY <1>2, <2>1 DEF Teammate, Registry!Next, Registry!Revoke, pemBar
    <2>2. CASE cloud' = Foreign
      BY <1>2, <2>2 DEF Teammate, Registry!Next, Registry!Rotate, pemBar
    <2>3. QED
      BY <1>2, <2>1, <2>2 DEF Teammate
  <1>3. ASSUME NEW p \in Procs, Delete(p) PROVE Registry!Next
    BY <1>3 DEF Delete, Registry!Next, Registry!Revoke, pemBar
  <1>4. ASSUME NEW p \in Procs, Open(p) PROVE UNCHANGED <<pemBar, cloud>>
    BY <1>4 DEF Open, Pem, pemBar
  <1>5. ASSUME NEW p \in Procs, Write(p) PROVE Registry!Next
    <2> DEFINE m == MachineOf[p]
    <2>1. pem[m] = Truncated /\ pc[p] = "write"
      BY <1>5 DEF Write, Goto, OneWriter, Pem
    <2>2. \A n \in Machines : pem[n] # p
      BY <2>1 DEF KeysStayHome
    <2>3. pemBar[m] = NoFile /\ \A n \in Machines : pemBar[n] # p
      BY <2>1, <2>2 DEF pemBar
    <2>4. pemBar' = [pemBar EXCEPT ![m] = p]
      BY <1>5 DEF Write, pemBar
    <2>5. Registry!Generate(m, p)
      BY <1>5, <2>3, <2>4 DEF Write, Registry!Generate
    <2>6. QED
      BY <2>5 DEF Registry!Next
  <1>6. ASSUME NEW p \in Procs, Import(p)
        PROVE  Registry!Next \/ UNCHANGED <<pemBar, cloud>>
    <2> DEFINE m == MachineOf[p]
    <2>1. CASE cloud # NoKey
      BY <1>6, <2>1 DEF Import, pemBar
    <2>2. CASE cloud = NoKey
      <3>1. offer[p] = pem[m] /\ offer[p] \in Procs
        BY <1>6 DEF Import, Goto, OfferIsLocal, Pem
      <3>2. pemBar[m] = offer[p]
        BY <3>1 DEF pemBar
      <3>3. Registry!Register(m)
        BY <1>6, <2>2, <3>1, <3>2 DEF Import, Registry!Register, pemBar
      <3>4. QED
        BY <3>3 DEF Registry!Next
    <2>3. QED
      BY <2>1, <2>2
  <1>7. QED
    BY <1>1, <1>2, <1>3, <1>4, <1>5, <1>6, StepCases, RegistryStutter
       DEF vars, Start, Describe, Compare, ReadPublic, DeleteConfirm, Ensure,
           Confirm, RunInstances, Failure, CallFails, StoreFails, Crash

(* The lifecycle, with all its races and crashes, implements the registry. *)
THEOREM LifecycleRefinesRegistry == Spec => RegistrySpec
  <1>1. Init => Registry!Init
    BY ValuesAssumption DEF Init, Registry!Init, pemBar
  <1>2. KeyInv /\ [Next]_vars => [Registry!Next]_(Registry!vars)
    BY RegistryStep
  <1>3. QED
    BY <1>1, <1>2, KeyInvariance, PTL DEF Spec, RegistrySpec, Registry!Spec

-------------------------------------------------------------------------------
(* What an instance trusts is the key that was in EC2 when it was launched, *)
(* and whoever made that key has it still.                                  *)
KeyIsAtHome == \A p \in Procs :
  opens[p] \in Procs => pem[MachineOf[opens[p]]] = opens[p]

LEMMA KeyIsAtHomeStep == KeyInv /\ KeyIsAtHome /\ [Next]_vars => KeyIsAtHome'
  <1> SUFFICES ASSUME KeyInv, KeyIsAtHome, [Next]_vars PROVE KeyIsAtHome'
    OBVIOUS
  <1> USE ProcsAssumption DEF KeyInv, TypeOK, KeyIsAtHome
  <1>1. \A k \in Procs : pem[MachineOf[k]] = k => pem'[MachineOf[k]] = k
    BY PemStep
  <1>2. CASE UNCHANGED opens
    BY <1>1, <1>2
  <1>3. ASSUME NEW p \in Procs, RunInstances(p), opens' = [opens EXCEPT ![p] = cloud]
        PROVE  KeyIsAtHome'
    <2>1. cloud \in Procs => pem[MachineOf[cloud]] = cloud
      BY DEF RegisteredKeyIsHeld, KeysStayHome
    <2> QED BY <1>1, <1>3, <2>1
  <1> QED
    BY <1>2, <1>3, StepCases
       DEF vars, Teammate, Start, Describe, Compare, ReadPublic, Delete,
           DeleteConfirm, Open, Write, Ensure, Import, Confirm, RunInstances,
           Failure, CallFails, StoreFails, Crash

(* Whatever races and crashes there are, on however many machines and with *)
(* a teammate at the key, an instance that trusts a key of kleya's opens   *)
(* with the pem of the machine where that key was generated, for ever      *)
(* after.  Where two machines race (EnsuredKeyMatches) that is the other   *)
(* one, but never nobody.                                                  *)
THEOREM NobodyIsLockedOut == Spec => []KeyIsAtHome
  <1>1. Init => KeyIsAtHome
    BY ValuesAssumption DEF Init, KeyIsAtHome
  <1> QED BY <1>1, KeyIsAtHomeStep, KeyInvariance, PTL DEF Spec

(* An incomplete pem is being filled, or somebody who failed has left it.  *)
HalfWritten == \A m \in Machines : pem[m] = Truncated =>
  \E p \in Procs : MachineOf[p] = m /\ pc[p] \in {"write", "Io", "crashed"}

(* Only a launch that was killed or could not write leaves a truncated     *)
(* pem: no race of launches that keep running does, and one that ended     *)
(* well, or with an error of EC2's, is not to blame.                       *)
THEOREM TruncationHasACulprit == Spec => []HalfWritten
  <1> USE ProcsAssumption, ValuesAssumption DEF HalfWritten
  <1>1. Init => HalfWritten
    BY DEF Init
  <1>2. KeyInv /\ HalfWritten /\ [Next]_vars => HalfWritten'
    <2> SUFFICES ASSUME KeyInv, HalfWritten, [Next]_vars,
                        NEW m \in Machines, pem'[m] = Truncated
                 PROVE  \E p \in Procs : /\ MachineOf[p] = m
                                         /\ pc'[p] \in {"write", "Io", "crashed"}
      OBVIOUS
    <2> USE DEF KeyInv, TypeOK, Goto
    <2>1. ASSUME NEW p \in Procs, Open(p), pem[m] # Truncated
          PROVE  MachineOf[p] = m /\ pc'[p] = "write"
      BY <2>1 DEF Open
    <2>2. CASE pem[m] # Truncated
      BY <2>1, <2>2, StepCases
         DEF vars, Teammate, Start, Describe, Compare, ReadPublic, Delete,
             DeleteConfirm, Write, Ensure, Import, Confirm, RunInstances,
             Failure, CallFails, StoreFails, Crash
    <2>3. CASE pem[m] = Truncated
      <3>1. PICK p \in Procs : MachineOf[p] = m /\ pc[p] \in {"write", "Io", "crashed"}
        BY <2>3
      <3>2. CASE pc'[p] = pc[p]
        BY <3>1, <3>2
      <3>3. CASE pc'[p] # pc[p]
        <4>1. pc[p] \in {"write", "Io", "crashed"} /\ ~Write(p)
          BY <3>1 DEF Write, Pem
        <4>2. ASSUME NEW q \in Procs, NEW from, NEW to, Goto(q, from, to)
              PROVE  q = p /\ from \in {"write", "Io", "crashed"}
          BY <3>1, <3>3, <4>2
        <4>3. \E q \in Procs : Failure(q)
          <5>1. \A q \in Procs : ~Start(q) /\ ~Describe(q) /\ ~Compare(q) /\ ~ReadPublic(q)
            BY <4>2 DEF Start, Describe, Compare, ReadPublic
          <5>2. \A q \in Procs : ~Delete(q) /\ ~DeleteConfirm(q) /\ ~Open(q) /\ ~Ensure(q)
            BY <4>2 DEF Delete, DeleteConfirm, Open, Ensure
          <5>3. \A q \in Procs : ~Import(q) /\ ~Confirm(q) /\ ~RunInstances(q)
            BY <4>2 DEF Import, Confirm, RunInstances
          <5>4. \A q \in Procs : ~Write(q)
            BY <4>1, <4>2 DEF Write
          <5> QED BY <3>3, <5>1, <5>2, <5>3, <5>4, StepCases DEF vars, Teammate
        <4>4. PICK q \in Procs : Failure(q)
          BY <4>3
        <4>5. pc'[p] \in {"Io", "crashed"}
          BY <3>1, <4>2, <4>4 DEF Failure, CallFails, StoreFails, Crash, Steps
        <4> QED BY <3>1, <4>5
      <3> QED BY <3>2, <3>3
    <2> QED BY <2>2, <2>3
  <1> QED BY <1>1, <1>2, KeyInvariance, PTL DEF Spec

-------------------------------------------------------------------------------
(* How many steps a launch has left at the most. *)
StepsLeft(p) ==
  CASE pc[p] = "start" -> 10
    [] pc[p] = "describe" -> 9
    [] pc[p] \in {"compare", "readPublic", "delete"} -> 8
    [] pc[p] = "deleteConfirm" -> 7
    [] pc[p] = "open" -> 6
    [] pc[p] = "write" -> 5
    [] pc[p] = "ensure" -> 4
    [] pc[p] = "import" -> 3
    [] pc[p] = "confirm" -> 2
    [] pc[p] = "run" -> 1
    [] OTHER -> 0

Shortens == \A p \in Procs :
  /\ StepsLeft(p) \in Nat /\ StepsLeft(p)' <= StepsLeft(p)
  /\ Start(p) \/ Advance(p) \/ Failure(p) => StepsLeft(p)' < StepsLeft(p)

(* A launch never goes back: each of its own steps brings it nearer to its *)
(* end and nobody else's takes it away from there, so it takes at most     *)
(* ten, however many launches race with it: what EveryLaunchEnds needs     *)
(* besides fairness.                                                       *)
THEOREM LaunchesOnlyGoForward == Spec => [][Shortens]_vars
  <1>1. KeyInv /\ [Next]_vars => [Shortens]_vars
    <2> SUFFICES ASSUME KeyInv, [Next]_vars, NEW p \in Procs
                 PROVE  /\ StepsLeft(p) \in Nat /\ StepsLeft(p)' <= StepsLeft(p)
                        /\ Start(p) \/ Advance(p) \/ Failure(p) =>
                             StepsLeft(p)' < StepsLeft(p)
      BY DEF Shortens
    <2> USE DEF KeyInv, TypeOK, Goto, StepsLeft
    <2>1. ASSUME NEW q \in Procs, q # p, NEW from, NEW to, Goto(q, from, to)
          PROVE  pc'[p] = pc[p]
      BY <2>1
    <2>2. ASSUME Start(p) \/ Describe(p) \/ Compare(p) \/ ReadPublic(p) \/ Delete(p)
          PROVE  StepsLeft(p)' < StepsLeft(p)
      BY <2>2 DEF Start, Describe, AfterObserve, Compare, ReadPublic, Delete
    <2>3. ASSUME \/ DeleteConfirm(p) \/ Open(p) \/ Write(p) \/ Ensure(p) \/ Import(p)
                 \/ Confirm(p) \/ RunInstances(p)
          PROVE  StepsLeft(p)' < StepsLeft(p)
      BY <2>3 DEF DeleteConfirm, Open, Write, Ensure, Import, Confirm, RunInstances
    <2>4. ASSUME Failure(p) PROVE StepsLeft(p)' < StepsLeft(p)
      BY <2>4 DEF Failure, CallFails, StoreFails, Crash, Steps
    <2>5. ASSUME NEW q \in Procs, q # p, Start(q) \/ Advance(q) \/ Failure(q)
          PROVE  pc'[p] = pc[p]
      <3>1. \E from, to : Goto(q, from, to)
        BY <2>5
           DEF Advance, Start, Describe, Compare, ReadPublic, Delete, DeleteConfirm,
               Open, Write, Ensure, Import, Confirm, RunInstances, Failure, CallFails,
               StoreFails, Crash
      <3> QED BY <2>1, <2>5, <3>1
    <2>6. StepsLeft(p) \in Nat
      OBVIOUS
    <2>7. CASE pc'[p] = pc[p]
      BY <2>6, <2>7, <2>2, <2>3, <2>4 DEF Advance
    <2>8. CASE pc'[p] # pc[p]
      <3>1. Start(p) \/ Advance(p) \/ Failure(p)
        BY <2>5, <2>8 DEF Next, vars, Teammate
      <3> QED BY <2>2, <2>3, <2>4, <2>6, <3>1 DEF Advance
    <2> QED BY <2>7, <2>8
  <1> QED BY <1>1, KeyInvariance, PTL DEF Spec

-------------------------------------------------------------------------------
(* From here on nobody but kleya touches the EC2 key pair. *)

(* Past its checks a launch no longer finds the key from elsewhere, and no *)
(* instance was given it.                                                  *)
LEMMA ForeignStep ==
  ASSUME ~Drift, KeyInv, ForeignIsGone, NoForeignInstance, [Next]_vars
  PROVE  ForeignIsGone' /\ NoForeignInstance'
  <1> USE ProcsAssumption, ValuesAssumption
      DEF KeyInv, TypeOK, CloudKeys, Goto, Pem, ForeignIsGone,
          NoForeignInstance
  <1>1. CASE UNCHANGED vars
    BY <1>1 DEF vars
  <1>2. CASE Teammate
    BY <1>2 DEF Teammate
  <1>3. ASSUME NEW p \in Procs, Describe(p)
        PROVE ForeignIsGone' /\ NoForeignInstance'
    BY <1>3 DEF Describe, AfterObserve
  <1>4. ASSUME NEW p \in Procs, Compare(p)
        PROVE ForeignIsGone' /\ NoForeignInstance'
    BY <1>4 DEF Compare, FilesStay
  <1>5. ASSUME NEW p \in Procs, Import(p)
        PROVE ForeignIsGone' /\ NoForeignInstance'
    BY <1>5 DEF Import
  <1>6. ASSUME NEW p \in Procs, Delete(p) \/ DeleteConfirm(p) \/ Confirm(p)
        PROVE ForeignIsGone' /\ NoForeignInstance'
    BY <1>6 DEF Delete, DeleteConfirm, Confirm
  <1>7. ASSUME NEW p \in Procs,
               Start(p) \/ ReadPublic(p) \/ Open(p) \/ Write(p) \/ Ensure(p)
        PROVE ForeignIsGone' /\ NoForeignInstance'
    BY <1>7 DEF Start, ReadPublic, Open, Write, Ensure
  <1>8. ASSUME NEW p \in Procs, RunInstances(p)
        PROVE ForeignIsGone' /\ NoForeignInstance'
    BY <1>8 DEF RunInstances
  <1>9. ASSUME NEW p \in Procs, Failure(p)
        PROVE ForeignIsGone' /\ NoForeignInstance'
    BY <1>9 DEF Failure, CallFails, StoreFails, Crash
  <1>10. QED
    BY <1>1, <1>2, <1>3, <1>4, <1>5, <1>6, <1>7, <1>8, <1>9, StepCases

(* The two hold from the start on. *)
LEMMA ForeignInvariance ==
  ASSUME ~Drift PROVE Spec => [](ForeignIsGone /\ NoForeignInstance)
  <1>1. Init => ForeignIsGone /\ NoForeignInstance
    BY ValuesAssumption DEF Init, ForeignIsGone, NoForeignInstance
  <1>2. KeyInv /\ ForeignIsGone /\ NoForeignInstance /\ [Next]_vars
          => ForeignIsGone' /\ NoForeignInstance'
    BY ForeignStep
  <1>3. QED
    BY <1>1, <1>2, KeyInvariance, PTL DEF Spec

(* No instance trusts a key that was in EC2 before kleya and that no *)
(* machine holds, however many machines launch at once.              *)
THEOREM ForeignKeyOpensNothing ==
  ASSUME ~Drift PROVE Spec => []NoForeignInstance
  <1>1. QED
    BY ForeignInvariance, PTL

SomeMachineOpens == \A p \in Procs :
  opens[p] # NoKey => \E m \in Machines : pem[m] = opens[p]

(* Every instance that was ever launched opens with a pem that some        *)
(* machine has: what is left of OpensWithLocalKey with several machines.   *)
THEOREM EveryInstanceOpens ==
  ASSUME ~Drift PROVE Spec => []SomeMachineOpens
  <1>1. KeyInv /\ KeyIsAtHome /\ NoForeignInstance => SomeMachineOpens
    BY ProcsAssumption
       DEF KeyInv, TypeOK, CloudKeys, KeyIsAtHome, NoForeignInstance, SomeMachineOpens
  <1> QED BY <1>1, KeyInvariance, NobodyIsLockedOut, ForeignKeyOpensNothing, PTL

-------------------------------------------------------------------------------
(* From here on, moreover, all launches run on one machine. *)

(* Then a key in EC2 that is not from elsewhere is the local one. *)
LEMMA CloudIsLocal ==
  ASSUME OneMachine, KeyInv, cloud \in Procs, NEW p \in Procs
  PROVE  cloud = Pem(p)
  BY ProcsAssumption
     DEF OneMachine, KeyInv, RegisteredKeyIsHeld, KeysStayHome, Pem

(* A launch brings up its instance with the key in EC2, which is the local *)
(* one, and no pem with a key in it changes afterwards.                    *)
LEMMA OpensStep ==
  ASSUME ~Drift, OneMachine, KeyInv, ForeignIsGone, OpensWithLocalKey,
         [Next]_vars
  PROVE  OpensWithLocalKey'
  <1> USE ProcsAssumption, ValuesAssumption
      DEF KeyInv, TypeOK, CloudKeys, OpensWithLocalKey
  <1>1. \A p \in Procs : Pem(p) \in Procs => Pem(p)' = Pem(p)
    BY PemStep DEF Pem
  <1>2. CASE UNCHANGED opens
    <2>1. \A p \in Procs : opens[p] # NoKey => Pem(p) \in Procs
      BY DEF Pem
    <2>2. QED
      BY <1>1, <1>2, <2>1
  <1>3. ASSUME NEW p \in Procs, RunInstances(p) PROVE OpensWithLocalKey'
    <2>1. CASE cloud = NoKey
      BY <1>2, <1>3, <2>1 DEF RunInstances
    <2>2. CASE cloud # NoKey
      <3>1. cloud \in Procs
        BY <1>3, <2>2 DEF ForeignIsGone, RunInstances, Goto
      <3>2. /\ opens' = [opens EXCEPT ![p] = cloud]
            /\ \A q \in Procs : Pem(q)' = Pem(q)
        BY <1>3, <2>2 DEF RunInstances, Pem
      <3>3. QED
        BY <3>1, <3>2, CloudIsLocal
    <2>3. QED
      BY <2>1, <2>2
  <1>4. QED
    BY <1>2, <1>3, StepCases
       DEF vars, Teammate, Start, Describe, Compare, ReadPublic, Delete,
           DeleteConfirm, Open, Write, Ensure, Import, Confirm, Failure,
           CallFails, StoreFails, Crash

(* Every instance that launches of one machine bring up opens with the key *)
(* in that machine's pem, whatever races, crashes and failures came before. *)
THEOREM LocalKeyOpens ==
  ASSUME ~Drift, OneMachine PROVE Spec => []OpensWithLocalKey
  <1>1. Init => OpensWithLocalKey
    BY DEF Init, OpensWithLocalKey
  <1>2. /\ KeyInv /\ ForeignIsGone /\ OpensWithLocalKey
        /\ [Next]_vars
        => OpensWithLocalKey'
    BY OpensStep
  <1>3. QED
    BY <1>1, <1>2, KeyInvariance, ForeignInvariance, PTL DEF Spec

(* On one machine ensure_default_keypair succeeds only with the key it was *)
(* given, although it never compares fingerprints.                         *)
THEOREM OneMachineEnsures ==
  ASSUME ~Drift, OneMachine PROVE Spec => EnsuredKeyMatches
  <1> DEFINE Matches == \A p \in Procs :
        pc[p] \in {"ensure", "confirm"} /\ pc'[p] = "run" => cloud = offer[p]
  <1>1. KeyInv /\ ForeignIsGone /\ [Next]_vars => [Matches]_vars
    <2> SUFFICES ASSUME KeyInv, ForeignIsGone, [Next]_vars,
                        NEW p \in Procs,
                        pc[p] \in {"ensure", "confirm"}, pc'[p] = "run"
                 PROVE  cloud = offer[p]
      OBVIOUS
    <2>1. offer[p] = Pem(p)
      BY DEF KeyInv, OfferIsLocal
    <2>2. cloud # NoKey
      BY ProcsAssumption, ValuesAssumption, StepCases
         DEF KeyInv, TypeOK, Goto, vars, Teammate, Start, Describe,
             AfterObserve, Compare, ReadPublic, Delete, DeleteConfirm, Open,
             Write, Ensure, Import, Confirm, RunInstances, Failure,
             CallFails, StoreFails, Crash
    <2>3. cloud \in Procs
      BY <2>2 DEF KeyInv, TypeOK, CloudKeys, ForeignIsGone
    <2>4. QED
      BY <2>1, <2>3, CloudIsLocal
  <1>2. QED
    BY <1>1, KeyInvariance, ForeignInvariance, PTL DEF Spec, EnsuredKeyMatches

===============================================================================
