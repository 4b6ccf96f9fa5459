--------------------------- MODULE KeyRecoveryProofs ---------------------------
(***************************************************************************)
(* What TLAPS checks about KeyRecovery: a launch that has the system to    *)
(* itself recovers from whatever earlier ones left, for any number of      *)
(* launches of one machine.                                                *)
(***************************************************************************)
EXTENDS KeyRecovery, KeyLifecycleProofs

(* The history variable means what it says. *)
AloneIsAlone == \A p \in alone :
  /\ p \in Procs
  /\ pc[p] # "start"
  /\ p \in Running => Running = {p}

(* What a launch that runs alone has observed is still so.                 *)
Knows == \A p \in alone :
  /\ pc[p] = "describe" => (hasFile[p] <=> Pem(p) # NoFile)
  /\ pc[p] = "compare" => cloud = seenCloud[p] /\ cloud # NoKey
  /\ pc[p] \in {"readPublic", "write", "ensure", "import"} => cloud = NoKey
  /\ pc[p] \in {"deleteConfirm", "open"} => cloud = NoKey /\ Pem(p) = NoFile
  /\ pc[p] = "delete" => Pem(p) = NoFile
  /\ pc[p] \in {"confirm", "run"} => cloud # NoKey

(* What stops it, and that nobody is about to fill the truncated file.     *)
StoppedBy == \A p \in alone : pc[p] \in Errors =>
  \/ pc[p] = "KeyOrphaned" /\ p \notin Regenerate /\ seenCloud[p] = Foreign
  \/ /\ pc[p] = "ConfigInvalid" /\ Pem(p) = Truncated
     /\ \A q \in Procs : pc[q] # "write"

(* No launch makes a pem while the name has a key from elsewhere.          *)
NoPemBesideForeign == \A m \in Machines : pem[m] # NoFile => cloud # Foreign

LoneInv == AloneIsAlone /\ Knows /\ StoppedBy /\ NoPemBesideForeign

LEMMA LoneInit == HInit => LoneInv
  BY DEF HInit, Init, LoneInv, AloneIsAlone, Knows, StoppedBy, NoPemBesideForeign

(* The history variable constrains no step. *)
LEMMA HistoryIsFree == [HNext]_<<vars, alone>> => [Next]_vars
  BY DEF HNext, HStart, Next, vars

(* Whoever takes a step is running, or starts. *)
LEMMA ActorRuns ==
  ASSUME KeyInv, NEW q \in Procs, Advance(q) \/ Failure(q)
  PROVE  /\ q \in Running
         /\ \A p \in Procs \ {q} : pc'[p] = pc[p]
  <1> USE DEF KeyInv, TypeOK, Goto, Running, Ended, Errors
  <1>1. CASE Advance(q)
    BY <1>1 DEF Advance, Describe, Compare, ReadPublic, Delete, DeleteConfirm,
                Open, Write, Ensure, Import, Confirm, RunInstances
  <1>2. CASE Failure(q)
    BY <1>2 DEF Failure, CallFails, StoreFails, Crash, Steps
  <1> QED BY <1>1, <1>2

(* While a launch runs alone, a step is its own, or it is no longer alone. *)
LEMMA AloneStep ==
  ASSUME KeyInv, AloneIsAlone, HNext
  PROVE  AloneIsAlone'
  <1> USE DEF AloneIsAlone, KeyInv, TypeOK
  <1>1. ASSUME NEW q \in Procs, HStart(q) PROVE AloneIsAlone'
    <2>1. Running' = Running \cup {q}
      BY <1>1 DEF HStart, Start, Goto, Running, Ended, Errors
    <2> QED BY <1>1, <2>1 DEF HStart, Start, Goto, Running
  <1>2. ASSUME NEW q \in Procs, Advance(q) \/ Failure(q), alone' \subseteq alone
        PROVE  AloneIsAlone'
    <2>1. q \in Running /\ Running' \subseteq Running
      BY <1>2, ActorRuns DEF Running
    <2>2. pc'[q] # "start"
      BY <1>2, ValuesAssumption
         DEF Advance, Failure, Describe, AfterObserve, Compare, ReadPublic,
             Delete, DeleteConfirm, Open, Write, Ensure, Import, Confirm,
             RunInstances, CallFails, StoreFails, Crash, Goto
    <2> QED BY <1>2, <2>1, <2>2, ActorRuns DEF Running
  <1> QED BY <1>1, <1>2 DEF HNext

(* A launch that is alone and has ended stays as it ended, since the file  *)
(* that stopped it stays: create_new does not open it.                     *)
LEMMA EndedStays ==
  ASSUME OneMachine, KeyInv, LoneInv, NEW q \in Procs,
         Start(q) \/ Advance(q) \/ Failure(q),
         NEW p \in alone, p # q, pc[p] \in Errors
  PROVE  \/ pc'[p] = "KeyOrphaned" /\ p \notin Regenerate /\ seenCloud'[p] = Foreign
         \/ /\ pc'[p] = "ConfigInvalid" /\ Pem(p)' = Truncated
            /\ \A r \in Procs : pc'[r] # "write"
  <1> USE DEF KeyInv, TypeOK, LoneInv, AloneIsAlone, StoppedBy, Goto
  <1>1. CASE Open(q)
    BY <1>1, ProcsAssumption, ValuesAssumption DEF Open, Pem, OneMachine
  <1>2. CASE Write(q)
    BY <1>2 DEF Write
  <1>3. CASE Start(q) \/ Describe(q) \/ Compare(q) \/ ReadPublic(q) \/ Delete(q)
             \/ DeleteConfirm(q)
    BY <1>3 DEF Start, Describe, AfterObserve, Compare, ReadPublic, Delete,
                DeleteConfirm, Pem
  <1>4. CASE Ensure(q) \/ Import(q) \/ Confirm(q) \/ RunInstances(q) \/ Failure(q)
    BY <1>4 DEF Ensure, Import, Confirm, RunInstances, Failure, CallFails,
                StoreFails, Crash, Pem
  <1> QED BY <1>1, <1>2, <1>3, <1>4 DEF Advance

(* On one machine the local pem and EC2 differ only where one of the two   *)
(* has no key, or EC2 has the one from elsewhere.                          *)
LEMMA LocalAndCloud ==
  ASSUME OneMachine, KeyInv, LoneInv, NEW p \in Procs
  PROVE  /\ Pem(p) = NoFile => cloud \in {NoKey, Foreign}
         /\ Pem(p) \in Procs => cloud \in {NoKey, Pem(p)}
  BY CloudIsLocal, ProcsAssumption, ValuesAssumption
     DEF LoneInv, NoPemBesideForeign, KeyInv, TypeOK, CloudKeys, Pem

(* What p knows and what may stop it, for one launch.                      *)
Sound(p) ==
  /\ pc[p] = "describe" => (hasFile[p] <=> Pem(p) # NoFile)
  /\ pc[p] = "compare" => cloud = seenCloud[p] /\ cloud # NoKey
  /\ pc[p] \in {"readPublic", "write", "ensure", "import"} => cloud = NoKey
  /\ pc[p] \in {"deleteConfirm", "open"} => cloud = NoKey /\ Pem(p) = NoFile
  /\ pc[p] = "delete" => Pem(p) = NoFile
  /\ pc[p] \in {"confirm", "run"} => cloud # NoKey
  /\ pc[p] \in Errors =>
       \/ pc[p] = "KeyOrphaned" /\ p \notin Regenerate /\ seenCloud[p] = Foreign
       \/ /\ pc[p] = "ConfigInvalid" /\ Pem(p) = Truncated
          /\ \A q \in Procs : pc[q] # "write"

(* The steps of a launch that runs alone: one step per action. *)
LEMMA OwnStep ==
  ASSUME OneMachine, KeyInv, LoneInv, NEW p \in alone, Advance(p)
  PROVE  Sound(p)'
  <1>0. p \in Procs /\ Running = {p}
    BY ActorRuns DEF LoneInv, AloneIsAlone
  <1> USE <1>0, ValuesAssumption, LocalAndCloud
      DEF KeyInv, TypeOK, CloudKeys, LoneInv, Knows, Goto, Sound, Errors
  <1>1. CASE Describe(p)
    BY <1>1 DEF Describe, AfterObserve, Pem
  <1>2. CASE Compare(p)
    <2>1. pc[p] = "compare" /\ Pem(p) # NoFile
      BY <1>2 DEF Compare, FilesStay
    <2>2. Pem(p) \in Procs \cup {Truncated}
      BY <2>1, ProcsAssumption DEF Pem
    <2>3. Pem(p) # Truncated => pc'[p] = "run"
      BY <1>2, <2>1, <2>2 DEF Compare
    <2>4. \A q \in Procs : pc'[q] # "write"
      BY <1>2 DEF Compare, Running, Ended
    <2> QED BY <1>2, <2>1, <2>3, <2>4 DEF Compare, Pem
  <1>3. CASE ReadPublic(p)
    <2>1. \A q \in Procs : pc'[q] # "write"
      BY <1>3 DEF ReadPublic, Running, Ended
    <2> QED BY <1>3, <2>1 DEF ReadPublic, Pem
  <1>4. CASE Delete(p) \/ DeleteConfirm(p)
    BY <1>4 DEF Delete, DeleteConfirm, Pem
  <1>5. CASE Open(p)
    BY <1>5 DEF Open, Pem
  <1>6. CASE Write(p)
    BY <1>6 DEF Write, Pem
  <1>7. CASE Ensure(p) \/ Import(p) \/ Confirm(p)
    BY <1>7 DEF Ensure, Import, Confirm, OfferIsLocal, Pem
  <1>8. CASE RunInstances(p)
    BY <1>8 DEF RunInstances
  <1> QED BY <1>1, <1>2, <1>3, <1>4, <1>5, <1>6, <1>7, <1>8 DEF Advance

(* A pem is begun only past the checks, where ForeignIsGone. *)
LEMMA PemStaysApart ==
  ASSUME ~Drift, KeyInv, ForeignIsGone, NoPemBesideForeign, [Next]_vars
  PROVE  NoPemBesideForeign'
  <1> USE ProcsAssumption, ValuesAssumption
      DEF KeyInv, TypeOK, NoPemBesideForeign, Goto
  <1>1. cloud' # Foreign \/ cloud' = cloud
    BY StepCases
       DEF vars, Teammate, Start, Describe, Compare, ReadPublic, Delete,
           DeleteConfirm, Open, Write, Ensure, Import, Confirm, RunInstances,
           Failure, CallFails, StoreFails, Crash, OfferIsLocal
  <1>2. ASSUME NEW q \in Procs, Open(q) \/ Write(q) PROVE cloud' # Foreign
    BY <1>2 DEF Open, Write, ForeignIsGone
  <1>3. (\E q \in Procs : Open(q) \/ Write(q)) \/ UNCHANGED pem
    BY StepCases
       DEF vars, Teammate, Start, Describe, Compare, ReadPublic, Delete,
           DeleteConfirm, Ensure, Import, Confirm, RunInstances, Failure,
           CallFails, StoreFails, Crash
  <1> QED BY <1>1, <1>2, <1>3

(* LoneInv is inductive, beside the invariants of the lifecycle. *)
LEMMA LoneStep ==
  ASSUME ~Drift, OneMachine, KeyInv, ForeignIsGone, LoneInv,
         [HNext]_<<vars, alone>>
  PROVE  LoneInv'
  <1>1. CASE UNCHANGED <<vars, alone>>
    BY <1>1 DEF vars, LoneInv, AloneIsAlone, Knows, StoppedBy,
                NoPemBesideForeign, Running, Pem
  <1>2. CASE HNext
    <2>1. AloneIsAlone' /\ NoPemBesideForeign'
      BY <1>2, AloneStep, PemStaysApart, HistoryIsFree DEF LoneInv
    <2>2. ASSUME NEW q \in Procs, HStart(q), NEW p \in alone' PROVE Sound(p)'
      <3>1. CASE p = q
        BY <2>2, <3>1
           DEF HStart, Start, Goto, Sound, Errors, KeyInv, TypeOK, Pem
      <3>2. CASE p # q
        <4>1. p \in alone /\ p \in Procs /\ pc'[p] = pc[p] /\ p \notin Running
          BY <2>2, <3>2
             DEF HStart, Start, Goto, LoneInv, AloneIsAlone, KeyInv, TypeOK
        <4>2. pc[p] \in Ended
          BY <4>1 DEF LoneInv, AloneIsAlone, Running
        <4> QED BY <2>2, <3>2, <4>1, <4>2, EndedStays
                DEF HStart, Sound, Ended, Errors
      <3> QED BY <3>1, <3>2
    <2>3. ASSUME NEW q \in Procs, Advance(q) \/ Failure(q),
                 NEW p \in alone, p # q
          PROVE  Sound(p)'
      <3>1. p \in Procs /\ pc'[p] = pc[p] /\ p \notin Running
        BY <2>3, ActorRuns DEF LoneInv, AloneIsAlone
      <3>2. pc[p] \in Ended
        BY <3>1 DEF LoneInv, AloneIsAlone, Running
      <3> QED BY <2>3, <3>1, <3>2, EndedStays DEF Sound, Ended, Errors
    <2>4. \A p \in alone' : Sound(p)'
      BY <1>2, <2>2, <2>3, OwnStep DEF HNext
    <2> QED BY <2>1, <2>4 DEF LoneInv, Knows, StoppedBy, Sound
  <1> QED BY <1>1, <1>2

(* On one machine, and with nobody else at the key, a launch that has the  *)
(* system to itself ends well whatever earlier ones left behind, unless a  *)
(* key from elsewhere or a truncated pem stops it.                         *)
THEOREM LoneLaunchesRecover ==
  ASSUME ~Drift, OneMachine PROVE HSpec => []LoneLaunchRecovers
  <1>1. HSpec => Spec
    BY HistoryIsFree, PTL DEF HSpec, HInit, Spec
  <1>2. /\ KeyInv /\ ForeignIsGone /\ LoneInv
        /\ [HNext]_<<vars, alone>>
        => LoneInv'
    BY LoneStep
  <1>3. LoneInv => LoneLaunchRecovers
    BY DEF LoneInv, StoppedBy, LoneLaunchRecovers
  <1> QED BY <1>1, <1>2, <1>3, LoneInit, KeyInvariance, ForeignInvariance, PTL
          DEF HSpec
================================================================================
