----------------------------- MODULE KeyLifecycle -----------------------------
(***************************************************************************)
(* The keypair lifecycle of `kleya launch`: ensure_keypair and the         *)
(* RunInstances call it clears the way for, run by any number of kleya     *)
(* processes on any number of machines against one EC2 key-pair name (the  *)
(* configured default_key_name).  Every EC2 call and every access to the   *)
(* local pem file is a step of its own, since another process, another     *)
(* machine or a teammate can act between any two of them.                  *)
(*                                                                         *)
(* A process runs one launch, and generates at most one key, so the key    *)
(* that process p generates is written p.                                  *)
(***************************************************************************)
CONSTANTS Procs,       \* kleya processes, one launch each
          Machines,    \* hosts, each with its own ~/.config/kleya/keys
          MachineOf,   \* the host a process runs on
          Regenerate,  \* the launches given --regenerate-key
          Drift,       \* whether a teammate changes the EC2 key out of band
          Foreign,     \* a key in EC2 whose private half no machine holds
          NoKey,       \* no key pair under the name in EC2
          NoFile,      \* no pem file
          Truncated    \* a pem file that was created and not written in full

ASSUME ProcsAssumption == /\ MachineOf \in [Procs -> Machines]
                          /\ Regenerate \subseteq Procs
                          /\ Drift \in BOOLEAN

ASSUME ValuesAssumption ==
  /\ {Foreign, NoKey, NoFile, Truncated} \cap Procs = {}
  /\ Foreign # NoKey /\ NoKey # NoFile /\ NoFile # Truncated
  /\ Truncated # Foreign /\ Truncated # NoKey /\ NoFile # Foreign

VARIABLES pem,       \* [Machines -> pem file of the key name]
          cloud,     \* the EC2 key pair of that name
          pc,        \* the step each process is at
          hasFile,   \* KeyState::observe's local_present
          seenCloud, \* KeyState::observe's cloud_fp
          offer,     \* the public key passed to ensure_default_keypair
          opens      \* the key that opens the instance the process launched

vars == <<pem, cloud, pc, hasFile, seenCloud, offer, opens>>

Steps == {"start", "describe", "compare", "readPublic", "delete",
          "deleteConfirm", "open", "write", "ensure", "import", "confirm",
          "run"}

Errors == {"KeyMismatch", "KeyOrphaned", "ConfigInvalid", "Io", "Adapter"}

Ended == {"done", "crashed"} \cup Errors

CloudKeys == Procs \cup {Foreign, NoKey}

TypeOK == /\ pem \in [Machines -> Procs \cup {NoFile, Truncated}]
          /\ cloud \in CloudKeys
          /\ pc \in [Procs -> Steps \cup Ended]
          /\ hasFile \in [Procs -> BOOLEAN]
          /\ seenCloud \in [Procs -> CloudKeys]
          /\ offer \in [Procs -> Procs \cup {NoKey}]
          /\ opens \in [Procs -> CloudKeys]

-------------------------------------------------------------------------------
Pem(p) == pem[MachineOf[p]]

Goto(p, from, to) == /\ pc[p] = from
                     /\ pc' = [pc EXCEPT ![p] = to]

(* The name starts free, or already taken by a key from elsewhere. *)
Init == /\ pem = [m \in Machines |-> NoFile]
        /\ cloud \in {NoKey, Foreign}
        /\ pc = [p \in Procs |-> "start"]
        /\ hasFile = [p \in Procs |-> FALSE]
        /\ seenCloud = [p \in Procs |-> NoKey]
        /\ offer = [p \in Procs |-> NoKey]
        /\ opens = [p \in Procs |-> NoKey]

(* KeyState::observe: key_store.exists, before the EC2 call is awaited. *)
Start(p) == /\ Goto(p, "start", "describe")
            /\ hasFile' = [hasFile EXCEPT ![p] = Pem(p) # NoFile]
            /\ UNCHANGED <<pem, cloud, seenCloud, offer, opens>>

(* Mutant: a key found in EC2 without a local pem is not an orphan. *)
AfterObserve_NoOrphan(p) ==
  CASE hasFile[p] /\ cloud # NoKey -> "compare"
    [] hasFile[p] /\ cloud = NoKey -> "readPublic"
    [] OTHER -> "open"

(* Mutant: LocalOnly generates as Absent does, and meets its own file. *)
AfterObserve_LocalOnlyGenerates(p) ==
  CASE hasFile[p] /\ cloud # NoKey -> "compare"
    [] cloud = NoKey -> "open"
    [] OTHER -> IF p \in Regenerate THEN "delete" ELSE "KeyOrphaned"

(* Where the four KeyStates lead, from local_present and cloud_fp. *)
AfterObserve(p) ==
  CASE hasFile[p] /\ cloud # NoKey -> "compare"
    [] hasFile[p] /\ cloud = NoKey -> "readPublic"
    [] ~hasFile[p] /\ cloud = NoKey -> "open"
    [] ~hasFile[p] /\ cloud # NoKey ->
         IF p \in Regenerate THEN "delete" ELSE "KeyOrphaned"

(* keypair_fingerprint answers, and ensure_keypair picks its branch. *)
Describe(p) == /\ Goto(p, "describe", AfterObserve(p))
               /\ seenCloud' = [seenCloud EXCEPT ![p] = cloud]
               /\ UNCHANGED <<pem, cloud, hasFile, offer, opens>>

(* Synced: the local fingerprint against the one EC2 gave. *)
Compare(p) == /\ Goto(p, "compare",
                      CASE Pem(p) = Truncated -> "ConfigInvalid"
                        [] Pem(p) = seenCloud[p] -> "run"
                        [] OTHER -> "KeyMismatch")
              /\ UNCHANGED <<pem, cloud, hasFile, seenCloud, offer, opens>>

(* Mutant: the pem is sent as it is, complete or not. *)
ReadPublic_Unparsed(p) == /\ Goto(p, "readPublic", "ensure")
                          /\ offer' = [offer EXCEPT ![p] = Pem(p)]
                          /\ UNCHANGED <<pem, cloud, hasFile, seenCloud, opens>>

(* LocalOnly: the public half of the local key is to be registered. *)
ReadPublic(p) ==
  \/ /\ Pem(p) = Truncated
     /\ Goto(p, "readPublic", "ConfigInvalid")
     /\ UNCHANGED <<pem, cloud, hasFile, seenCloud, offer, opens>>
  \/ /\ Pem(p) # Truncated
     /\ Goto(p, "readPublic", "ensure")
     /\ offer' = [offer EXCEPT ![p] = Pem(p)]
     /\ UNCHANGED <<pem, cloud, hasFile, seenCloud, opens>>

(* CloudOnly with --regenerate-key: keypair_delete's DeleteKeyPair. *)
Delete(p) == /\ Goto(p, "delete", "deleteConfirm")
             /\ cloud' = NoKey
             /\ UNCHANGED <<pem, hasFile, seenCloud, offer, opens>>

(* keypair_delete's follow-up describe: an error of that call is ignored,  *)
(* a key that is there is PostconditionViolated (an Adapter error).        *)
DeleteConfirm(p) == /\ \/ cloud # NoKey /\ Goto(p, "deleteConfirm", "Adapter")
                       \/ Goto(p, "deleteConfirm", "open")
                    /\ UNCHANGED <<pem, cloud, hasFile, seenCloud, offer, opens>>

(* Mutant: the file is opened with create and truncate. *)
Open_Truncates(p) == /\ Goto(p, "open", "write")
                     /\ pem' = [pem EXCEPT ![MachineOf[p]] = Truncated]
                     /\ UNCHANGED <<cloud, hasFile, seenCloud, offer, opens>>

(* generate: the file is opened with create_new, so an existing one is EEXIST. *)
Open(p) ==
  \/ /\ Pem(p) = NoFile
     /\ Goto(p, "open", "write")
     /\ pem' = [pem EXCEPT ![MachineOf[p]] = Truncated]
     /\ UNCHANGED <<cloud, hasFile, seenCloud, offer, opens>>
  \/ /\ Pem(p) # NoFile
     /\ Goto(p, "open", "Io")
     /\ UNCHANGED <<pem, cloud, hasFile, seenCloud, offer, opens>>

(* Mutant: the result of write_all is dropped. *)
Write_Unchecked(p) == /\ Goto(p, "write", "ensure")
                      /\ pem' \in {pem, [pem EXCEPT ![MachineOf[p]] = p]}
                      /\ offer' = [offer EXCEPT ![p] = p]
                      /\ UNCHANGED <<cloud, hasFile, seenCloud, opens>>

(* generate: the private key is written and its public half returned. *)
Write(p) == /\ Goto(p, "write", "ensure")
            /\ pem' = [pem EXCEPT ![MachineOf[p]] = p]
            /\ offer' = [offer EXCEPT ![p] = p]
            /\ UNCHANGED <<cloud, hasFile, seenCloud, opens>>

(* ensure_default_keypair: a key that is already there, whatever its *)
(* fingerprint, is success.                                          *)
Ensure(p) == /\ Goto(p, "ensure", IF cloud # NoKey THEN "run" ELSE "import")
             /\ UNCHANGED <<pem, cloud, hasFile, seenCloud, offer, opens>>

(* Mutant: a duplicate key is replaced. *)
Import_Replaces(p) == /\ Goto(p, "import", "confirm")
                      /\ cloud' = offer[p]
                      /\ UNCHANGED <<pem, hasFile, seenCloud, offer, opens>>

(* ImportKeyPair; InvalidKeyPair.Duplicate is success too. *)
Import(p) == /\ Goto(p, "import", "confirm")
             /\ cloud' = IF cloud = NoKey THEN offer[p] ELSE cloud
             /\ UNCHANGED <<pem, hasFile, seenCloud, offer, opens>>

(* Mutant: the re-describe is repeated until the key shows up. *)
Confirm_Waits(p) == /\ cloud # NoKey
                    /\ Goto(p, "confirm", "run")
                    /\ UNCHANGED <<pem, cloud, hasFile, seenCloud, offer, opens>>

(* The unconditional re-describe after the import. *)
Confirm(p) == /\ Goto(p, "confirm", IF cloud = NoKey THEN "Adapter" ELSE "run")
              /\ UNCHANGED <<pem, cloud, hasFile, seenCloud, offer, opens>>

(* RunInstances on a template that names the key: EC2 installs the public  *)
(* key the name has now, and refuses a name that has none.                 *)
RunInstances(p) ==
  \/ /\ cloud # NoKey
     /\ Goto(p, "run", "done")
     /\ opens' = [opens EXCEPT ![p] = cloud]
     /\ UNCHANGED <<pem, cloud, hasFile, seenCloud, offer>>
  \/ /\ cloud = NoKey
     /\ Goto(p, "run", "Adapter")
     /\ UNCHANGED <<pem, cloud, hasFile, seenCloud, offer, opens>>

-------------------------------------------------------------------------------
(* An EC2 call fails: each is awaited with `?` or returned as Adapter. *)
CallFails(p) ==
  /\ \E s \in {"describe", "delete", "ensure", "import", "confirm", "run"} :
       Goto(p, s, "Adapter")
  /\ UNCHANGED <<pem, cloud, hasFile, seenCloud, offer, opens>>

(* The key directory or the file write fails (a full disk): what was *)
(* written so far stays.                                             *)
StoreFails(p) == /\ \E s \in {"open", "write"} : Goto(p, s, "Io")
                 /\ UNCHANGED <<pem, cloud, hasFile, seenCloud, offer, opens>>

(* The process is killed; nothing is undone. *)
Crash(p) == /\ \E s \in Steps \ {"start"} : Goto(p, s, "crashed")
            /\ UNCHANGED <<pem, cloud, hasFile, seenCloud, offer, opens>>

Failure(p) == CallFails(p) \/ StoreFails(p) \/ Crash(p)

(* A teammate deletes the EC2 key pair or puts their own in its place. *)
Teammate == /\ Drift
            /\ cloud' \in {NoKey, Foreign} \ {cloud}
            /\ UNCHANGED <<pem, pc, hasFile, seenCloud, offer, opens>>

Advance(p) ==
  \/ Describe(p) \/ Compare(p) \/ ReadPublic(p) \/ Delete(p)
  \/ DeleteConfirm(p) \/ Open(p) \/ Write(p) \/ Ensure(p) \/ Import(p)
  \/ Confirm(p) \/ RunInstances(p)

Next == \/ \E p \in Procs : Start(p) \/ Advance(p) \/ Failure(p)
        \/ Teammate

Spec == Init /\ [][Next]_vars

(* A process that runs keeps running until it ends or is killed, and the *)
(* calls it awaits return; nobody has to start a launch.                 *)
Fairness == \A p \in Procs : WF_vars(Advance(p))

FairSpec == Spec /\ Fairness

-------------------------------------------------------------------------------
(* Whatever the interleaving of launches, crashes and failed calls, EC2    *)
(* never trusts a public key whose private half kleya made and lost: the   *)
(* registered key is either somebody else's or in the pem of some machine. *)
(* import_key_pair comes after write_all for this reason.                  *)
RegisteredKeyIsHeld == cloud \in Procs => \E m \in Machines : pem[m] = cloud

(* No launch brings up an instance with a key that was in EC2 before and   *)
(* that no machine holds: the KeyOrphaned and KeyMismatch checks stop it,  *)
(* even when other launches regenerate the key meanwhile.                  *)
NoForeignInstance == \A p \in Procs : opens[p] # Foreign

(* When all launches run on one machine, the instance of every launch that *)
(* succeeds opens with the key in that machine's pem, also when several    *)
(* launches race to generate, regenerate and register it.                  *)
OpensWithLocalKey ==
  \A p \in Procs : opens[p] # NoKey => opens[p] = Pem(p)

(* ensure_default_keypair reports success only when EC2 has the public key *)
(* it was given.  The code never compares the two: it holds on one machine *)
(* and not on two.                                                         *)
EnsuredKeyMatches ==
  [][\A p \in Procs : pc[p] \in {"ensure", "confirm"} /\ pc'[p] = "run"
       => cloud = offer[p]]_vars

(* The private key that a launch wrote is never written over or removed by *)
(* any launch, whatever it observed before: generate opens with create_new. *)
PrivateKeysAreKept ==
  [][\A m \in Machines : pem[m] \in Procs => pem'[m] = pem[m]]_vars

(* A launch that was started ends: with an instance, an error or a crash. *)
EveryLaunchEnds ==
  \A p \in Procs : pc[p] # "start" ~> pc[p] \in Ended

(* A pem file that exists() saw is still there: no launch removes one. *)
FilesStay == \A p \in Procs :
  /\ hasFile[p] => Pem(p) # NoFile
  /\ pc[p] \in {"compare", "readPublic"} => hasFile[p]

(* A process that is about to write owns the empty file it created. *)
OneWriter == \A p \in Procs : pc[p] = "write" =>
  /\ Pem(p) = Truncated
  /\ \A q \in Procs :
       pc[q] = "write" /\ MachineOf[q] = MachineOf[p] => q = p

(* A private key is only on the machine whose process wrote it. *)
KeysStayHome == \A m \in Machines : pem[m] \in Procs =>
  /\ MachineOf[pem[m]] = m
  /\ pc[pem[m]] \notin {"start", "describe", "compare", "readPublic", "delete",
                        "deleteConfirm", "open", "write"}

(* The public key that is offered to EC2 is that of the local pem. *)
OfferIsLocal == \A p \in Procs :
  /\ offer[p] # NoKey => offer[p] = Pem(p)
  /\ pc[p] \in {"ensure", "import", "confirm"} => offer[p] # NoKey

(* The inductive invariant behind RegisteredKeyIsHeld and the refinement:  *)
(* a key is offered to EC2 only after its pem is complete, and a complete  *)
(* pem stays, so what is imported is held from then on.                    *)
KeyInv == /\ TypeOK
          /\ FilesStay
          /\ OneWriter
          /\ KeysStayHome
          /\ OfferIsLocal
          /\ RegisteredKeyIsHeld

(* All launches run on the same machine. *)
OneMachine == \A p, q \in Procs : MachineOf[p] = MachineOf[q]

(* Once a launch is past its checks, a key from elsewhere that was under   *)
(* the name at the start is gone, and nothing brings it back but Drift.    *)
ForeignIsGone == \A p \in Procs :
  \/ pc[p] \in {"readPublic", "deleteConfirm", "open", "write", "ensure",
               "import", "confirm", "run"}
  \/ seenCloud[p] \in Procs
  => cloud # Foreign

(* A pem file that is not complete yet counts as none. *)
pemBar == [m \in Machines |-> IF pem[m] = Truncated THEN NoFile ELSE pem[m]]

Registry == INSTANCE KeyRegistry WITH Keys <- Procs, pem <- pemBar

(* The lifecycle implements the abstract registry, step by step. *)
RegistrySpec == Registry!Spec
===============================================================================
