------------------------------ MODULE KeyRecovery ------------------------------
(***************************************************************************)
(* KeyLifecycle with a history variable: the launches that had the system  *)
(* to themselves from their first step on, with no failure of their own.   *)
(* It states what ensure_keypair owes to the launch that follows any mess  *)
(* earlier launches left: crashes between any two steps, failed calls,     *)
(* races.  Nobody else changes the key here.                               *)
(***************************************************************************)
EXTENDS KeyLifecycle

VARIABLE alone

Running == {p \in Procs : pc[p] \notin Ended \cup {"start"}}

HInit == Init /\ alone = {}

HStart(p) == /\ Start(p)
             /\ alone' = IF Running = {} THEN alone \cup {p}
                                         ELSE alone \ Running

HNext == \/ \E p \in Procs : HStart(p)
         \/ \E p \in Procs : Advance(p) /\ UNCHANGED alone
         \/ \E p \in Procs : Failure(p) /\ alone' = alone \ {p}

HSpec == HInit /\ [][HNext]_<<vars, alone>>

(* A launch that runs alone after any number of launches of the same       *)
(* machine crashed or failed, wherever they stopped, ends well, or is      *)
(* stopped by one of exactly two things: a key that was in EC2 from the    *)
(* start and that it may not replace, or a truncated pem file.  A crash    *)
(* between DeleteKeyPair, generate and ImportKeyPair never needs an        *)
(* operator otherwise.                                                     *)
LoneLaunchRecovers ==
  \A p \in alone : pc[p] \in Errors =>
    \/ pc[p] = "KeyOrphaned" /\ p \notin Regenerate /\ seenCloud[p] = Foreign
    \/ pc[p] = "ConfigInvalid" /\ Pem(p) = Truncated

(* A launch that runs alone is never stopped by what an earlier launch of  *)
(* the same machine left unfinished.  It is not so: generate opens the pem *)
(* with create_new and then writes it, so a launch that stops in between   *)
(* leaves a truncated pem that exists() counts as a key, that nothing in   *)
(* kleya removes, and that stops every later launch with ConfigInvalid.    *)
RelaunchIsPossible == \A p \in alone : pc[p] # "ConfigInvalid"
================================================================================
