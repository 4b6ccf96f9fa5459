------------------------------ MODULE WaitRunning ------------------------------
(***************************************************************************)
(* AwsEc2::instance_wait_running: the loop that polls DescribeInstances    *)
(* until the launched instance is running, the deadline passes or the      *)
(* operator presses Ctrl-C.  Time is counted in seconds from the start of  *)
(* the loop and moves with the loop's steps: a describe takes 0 to         *)
(* MaxLatency, a sleep takes its interval and up to MaxLate more.          *)
(***************************************************************************)
EXTENDS Integers

CONSTANTS Timeout,       \* deadline.timeout (LAUNCH_WAIT_SECONDS_MAX)
          PollInterval,  \* deadline.poll_interval
          MaxLatency,    \* longest answer of one DescribeInstances
          MaxLate        \* latest that a sleeping task is woken up

ASSUME TimesAssumption ==
  /\ Timeout \in Nat /\ PollInterval \in Nat \ {0} /\ Timeout > PollInterval
  /\ MaxLatency \in Nat /\ MaxLate \in Nat

VARIABLES pc,
          attempts,
          elapsed,
          seen,       \* the state in the last answer
          cancelled,  \* the cancellation token
          inst,       \* the instance's state in EC2
          upSince,    \* history: when the instance came up
          lateLooks   \* history: describes begun after Ctrl-C

vars == <<pc, attempts, elapsed, seen, cancelled, inst, upSince, lateLooks>>

Outcomes == {"Ok", "LaunchWaitTimeout", "Cancelled", "Failed"}

States == {"pending", "running", "gone"}

(* Mutant: one attempt less, enough when the interval divides the timeout. *)
MaxAttempts_OneLess == Timeout \div PollInterval + 1

MaxAttempts == Timeout \div PollInterval + 2

TypeOK == /\ pc \in {"ask", "answer", "sleep"} \cup Outcomes
          /\ attempts \in 0 .. MaxAttempts
          /\ elapsed \in Nat
          /\ seen \in States /\ inst \in States
          /\ cancelled \in BOOLEAN
          /\ upSince \in Nat
          /\ lateLooks \in Nat

Init == /\ pc = "ask" /\ attempts = 0 /\ elapsed = 0
        /\ seen = "pending" /\ inst = "pending" /\ upSince = 0
        /\ cancelled \in BOOLEAN \* Ctrl-C may have come before the loop
        /\ lateLooks = 0

(* The top of the loop: DescribeInstances is sent and sees the state. *)
Ask == /\ pc = "ask"
       /\ pc' = "answer"
       /\ attempts' = attempts + 1
       /\ seen' = inst
       /\ lateLooks' = IF cancelled THEN lateLooks + 1 ELSE lateLooks
       /\ UNCHANGED <<elapsed, cancelled, inst, upSince>>

(* Mutant: one attempt more than max_attempts. *)
IsOver_OneMore(now) == attempts > MaxAttempts

IsOver(now) == now >= Timeout \/ attempts >= MaxAttempts

(* Mutant: the sleep does not see the token. *)
Answer_SleepsAnyway ==
  /\ pc = "answer"
  /\ \E now \in elapsed .. elapsed + MaxLatency :
       /\ elapsed' = now
       /\ pc' = CASE seen = "running" -> "Ok"
                  [] seen # "running" /\ IsOver(now) -> "LaunchWaitTimeout"
                  [] OTHER -> "sleep"
  /\ UNCHANGED <<attempts, seen, cancelled, inst, upSince, lateLooks>>

(* The answer: running wins over the deadline, the deadline over a token   *)
(* that was cancelled meanwhile; wait_or_cancel returns at once on a token *)
(* that is cancelled when it is entered.                                   *)
Answer ==
  /\ pc = "answer"
  /\ \E now \in elapsed .. elapsed + MaxLatency :
       /\ elapsed' = now
       /\ pc' = CASE seen = "running" -> "Ok"
                  [] seen # "running" /\ IsOver(now) -> "LaunchWaitTimeout"
                  [] OTHER -> IF cancelled THEN "Cancelled" ELSE "sleep"
  /\ UNCHANGED <<attempts, seen, cancelled, inst, upSince, lateLooks>>

(* Mutant: a failed describe is repeated at once and not counted. *)
AnswerFails_Retries ==
  /\ pc = "answer"
  /\ pc' = "ask"
  /\ attempts' = attempts - 1
  /\ UNCHANGED <<elapsed, seen, cancelled, inst, upSince, lateLooks>>

(* instance_describe returns an error: it ends the wait. *)
AnswerFails ==
  /\ pc = "answer"
  /\ elapsed' \in elapsed .. elapsed + MaxLatency
  /\ pc' = "Failed"
  /\ UNCHANGED <<attempts, seen, cancelled, inst, upSince, lateLooks>>

(* Mutant: the deadline is checked after the sleep, before another look. *)
Wake_ChecksDeadline ==
  /\ pc = "sleep"
  /\ elapsed' \in elapsed + PollInterval .. elapsed + PollInterval + MaxLate
  /\ pc' = IF elapsed' >= Timeout THEN "LaunchWaitTimeout" ELSE "ask"
  /\ UNCHANGED <<attempts, seen, cancelled, inst, upSince, lateLooks>>

(* wait_or_cancel returns false.  When the token is cancelled just as the  *)
(* sleep ends, select! takes either branch.                                *)
Wake == /\ pc = "sleep"
        /\ elapsed' \in elapsed + PollInterval .. elapsed + PollInterval + MaxLate
        /\ pc' = "ask"
        /\ UNCHANGED <<attempts, seen, cancelled, inst, upSince, lateLooks>>

(* wait_or_cancel returns true, at any point of the sleep. *)
Interrupted ==
  /\ pc = "sleep"
  /\ cancelled
  /\ elapsed' \in elapsed .. elapsed + PollInterval + MaxLate
  /\ pc' = "Cancelled"
  /\ UNCHANGED <<attempts, seen, cancelled, inst, upSince, lateLooks>>

(* main's ctrl_c task cancels the token. *)
CtrlC == /\ ~cancelled
         /\ pc \notin Outcomes
         /\ cancelled' = TRUE
         /\ UNCHANGED <<pc, attempts, elapsed, seen, inst, upSince, lateLooks>>

(* EC2: the instance comes up, or goes away (a refused or reclaimed spot   *)
(* request, a terminate from elsewhere).                                   *)
InstanceMoves ==
  /\ pc \notin Outcomes
  /\ \/ /\ inst = "pending" /\ inst' = "running" /\ upSince' = elapsed
     \/ /\ inst # "gone" /\ inst' = "gone" /\ UNCHANGED upSince
  /\ UNCHANGED <<pc, attempts, elapsed, seen, cancelled, lateLooks>>

Loop == Ask \/ Answer \/ AnswerFails \/ Wake \/ Interrupted

Next == Loop \/ CtrlC \/ InstanceMoves

Spec == Init /\ [][Next]_vars

(* The task is polled, EC2 calls return and timers fire. *)
FairSpec == Spec /\ WF_vars(Loop)

--------------------------------------------------------------------------------
(* LaunchWaitTimeout is never early: the bound on attempts cannot fire     *)
(* before the deadline, however fast the answers are and whether or not    *)
(* the interval divides the timeout.                                       *)
TimeoutIsDue == pc = "LaunchWaitTimeout" => elapsed >= Timeout

(* The inductive invariant behind the bounds: every look but the first was *)
(* preceded by a whole sleep, the loop sleeps only before the deadline,    *)
(* and an instance that came up unseen came up during the last describe.   *)
SleptBefore(looks) == elapsed >= looks * PollInterval

WaitInv ==
  /\ TypeOK
  /\ pc = "ask" => /\ SleptBefore(attempts)
                   /\ attempts < MaxAttempts
                   /\ elapsed <= Timeout + PollInterval + MaxLate
  /\ pc = "answer" => /\ SleptBefore(attempts - 1)
                      /\ elapsed <= Timeout + PollInterval + MaxLate
                      /\ inst = "running" /\ seen # "running"
                           => upSince = elapsed
  /\ pc = "sleep" => /\ SleptBefore(attempts - 1)
                     /\ attempts < MaxAttempts
                     /\ elapsed < Timeout

(* The longest the loop can take, when calls and wake-ups are late. *)
Longest == Timeout + PollInterval + MaxLate + MaxLatency

(* The wait ends soon after the deadline: at worst one more sleep and one *)
(* more describe begin before it and end after it.                        *)
BoundedOverrun == elapsed <= Longest

(* An instance that came up in time and stays up is never reported as      *)
(* timed out: the loop looks once more after its last sleep, and only the  *)
(* describe that is under way at the deadline can miss it.                 *)
NoMissedInstance ==
  pc = "LaunchWaitTimeout" /\ inst = "running"
    => upSince + MaxLatency >= Timeout

(* Ctrl-C stops the loop: at most one more describe begins, when the token *)
(* and the end of the sleep come together.                                 *)
CtrlCStops == lateLooks <= 1

(* The wait always ends. *)
WaitEnds == <>(pc \in Outcomes)

result == CASE pc = "Ok" -> "ready"
            [] pc = "LaunchWaitTimeout" -> "timeout"
            [] pc = "Cancelled" -> "cancelled"
            [] pc = "Failed" -> "failed"
            [] OTHER -> "none"

Promise == INSTANCE PollUntil

(* The loop keeps the promise of every kleya poll loop. *)
PollSpec == Promise!Spec
================================================================================
