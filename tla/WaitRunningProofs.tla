--------------------------- MODULE WaitRunningProofs ---------------------------
(***************************************************************************)
(* What TLAPS checks about instance_wait_running, for every timeout, poll  *)
(* interval, latency and lateness.                                         *)
(***************************************************************************)
EXTENDS WaitRunning, TLAPS

(* One more look costs one more interval, and looks are ordered by time. *)
LEMMA SleepSum ==
  /\ \A n \in Nat : (n + 1) * PollInterval = n * PollInterval + PollInterval
  /\ \A n, k \in Nat : n <= k => n * PollInterval <= k * PollInterval
  BY TimesAssumption

(* The loop may always look twice. *)
LEMMA MaxAttemptsNat == MaxAttempts \in Nat /\ MaxAttempts >= 2
  BY TimesAssumption DEF MaxAttempts

(* The sleeps between MaxAttempts looks outlast the timeout, also when the *)
(* interval does not divide it: this is what the + 2 is for.               *)
LEMMA AttemptsOutlastTimeout ==
  Timeout <= (MaxAttempts - 1) * PollInterval
  <1> DEFINE q == Timeout \div PollInterval
             r == Timeout % PollInterval
  <1>1. q \in Nat /\ r \in 0 .. PollInterval - 1 /\ Timeout = q * PollInterval + r
    BY TimesAssumption
  <1>2. (q + 1) * PollInterval = q * PollInterval + PollInterval
    BY <1>1, SleepSum
  <1>3. Timeout <= (q + 1) * PollInterval
    BY <1>1, <1>2, TimesAssumption
  <1>4. MaxAttempts - 1 = q + 1
    BY <1>1 DEF MaxAttempts
  <1>5. QED
    BY <1>3, <1>4

(* The loop starts within its bounds. *)
LEMMA WaitInvInit == Init => WaitInv
  BY TimesAssumption, MaxAttemptsNat
     DEF Init, WaitInv, TypeOK, States, Outcomes, SleptBefore

(* WaitInv is inductive: one step per action. *)
LEMMA WaitInvStep == WaitInv /\ [Next]_vars => WaitInv'
  <1> SUFFICES ASSUME WaitInv, [Next]_vars PROVE WaitInv'
    OBVIOUS
  <1> USE TimesAssumption, MaxAttemptsNat DEF WaitInv, TypeOK, States, Outcomes
  <1>1. ASSUME Ask PROVE WaitInv'
    <2>1. attempts' - 1 = attempts /\ elapsed' = elapsed
      BY <1>1 DEF Ask
    <2>2. SleptBefore(attempts - 1)'
      BY <1>1, <2>1 DEF Ask, SleptBefore
    <2>3. QED
      BY <1>1, <2>1, <2>2 DEF Ask
  <1>2. ASSUME Answer PROVE WaitInv'
    <2>1. PICK now \in elapsed .. elapsed + MaxLatency :
            /\ elapsed' = now
            /\ pc' = CASE seen = "running" -> "Ok"
                       [] seen # "running" /\ IsOver(now) -> "LaunchWaitTimeout"
                       [] OTHER -> IF cancelled THEN "Cancelled" ELSE "sleep"
      BY <1>2 DEF Answer
    <2>2. /\ pc' \in {"Ok", "LaunchWaitTimeout", "Cancelled", "sleep"}
          /\ pc' = "sleep" => elapsed' < Timeout /\ attempts < MaxAttempts
      BY <2>1 DEF IsOver
    <2>3. (attempts - 1) * PollInterval \in Int
      OBVIOUS
    <2>4. SleptBefore(attempts - 1)'
      BY <1>2, <2>1, <2>3 DEF Answer, SleptBefore
    <2>5. QED
      BY <1>2, <2>1, <2>2, <2>4 DEF Answer
  <1>3. ASSUME AnswerFails PROVE WaitInv'
    BY <1>3 DEF AnswerFails
  <1>4. ASSUME Wake PROVE WaitInv'
    <2>1. PICK d \in PollInterval .. PollInterval + MaxLate :
            elapsed' = elapsed + d
      BY <1>4 DEF Wake
    <2>2. attempts * PollInterval = (attempts - 1) * PollInterval + PollInterval
      OBVIOUS
    <2>3. SleptBefore(attempts)'
      BY <1>4, <2>1, <2>2 DEF Wake, SleptBefore
    <2>4. QED
      BY <1>4, <2>1, <2>3 DEF Wake
  <1>5. ASSUME Interrupted PROVE WaitInv'
    BY <1>5 DEF Interrupted
  <1>6. ASSUME CtrlC PROVE WaitInv'
    BY <1>6 DEF CtrlC, SleptBefore
  <1>7. ASSUME InstanceMoves PROVE WaitInv'
    BY <1>7 DEF InstanceMoves, SleptBefore
  <1>8. ASSUME UNCHANGED vars PROVE WaitInv'
    BY <1>8 DEF vars, SleptBefore
  <1>9. QED
    BY <1>1, <1>2, <1>3, <1>4, <1>5, <1>6, <1>7, <1>8 DEF Next, Loop

(* WaitInv holds in every reachable state. *)
THEOREM WaitInvariance == Spec => []WaitInv
  <1>1. QED
    BY WaitInvInit, WaitInvStep, PTL DEF Spec

(* Every variable keeps its type; attempts stays within max_attempts. *)
THEOREM TypeCorrectness == Spec => []TypeOK
  <1>1. WaitInv => TypeOK
    BY DEF WaitInv
  <1>2. QED
    BY <1>1, WaitInvariance, PTL

(* A loop over its attempts has outlived its deadline. *)
LEMMA OverIsDue ==
  ASSUME WaitInv, pc = "answer", NEW now \in Nat, now >= elapsed, IsOver(now)
  PROVE  now >= Timeout
  <1> USE TimesAssumption, MaxAttemptsNat
  <1>1. CASE now >= Timeout
    BY <1>1
  <1>2. CASE attempts >= MaxAttempts
    <2>1. attempts - 1 = MaxAttempts - 1
      BY <1>2 DEF WaitInv, TypeOK
    <2>2. elapsed >= (MaxAttempts - 1) * PollInterval
      BY <2>1 DEF WaitInv, SleptBefore
    <2>3. elapsed >= Timeout
      BY <2>2, AttemptsOutlastTimeout DEF WaitInv, TypeOK
    <2>4. QED
      BY <2>3 DEF WaitInv, TypeOK
  <1>3. QED
    BY <1>1, <1>2 DEF IsOver

(* A step into LaunchWaitTimeout is taken with the deadline behind. *)
LEMMA TimeoutIsDueStep ==
  WaitInv /\ TimeoutIsDue /\ [Next]_vars => TimeoutIsDue'
  <1> SUFFICES ASSUME WaitInv, TimeoutIsDue, [Next]_vars PROVE TimeoutIsDue'
    OBVIOUS
  <1> USE DEF TimeoutIsDue
  <1>1. ASSUME Answer PROVE TimeoutIsDue'
    <2>1. PICK now \in elapsed .. elapsed + MaxLatency :
            /\ elapsed' = now
            /\ pc' = "LaunchWaitTimeout" => IsOver(now)
      BY <1>1 DEF Answer
    <2>2. now \in Nat /\ now >= elapsed
      BY TimesAssumption DEF WaitInv, TypeOK
    <2>3. QED
      BY <1>1, <2>1, <2>2, OverIsDue DEF Answer
  <1>2. QED
    BY <1>1
       DEF Next, Loop, Ask, AnswerFails, Wake, Interrupted, CtrlC,
           InstanceMoves, Outcomes, vars

(* LaunchWaitTimeout comes only after the deadline, for every interval and *)
(* timeout: max_attempts is never what ends the wait too soon.             *)
THEOREM TimeoutIsNeverEarly == Spec => []TimeoutIsDue
  <1>1. Init => TimeoutIsDue
    BY DEF Init, TimeoutIsDue
  <1>2. QED
    BY <1>1, TimeoutIsDueStep, WaitInvariance, PTL DEF Spec

(* No step goes past Longest: the loop sleeps only before the deadline. *)
LEMMA OverrunStep ==
  WaitInv /\ BoundedOverrun /\ [Next]_vars => BoundedOverrun'
  <1> SUFFICES ASSUME WaitInv, BoundedOverrun, [Next]_vars
               PROVE  BoundedOverrun'
    OBVIOUS
  <1> USE TimesAssumption DEF WaitInv, TypeOK, BoundedOverrun, Longest
  <1>1. ASSUME Answer \/ AnswerFails PROVE BoundedOverrun'
    BY <1>1 DEF Answer, AnswerFails
  <1>2. ASSUME Wake \/ Interrupted PROVE BoundedOverrun'
    BY <1>2 DEF Wake, Interrupted
  <1>3. QED
    BY <1>1, <1>2 DEF Next, Loop, Ask, CtrlC, InstanceMoves, vars

(* The wait overruns its deadline by at most one sleep and one describe, *)
(* each as late as it can be.                                            *)
THEOREM OverrunIsBounded == Spec => []BoundedOverrun
  <1>1. Init => BoundedOverrun
    BY TimesAssumption DEF Init, BoundedOverrun, Longest
  <1>2. QED
    BY <1>1, OverrunStep, WaitInvariance, PTL DEF Spec

(* An instance that was up in time and stays up is not timed out. *)
THEOREM NoInstanceIsMissed == Spec => []NoMissedInstance
  <1>1. Init => NoMissedInstance
    BY DEF Init, NoMissedInstance
  <1>2. WaitInv /\ NoMissedInstance /\ [Next]_vars => NoMissedInstance'
    <2> SUFFICES ASSUME WaitInv, NoMissedInstance, [Next]_vars
                 PROVE  NoMissedInstance'
      OBVIOUS
    <2> USE DEF NoMissedInstance
    <2>1. ASSUME Answer PROVE NoMissedInstance'
      <3>1. PICK now \in elapsed .. elapsed + MaxLatency :
              pc' = "LaunchWaitTimeout" => seen # "running" /\ IsOver(now)
        BY <2>1 DEF Answer
      <3>2. now \in Nat /\ now >= elapsed /\ now <= elapsed + MaxLatency
        BY TimesAssumption DEF WaitInv, TypeOK
      <3>3. pc' = "LaunchWaitTimeout" => now >= Timeout
        BY <2>1, <3>1, <3>2, OverIsDue DEF Answer
      <3>4. QED
        BY <2>1, <3>1, <3>2, <3>3, TimesAssumption
           DEF Answer, WaitInv, TypeOK
    <2>2. QED
      BY <2>1
         DEF Next, Loop, Ask, AnswerFails, Wake, Interrupted, CtrlC,
             InstanceMoves, Outcomes, vars
  <1>3. QED
    BY <1>1, <1>2, WaitInvariance, PTL DEF Spec

(* The one look that Ctrl-C does not prevent is the last: wait_or_cancel,  *)
(* which follows its answer, sees the token.                               *)
OneLateLook ==
  /\ lateLooks <= 1
  /\ lateLooks = 1 => cancelled /\ pc \notin {"ask", "sleep"}

(* After Ctrl-C at most one more describe begins, wherever it strikes.     *)
THEOREM CtrlCStopsWaiting == Spec => []CtrlCStops
  <1>1. Init => OneLateLook
    BY DEF Init, OneLateLook
  <1>2. WaitInv /\ OneLateLook /\ [Next]_vars => OneLateLook'
    BY DEF WaitInv, TypeOK, OneLateLook, Next, Loop, Ask, Answer, AnswerFails, Wake,
           Interrupted, CtrlC, InstanceMoves, vars
  <1>3. OneLateLook => CtrlCStops
    BY DEF OneLateLook, CtrlCStops
  <1> QED BY <1>1, <1>2, <1>3, WaitInvariance, PTL DEF Spec

(* The loop implements the promise of every poll loop. *)
THEOREM WaitRefinesPoll == Spec => PollSpec
  <1>1. Init => Promise!Init
    BY DEF Init, Promise!Init, result
  <1>2. /\ WaitInv /\ BoundedOverrun /\ TimeoutIsDue
        /\ BoundedOverrun' /\ TimeoutIsDue' /\ WaitInv'
        /\ [Next]_vars
        => [Promise!Next]_(Promise!vars)
    <2> SUFFICES ASSUME WaitInv, BoundedOverrun, TimeoutIsDue,
                        BoundedOverrun', TimeoutIsDue', WaitInv', [Next]_vars
                 PROVE  [Promise!Next]_(Promise!vars)
      OBVIOUS
    <2> USE TimesAssumption
        DEF WaitInv, TypeOK, Outcomes, Promise!Next, Promise!vars, result
    <2>1. ASSUME Answer \/ AnswerFails \/ Wake \/ Interrupted
          PROVE  Promise!Poll
      <3>1. elapsed' \in elapsed .. Longest
        BY <2>1 DEF Answer, AnswerFails, Wake, Interrupted, BoundedOverrun, Longest
      <3>2. result = "none" /\ result' \in Promise!Results
        BY <2>1 DEF Answer, AnswerFails, Wake, Interrupted, Promise!Results
      <3>3. result' = "timeout" => elapsed' >= Timeout
        BY DEF TimeoutIsDue
      <3>4. (result' = "cancelled" => cancelled) /\ UNCHANGED cancelled
        BY <2>1 DEF Answer, AnswerFails, Wake, Interrupted
      <3>5. QED
        BY <3>1, <3>2, <3>3, <3>4 DEF Promise!Poll
    <2>2. ASSUME CtrlC PROVE Promise!Interrupt
      BY <2>2 DEF CtrlC, Promise!Interrupt
    <2>3. ASSUME Ask \/ InstanceMoves \/ UNCHANGED vars
          PROVE  UNCHANGED Promise!vars
      BY <2>3 DEF Ask, InstanceMoves, vars
    <2>4. QED
      BY <2>1, <2>2, <2>3 DEF Next, Loop
  <1>3. QED
    BY <1>1, <1>2, WaitInvariance, OverrunIsBounded, TimeoutIsNeverEarly, PTL
       DEF Spec, PollSpec, Promise!Spec

--------------------------------------------------------------------------------
(* How many steps the loop has left at the most. *)
StepsLeft ==
  IF pc \in Outcomes THEN 0
  ELSE 3 * (MaxAttempts - attempts)
       + (CASE pc = "answer" -> 2 [] pc = "sleep" -> 1 [] OTHER -> 0)

Shortens == /\ StepsLeft \in Nat /\ StepsLeft' <= StepsLeft
            /\ Loop => StepsLeft' < StepsLeft

(* Every step of the loop brings it nearer to its end, and neither the     *)
(* instance nor Ctrl-C puts that off, so it ends after 3 * MaxAttempts     *)
(* steps even if no time passes in them: what WaitEnds needs of the loop   *)
(* besides fairness.                                                       *)
THEOREM LoopRunsDown == Spec => [][Shortens]_vars
  <1>1. WaitInv /\ [Next]_vars => [Shortens]_vars
    <2> SUFFICES ASSUME WaitInv, [Next]_vars PROVE [Shortens]_vars
      OBVIOUS
    <2> USE MaxAttemptsNat DEF WaitInv, TypeOK, StepsLeft, Outcomes
    <2>1. StepsLeft \in Nat
      OBVIOUS
    <2>2. ASSUME Loop PROVE StepsLeft' < StepsLeft
      <3>1. CASE Ask
        BY <3>1 DEF Ask
      <3>2. CASE Answer
        <4>1. /\ pc = "answer" /\ attempts' = attempts
              /\ pc' \in {"Ok", "LaunchWaitTimeout", "Cancelled", "sleep"}
          BY <3>2 DEF Answer
        <4> QED BY <4>1
      <3>3. CASE AnswerFails \/ Wake \/ Interrupted
        BY <3>3 DEF AnswerFails, Wake, Interrupted
      <3> QED BY <2>2, <3>1, <3>2, <3>3 DEF Loop
    <2>3. ASSUME CtrlC \/ InstanceMoves PROVE StepsLeft' = StepsLeft /\ ~Loop
      <3>1. UNCHANGED <<pc, attempts>>
        BY <2>3 DEF CtrlC, InstanceMoves
      <3>2. ~Loop
        BY <2>2, <2>1, <3>1
      <3> QED BY <3>1, <3>2
    <2>4. CASE Loop
      <3>1. StepsLeft' \in Nat
        <4>1. WaitInv' /\ MaxAttempts' = MaxAttempts
          BY WaitInvStep DEF MaxAttempts
        <4> QED BY <4>1
      <3> QED BY <2>1, <2>2, <2>4, <3>1 DEF Shortens
    <2>5. CASE CtrlC \/ InstanceMoves
      <3> HIDE DEF StepsLeft
      <3> QED BY <2>1, <2>3, <2>5 DEF Shortens
    <2> QED BY <2>4, <2>5 DEF Next
  <1> QED BY <1>1, WaitInvariance, PTL DEF Spec
================================================================================
