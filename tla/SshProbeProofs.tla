---------------------------- MODULE SshProbeProofs ----------------------------
(***************************************************************************)
(* What TLAPS checks about probe_ssh_ready, for every timeout, interval,   *)
(* connection timeout and lateness.                                        *)
(***************************************************************************)
EXTENDS SshProbe, TLAPS

(* A connection is begun before the deadline only, so that the loop cannot *)
(* outlive it by more than that connection and one sleep.                  *)
OnTime ==
  /\ pc = "connect" => elapsed < Timeout
  /\ pc = "sleep" => elapsed < Timeout + TcpTimeout
  /\ pc \in {"Ok", "Cancelled"} => elapsed <= Longest
  /\ pc = "SshNotReady" => elapsed >= Timeout

(* How long ago the port can have opened without the loop having seen it:  *)
(* a connection begun with the port open succeeds while it stays open, so  *)
(* not before the last connection was begun.                               *)
OpenedLately ==
  /\ openSince <= elapsed
  /\ port = "open" =>
       /\ pc = "connect" /\ ~wasOpen => openSince = elapsed
       /\ pc = "sleep" => openSince + TcpTimeout >= elapsed
       /\ pc \in {"check", "SshNotReady"} =>
            openSince + TcpTimeout + Interval + MaxLate >= elapsed

(* The one connection that Ctrl-C does not prevent is the last step but    *)
(* one: it is refused into wait_or_cancel, which sees the token.           *)
OneLateProbe ==
  /\ lateProbes <= 1
  /\ lateProbes = 1 => cancelled /\ pc \in {"connect"} \cup Outcomes

ProbeInv == TypeOK /\ OnTime /\ OpenedLately /\ OneLateProbe

LEMMA ProbeInvInit == Init => ProbeInv
  <1> SUFFICES ASSUME Init PROVE ProbeInv
    OBVIOUS
  <1>1. TypeOK
    <2>1. wasOpen \in BOOLEAN /\ cancelled \in BOOLEAN
      BY Zenon DEF Init
    <2> QED BY <2>1, TimesAssumption DEF Init, TypeOK, Longest
  <1>2. OnTime /\ OpenedLately /\ OneLateProbe
    BY TimesAssumption DEF Init, OnTime, OpenedLately, OneLateProbe
  <1> QED BY <1>1, <1>2 DEF ProbeInv

(* ProbeInv is inductive: one step per action. *)
LEMMA ProbeInvStep == ProbeInv /\ [Next]_vars => ProbeInv'
  <1> SUFFICES ASSUME ProbeInv, [Next]_vars PROVE ProbeInv'
    OBVIOUS
  <1> USE TimesAssumption
      DEF ProbeInv, TypeOK, OnTime, OpenedLately, OneLateProbe, Longest, Outcomes
  <1>1. CASE Check
    <2>1. wasOpen' \in BOOLEAN
      BY <1>1, Zenon DEF Check
    <2>2. port = "closed" \/ wasOpen'
      BY <1>1 DEF Check
    <2>3. /\ pc = "check" /\ pc' \in {"SshNotReady", "connect"}
          /\ pc' = "SshNotReady" => elapsed >= Timeout
          /\ pc' = "connect" => elapsed < Timeout
          /\ lateProbes' \in {lateProbes, lateProbes + 1}
          /\ lateProbes' # lateProbes => cancelled /\ pc' = "connect"
          /\ UNCHANGED <<elapsed, cancelled, port, openSince>>
      BY <1>1 DEF Check
    <2>4. TypeOK' /\ OnTime'
      BY <2>1, <2>3
    <2>5. OpenedLately'
      BY <2>2, <2>3
    <2>6. OneLateProbe'
      BY <2>3
    <2> QED BY <2>4, <2>5, <2>6
  <1>2. CASE Connected
    BY <1>2 DEF Connected
  <1>3. CASE Refused
    BY <1>3 DEF Refused
  <1>4. CASE Wake
    BY <1>4 DEF Wake
  <1>5. CASE Interrupted
    BY <1>5 DEF Interrupted
  <1>6. CASE CtrlC
    BY <1>6 DEF CtrlC
  <1>7. CASE PortMoves
    BY <1>7 DEF PortMoves
  <1>8. CASE UNCHANGED vars
    BY <1>8 DEF vars
  <1> QED BY <1>1, <1>2, <1>3, <1>4, <1>5, <1>6, <1>7, <1>8 DEF Next, Loop

(* ProbeInv holds in every reachable state. *)
LEMMA ProbeInvariance == Spec => []ProbeInv
  BY ProbeInvInit, ProbeInvStep, PTL DEF Spec

(* Every variable keeps its type; the loop never outlives Longest.         *)
THEOREM TypeCorrectness == Spec => []TypeOK
  <1>1. ProbeInv => TypeOK
    BY DEF ProbeInv
  <1> QED BY <1>1, ProbeInvariance, PTL

(* An instance that answers ssh is reported as not ready only if its port  *)
(* opened within the last connection and sleep before the deadline, for    *)
(* every relation of the four times.                                       *)
THEOREM NoPortIsMissed == Spec => []NoMissedPort
  <1>1. ProbeInv => NoMissedPort
    BY TimesAssumption DEF ProbeInv, TypeOK, OnTime, OpenedLately, NoMissedPort
  <1> QED BY <1>1, ProbeInvariance, PTL

(* After Ctrl-C at most one more connection is begun, wherever it strikes, *)
(* also where the loop wakes up at the same moment.                        *)
THEOREM CtrlCStopsProbing == Spec => []CtrlCStops
  <1>1. ProbeInv => CtrlCStops
    BY DEF ProbeInv, OneLateProbe, CtrlCStops
  <1> QED BY <1>1, ProbeInvariance, PTL

(* The loop implements the promise of every poll loop. *)
THEOREM ProbeRefinesPoll == Spec => PollSpec
  <1>1. Init => Promise!Init
    BY DEF Init, Promise!Init, result
  <1>2. ProbeInv /\ ProbeInv' /\ [Next]_vars => [Promise!Next]_(Promise!vars)
    <2> SUFFICES ASSUME ProbeInv, ProbeInv', [Next]_vars
                 PROVE  [Promise!Next]_(Promise!vars)
      OBVIOUS
    <2> USE TimesAssumption
        DEF ProbeInv, TypeOK, Outcomes, Promise!Next, Promise!vars, result
    <2>1. ASSUME Check \/ Connected \/ Refused \/ Wake \/ Interrupted
          PROVE  Promise!Poll
      <3>1. elapsed' \in elapsed .. Longest
        BY <2>1 DEF Check, Connected, Refused, Wake, Interrupted
      <3>2. result = "none" /\ result' \in Promise!Results
        BY <2>1 DEF Check, Connected, Refused, Wake, Interrupted, Promise!Results
      <3>3. result' = "timeout" => elapsed' >= Timeout
        BY DEF OnTime
      <3>4. (result' = "cancelled" => cancelled) /\ UNCHANGED cancelled
        BY <2>1 DEF Check, Connected, Refused, Wake, Interrupted
      <3> QED BY <3>1, <3>2, <3>3, <3>4 DEF Promise!Poll
    <2>2. ASSUME CtrlC PROVE Promise!Interrupt
      BY <2>2 DEF CtrlC, Promise!Interrupt
    <2>3. ASSUME PortMoves \/ UNCHANGED vars PROVE UNCHANGED Promise!vars
      BY <2>3 DEF PortMoves, vars
    <2> QED BY <2>1, <2>2, <2>3 DEF Next, Loop
  <1> QED BY <1>1, <1>2, ProbeInvariance, PTL DEF Spec, PollSpec, Promise!Spec

--------------------------------------------------------------------------------
(* How many steps the loop has left at the most. *)
StepsLeft ==
  IF pc \in Outcomes THEN 0
  ELSE 3 * (Longest - elapsed)
       + (CASE pc = "check" -> 3 [] pc = "connect" -> 2 [] OTHER -> 1)

Shortens == /\ StepsLeft \in Nat /\ StepsLeft' <= StepsLeft
            /\ Loop => StepsLeft' < StepsLeft

(* The loop counts no attempts: what ends it is that every sleep takes     *)
(* time, also where a connection is refused at once.  So each of its steps *)
(* brings it nearer to its end, and neither the port nor Ctrl-C puts that  *)
(* off; ProbeEnds needs nothing else but fairness.                         *)
THEOREM LoopRunsDown == Spec => [][Shortens]_vars
  <1>1. ProbeInv /\ ProbeInv' /\ [Next]_vars => [Shortens]_vars
    <2> SUFFICES ASSUME ProbeInv, ProbeInv', [Next]_vars PROVE [Shortens]_vars
      OBVIOUS
    <2> USE TimesAssumption DEF ProbeInv, TypeOK, StepsLeft, Outcomes, Longest
    <2>1. StepsLeft \in Nat
      OBVIOUS
    <2>2. ASSUME Loop PROVE StepsLeft' < StepsLeft
      BY <2>2 DEF Loop, Check, Connected, Refused, Wake, Interrupted
    <2>3. ASSUME CtrlC \/ PortMoves PROVE StepsLeft' = StepsLeft /\ ~Loop
      <3>1. UNCHANGED <<pc, elapsed>>
        BY <2>3 DEF CtrlC, PortMoves
      <3>2. ~Loop
        BY <2>2, <2>1, <3>1
      <3> QED BY <3>1, <3>2
    <2> QED BY <2>1, <2>2, <2>3 DEF Next, Shortens
  <1> QED BY <1>1, ProbeInvariance, PTL DEF Spec
================================================================================
