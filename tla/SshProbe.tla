-------------------------------- MODULE SshProbe --------------------------------
(***************************************************************************)
(* probe_ssh_ready: the loop that opens TCP connections to port 22 of the  *)
(* instance until one succeeds, the deadline passes or the operator        *)
(* presses Ctrl-C.  Time is counted as in WaitRunning.                     *)
(***************************************************************************)
EXTENDS Integers

CONSTANTS Timeout,     \* SSH_PROBE_TIMEOUT_SECONDS
          Interval,    \* SSH_PROBE_INTERVAL_SECONDS
          TcpTimeout,  \* SSH_PROBE_TCP_TIMEOUT_MS
          MaxLate      \* latest that a sleeping task is woken up

ASSUME TimesAssumption ==
  /\ Timeout \in Nat /\ Interval \in Nat \ {0} /\ Timeout >= Interval
  /\ TcpTimeout \in Nat /\ MaxLate \in Nat

VARIABLES pc,
          elapsed,
          cancelled,    \* the cancellation token
          port,         \* whether port 22 accepts connections
          wasOpen,      \* whether it did when the connection was begun
          openSince,    \* history: when it last began to
          lateProbes    \* history: connections begun after Ctrl-C

vars == <<pc, elapsed, cancelled, port, wasOpen, openSince, lateProbes>>

Outcomes == {"Ok", "SshNotReady", "Cancelled"}

(* The longest the loop can take, when connections and wake-ups are late. *)
Longest == Timeout + TcpTimeout + Interval + MaxLate

TypeOK == /\ pc \in {"check", "connect", "sleep"} \cup Outcomes
          /\ elapsed \in 0 .. Longest
          /\ cancelled \in BOOLEAN
          /\ port \in {"closed", "open"}
          /\ wasOpen \in BOOLEAN
          /\ openSince \in Nat
          /\ lateProbes \in Nat

Init == /\ pc = "check" /\ elapsed = 0 /\ cancelled \in BOOLEAN
        /\ port = "closed" /\ wasOpen = FALSE
        /\ openSince = 0 /\ lateProbes = 0

(* Mutant: the deadline is only looked at one interval ahead. *)
Check_Early ==
  /\ pc = "check"
  /\ pc' = IF elapsed + Interval >= Timeout THEN "SshNotReady" ELSE "connect"
  /\ lateProbes' = IF cancelled /\ pc' = "connect" THEN lateProbes + 1
                                                   ELSE lateProbes
  /\ wasOpen' = (port = "open")
  /\ UNCHANGED <<elapsed, cancelled, port, openSince>>

(* Mutant: the deadline is not looked at. *)
Check_Endless ==
  /\ pc = "check"
  /\ pc' = "connect"
  /\ lateProbes' = IF cancelled THEN lateProbes + 1 ELSE lateProbes
  /\ wasOpen' = (port = "open")
  /\ UNCHANGED <<elapsed, cancelled, port, openSince>>

(* The top of the loop: the deadline comes first. *)
Check ==
  /\ pc = "check"
  /\ pc' = IF elapsed >= Timeout THEN "SshNotReady" ELSE "connect"
  /\ lateProbes' = IF cancelled /\ pc' = "connect" THEN lateProbes + 1
                                                   ELSE lateProbes
  /\ wasOpen' = (port = "open")
  /\ UNCHANGED <<elapsed, cancelled, port, openSince>>

(* The connection is accepted: whatever the token says, ssh is ready. *)
Connected ==
  /\ pc = "connect" /\ port = "open"
  /\ elapsed' \in elapsed .. elapsed + TcpTimeout
  /\ pc' = "Ok"
  /\ UNCHANGED <<cancelled, port, wasOpen, openSince, lateProbes>>

(* Mutant: the sleep does not see a token that was cancelled before it. *)
Refused_SleepsAnyway ==
  /\ pc = "connect" /\ port = "closed"
  /\ elapsed' \in elapsed .. elapsed + TcpTimeout
  /\ pc' = "sleep"
  /\ UNCHANGED <<cancelled, port, wasOpen, openSince, lateProbes>>

(* Mutant: the loop goes on at once after a refused connection. *)
Refused_NoPause ==
  /\ pc = "connect" /\ port = "closed"
  /\ elapsed' \in elapsed .. elapsed + TcpTimeout
  /\ pc' = "check"
  /\ UNCHANGED <<cancelled, port, wasOpen, openSince, lateProbes>>

(* The connection is refused or times out: wait_or_cancel is entered, and  *)
(* returns at once on a cancelled token.  A port that opens while the      *)
(* connection is tried may be missed.                                      *)
Refused ==
  /\ pc = "connect" /\ ~(port = "open" /\ wasOpen)
  /\ elapsed' \in elapsed .. elapsed + TcpTimeout
  /\ pc' = IF cancelled THEN "Cancelled" ELSE "sleep"
  /\ UNCHANGED <<cancelled, port, wasOpen, openSince, lateProbes>>

Wake == /\ pc = "sleep"
        /\ elapsed' \in elapsed + Interval .. elapsed + Interval + MaxLate
        /\ pc' = "check"
        /\ UNCHANGED <<cancelled, port, wasOpen, openSince, lateProbes>>

(* Mutant: the sleep is not cut short and its result is not looked at. *)
Interrupted_Ignored ==
  /\ pc = "sleep" /\ cancelled
  /\ elapsed' = elapsed + Interval
  /\ pc' = "SshNotReady"
  /\ UNCHANGED <<cancelled, port, wasOpen, openSince, lateProbes>>

Interrupted ==
  /\ pc = "sleep" /\ cancelled
  /\ elapsed' \in elapsed .. elapsed + Interval + MaxLate
  /\ pc' = "Cancelled"
  /\ UNCHANGED <<cancelled, port, wasOpen, openSince, lateProbes>>

(* main's ctrl_c task cancels the token. *)
CtrlC == /\ ~cancelled /\ pc \notin Outcomes
         /\ cancelled' = TRUE
         /\ UNCHANGED <<pc, elapsed, port, wasOpen, openSince, lateProbes>>

(* sshd comes up; the instance or the network may go away and come back. *)
PortMoves ==
  /\ pc \notin Outcomes
  /\ port' = IF port = "open" THEN "closed" ELSE "open"
  /\ openSince' = IF port = "open" THEN openSince ELSE elapsed
  /\ UNCHANGED <<pc, elapsed, cancelled, wasOpen, lateProbes>>

Loop == Check \/ Connected \/ Refused \/ Wake \/ Interrupted

Next == Loop \/ CtrlC \/ PortMoves

Spec == Init /\ [][Next]_vars

(* The task is polled, timers fire, and a connection attempt is cut off. *)
FairSpec == Spec /\ WF_vars(Loop)

--------------------------------------------------------------------------------
(* An instance whose port 22 opened in time and stays open is not reported *)
(* as SshNotReady, unless it opened during the last attempt or the sleep   *)
(* after it: the loop checks the deadline before it tries again, so that   *)
(* much of the deadline is lost, and no more.                              *)
NoMissedPort ==
  pc = "SshNotReady" /\ port = "open"
    => openSince + TcpTimeout + Interval + MaxLate >= Timeout

(* Ctrl-C stops the loop: at most one more connection is begun. *)
CtrlCStops == lateProbes <= 1

(* The probe always ends, also when connections are refused at once. *)
ProbeEnds == <>(pc \in Outcomes)

result == CASE pc = "Ok" -> "ready"
            [] pc = "SshNotReady" -> "timeout"
            [] pc = "Cancelled" -> "cancelled"
            [] OTHER -> "none"

Promise == INSTANCE PollUntil

(* The loop keeps the promise of every kleya poll loop. *)
PollSpec == Promise!Spec
================================================================================
