------------------------------ MODULE Breaker ------------------------------
(***************************************************************************)
(* The transitions of one CircuitBreaker (kalshi_arbitrage/                *)
(* circuit_breaker.py) as operators on a breaker value.  Every method body *)
(* runs under self._lock without awaiting, so each is one atomic update.   *)
(*                                                                         *)
(* The wall clock is kept as ages: the age of the last state change, and   *)
(* the ages of the FailureThreshold most recent failures.  The source      *)
(* compares only "now - timestamp" with its two timeouts and only asks     *)
(* whether at least FailureThreshold failures are inside the window, i.e.  *)
(* whether the FailureThreshold-th most recent one is; so capped ages      *)
(* carry everything the code can observe.                                  *)
(***************************************************************************)
EXTENDS Integers

CONSTANTS
    FailureThreshold,   \* config.failure_threshold
    SuccessThreshold,   \* config.success_threshold
    RecoveryTimeout,    \* config.recovery_timeout, in ticks
    MonitoringWindow    \* config.monitoring_window, in ticks

ASSUME BreakerAssumption ==
    /\ FailureThreshold \in Nat \ {0}
    /\ SuccessThreshold \in Nat \ {0}
    /\ RecoveryTimeout  \in Nat \ {0}
    /\ MonitoringWindow \in Nat \ {0}

CircuitState == {"closed", "open", "half_open"}

\* failures[k] is the age of the k-th most recent failure; MonitoringWindow
\* stands for "outside the window, or never happened".
BreakerValue ==
    [state                 : CircuitState,
     changed               : 0..RecoveryTimeout,
     consecutive_failures  : 0..FailureThreshold,
     consecutive_successes : 0..SuccessThreshold,
     failures              : [1..FailureThreshold -> 0..MonitoringWindow]]

NewBreaker ==
    [state                 |-> "closed",
     changed               |-> 0,
     consecutive_failures  |-> 0,
     consecutive_successes |-> 0,
     failures              |-> [k \in 1..FailureThreshold |-> MonitoringWindow]]

Capped(n, cap) == IF n > cap THEN cap ELSE n

(***************************************************************************)
(* Time passes for the breaker.                                            *)
(***************************************************************************)
Aged(b) ==
    [b EXCEPT !.changed  = Capped(@ + 1, RecoveryTimeout),
              !.failures = [k \in 1..FailureThreshold |->
                               Capped(b.failures[k] + 1, MonitoringWindow)]]

(***************************************************************************)
(* State transitions.                                                      *)
(***************************************************************************)
TransitionToClosed(b) ==
    [b EXCEPT !.state = "closed", !.changed = 0, !.consecutive_failures = 0]

TransitionToOpen(b) == [b EXCEPT !.state = "open", !.changed = 0]

TransitionToHalfOpen(b) ==
    [b EXCEPT !.state = "half_open", !.changed = 0, !.consecutive_successes = 0]

\* _should_attempt_reset
ShouldAttemptReset(b) == b.changed >= RecoveryTimeout

(***************************************************************************)
(* _check_failure_rate.  The rate it computes divides the failures in the  *)
(* window by the same failures in the window, so it is 1 whenever it is    *)
(* computed and only the count decides.                                    *)
(***************************************************************************)
CheckFailureRate_AnyAge(b) ==
    IF b.state = "closed" /\ b.failures[FailureThreshold] <= MonitoringWindow
    THEN TransitionToOpen(b) ELSE b

CheckFailureRate(b) ==
    IF b.state = "closed" /\ b.failures[FailureThreshold] < MonitoringWindow
    THEN TransitionToOpen(b)
    ELSE b

(***************************************************************************)
(* The locked prologue of call(): re-check the failure rate, then admit    *)
(* the call unless the circuit is open and still cooling off.              *)
(***************************************************************************)
Rejects(b) == LET c == CheckFailureRate(b)
              IN  c.state = "open" /\ ~ShouldAttemptReset(c)

EnterCall(b) == LET c == CheckFailureRate(b)
                IN  IF c.state = "open" /\ ShouldAttemptReset(c)
                    THEN TransitionToHalfOpen(c)
                    ELSE c

(***************************************************************************)
(* The two ways the protected call reports back.                           *)
(***************************************************************************)
OnSuccess_FromAnyState(b) ==
    LET c == [b EXCEPT
                !.consecutive_successes = Capped(@ + 1, SuccessThreshold),
                !.consecutive_failures  = 0]
    IN  IF c.consecutive_successes >= SuccessThreshold
        THEN TransitionToClosed(c) ELSE c

OnSuccess(b) ==
    LET c == [b EXCEPT
                !.consecutive_successes = Capped(@ + 1, SuccessThreshold),
                !.consecutive_failures  = 0]
    IN  IF c.state = "half_open" /\ c.consecutive_successes >= SuccessThreshold
        THEN TransitionToClosed(c)
        ELSE c

OnFailure_OffByOne(b) ==
    LET c == [b EXCEPT
                !.consecutive_failures  = Capped(@ + 1, FailureThreshold),
                !.consecutive_successes = 0,
                !.failures = [k \in 1..FailureThreshold |->
                                 IF k = 1 THEN 0 ELSE b.failures[k - 1]]]
    IN  IF \/ c.state = "half_open"
           \/ c.state = "closed" /\ c.consecutive_failures > FailureThreshold
        THEN TransitionToOpen(c) ELSE c

OnFailure(b) ==
    LET c == [b EXCEPT
                !.consecutive_failures  = Capped(@ + 1, FailureThreshold),
                !.consecutive_successes = 0,
                !.failures = [k \in 1..FailureThreshold |->
                                 IF k = 1 THEN 0 ELSE b.failures[k - 1]]]
    IN  IF \/ c.state = "half_open"
           \/ c.state = "closed" /\ c.consecutive_failures >= FailureThreshold
        THEN TransitionToOpen(c)
        ELSE c

\* reset()
Reset(b) ==
    [b EXCEPT !.state = "closed", !.changed = 0,
              !.consecutive_failures = 0, !.consecutive_successes = 0]
=============================================================================
