---------------------------- MODULE BreakerProofs ----------------------------
(***************************************************************************)
(* What the operators of Breaker return, for every threshold and timeout.  *)
(***************************************************************************)
EXTENDS Breaker, TLAPS

USE BreakerAssumption DEF BreakerAssumption

\* Each state transition takes a well-formed breaker to a well-formed one.
LEMMA TransitionTypes ==
    ASSUME NEW b \in BreakerValue
    PROVE  /\ TransitionToClosed(b) \in BreakerValue
           /\ TransitionToOpen(b) \in BreakerValue
           /\ TransitionToHalfOpen(b) \in BreakerValue
           /\ Reset(b) \in BreakerValue
  <1> USE DEF BreakerValue, CircuitState
  <1>0. 0 \in 0..RecoveryTimeout /\ 0 \in 0..FailureThreshold /\ 0 \in 0..SuccessThreshold
    OBVIOUS
  <1>1. TransitionToClosed(b) \in BreakerValue
    BY <1>0, Zenon DEF TransitionToClosed
  <1>2. TransitionToOpen(b) \in BreakerValue
    BY <1>0, Zenon DEF TransitionToOpen
  <1>3. TransitionToHalfOpen(b) \in BreakerValue
    BY <1>0, Zenon DEF TransitionToHalfOpen
  <1>4. Reset(b) \in BreakerValue
    BY <1>0, Zenon DEF Reset
  <1> QED BY <1>1, <1>2, <1>3, <1>4

\* A new breaker is well formed.
LEMMA NewBreakerType == NewBreaker \in BreakerValue
  BY DEF NewBreaker, BreakerValue, CircuitState

\* Every update of circuit_breaker.py takes a well-formed breaker to one.
LEMMA OperatorTypes ==
    ASSUME NEW b \in BreakerValue
    PROVE  /\ Aged(b) \in BreakerValue
           /\ CheckFailureRate(b) \in BreakerValue
           /\ EnterCall(b) \in BreakerValue
           /\ OnSuccess(b) \in BreakerValue
           /\ OnFailure(b) \in BreakerValue
           /\ Reset(b) \in BreakerValue
  <1>1. Aged(b) \in BreakerValue
    <2>1. Capped(b.changed + 1, RecoveryTimeout) \in 0..RecoveryTimeout
      BY DEF Capped, BreakerValue
    <2>2. [k \in 1..FailureThreshold |-> Capped(b.failures[k] + 1, MonitoringWindow)]
             \in [1..FailureThreshold -> 0..MonitoringWindow]
      BY DEF Capped, BreakerValue
    <2> QED BY <2>1, <2>2, Zenon DEF Aged, BreakerValue
  <1>2. CheckFailureRate(b) \in BreakerValue
    BY TransitionTypes DEF CheckFailureRate
  <1>3. EnterCall(b) \in BreakerValue
    BY <1>2, TransitionTypes DEF EnterCall
  <1>4. OnSuccess(b) \in BreakerValue
    <2> DEFINE c == [b EXCEPT
                       !.consecutive_successes = Capped(@ + 1, SuccessThreshold),
                       !.consecutive_failures  = 0]
    <2>1. /\ Capped(b.consecutive_successes + 1, SuccessThreshold) \in 0..SuccessThreshold
          /\ 0 \in 0..FailureThreshold
      BY DEF Capped, BreakerValue
    <2>2. c \in BreakerValue
      BY <2>1, Zenon DEF BreakerValue
    <2> QED BY <2>2, TransitionTypes, Zenon DEF OnSuccess
  <1>5. OnFailure(b) \in BreakerValue
    <2> DEFINE fs == [k \in 1..FailureThreshold |->
                         IF k = 1 THEN 0 ELSE b.failures[k - 1]]
               c == [b EXCEPT
                       !.consecutive_failures  = Capped(@ + 1, FailureThreshold),
                       !.consecutive_successes = 0,
                       !.failures = fs]
    <2>1. /\ Capped(b.consecutive_failures + 1, FailureThreshold) \in 0..FailureThreshold
          /\ 0 \in 0..SuccessThreshold
      BY DEF Capped, BreakerValue
    <2>2. fs \in [1..FailureThreshold -> 0..MonitoringWindow]
      BY DEF BreakerValue
    <2>3. c \in BreakerValue
      <3> HIDE DEF fs
      <3> QED BY <2>1, <2>2, Zenon DEF BreakerValue
    <2> QED BY <2>3, TransitionTypes, Zenon DEF OnFailure
  <1> QED BY <1>1, <1>2, <1>3, <1>4, <1>5, TransitionTypes

\* What each update does to the fields the properties speak about.
LEMMA OperatorFields ==
    ASSUME NEW b \in BreakerValue
    PROVE  /\ \/ CheckFailureRate(b) = b
              \/ /\ b.state = "closed"
                 /\ CheckFailureRate(b) = TransitionToOpen(b)
           /\ /\ TransitionToOpen(b).state = "open"
              /\ TransitionToOpen(b).changed = 0
              /\ TransitionToOpen(b).consecutive_failures = b.consecutive_failures
              /\ TransitionToOpen(b).consecutive_successes = b.consecutive_successes
           /\ /\ TransitionToHalfOpen(b).state = "half_open"
              /\ TransitionToHalfOpen(b).changed = 0
              /\ TransitionToHalfOpen(b).consecutive_successes = 0
           /\ /\ TransitionToClosed(b).state = "closed"
              /\ TransitionToClosed(b).changed = 0
              /\ TransitionToClosed(b).consecutive_failures = 0
           /\ /\ Reset(b).state = "closed"
              /\ Reset(b).consecutive_failures = 0
           /\ /\ Aged(b).state = b.state
              /\ Aged(b).changed = Capped(b.changed + 1, RecoveryTimeout)
              /\ Aged(b).consecutive_failures = b.consecutive_failures
              /\ Aged(b).consecutive_successes = b.consecutive_successes
  <1>1. \/ CheckFailureRate(b) = b
        \/ b.state = "closed" /\ CheckFailureRate(b) = TransitionToOpen(b)
    BY DEF CheckFailureRate
  <1>2. /\ TransitionToOpen(b).state = "open"
        /\ TransitionToOpen(b).changed = 0
        /\ TransitionToOpen(b).consecutive_failures = b.consecutive_failures
        /\ TransitionToOpen(b).consecutive_successes = b.consecutive_successes
    BY DEF TransitionToOpen, BreakerValue
  <1>3. /\ TransitionToHalfOpen(b).state = "half_open"
        /\ TransitionToHalfOpen(b).changed = 0
        /\ TransitionToHalfOpen(b).consecutive_successes = 0
    BY DEF TransitionToHalfOpen, BreakerValue
  <1>4. /\ TransitionToClosed(b).state = "closed"
        /\ TransitionToClosed(b).changed = 0
        /\ TransitionToClosed(b).consecutive_failures = 0
    BY DEF TransitionToClosed, BreakerValue
  <1>5. Reset(b).state = "closed" /\ Reset(b).consecutive_failures = 0
    BY DEF Reset, BreakerValue
  <1>6. /\ Aged(b).state = b.state
        /\ Aged(b).changed = Capped(b.changed + 1, RecoveryTimeout)
        /\ Aged(b).consecutive_failures = b.consecutive_failures
        /\ Aged(b).consecutive_successes = b.consecutive_successes
    BY DEF Aged, BreakerValue
  <1> QED BY <1>1, <1>2, <1>3, <1>4, <1>5, <1>6

\* _on_success: one more success, and a half-open circuit closes exactly at
\* the threshold.
LEMMA SuccessFields ==
    ASSUME NEW b \in BreakerValue
    PROVE  LET d == OnSuccess(b)
               n == Capped(b.consecutive_successes + 1, SuccessThreshold)
           IN  \/ /\ b.state = "half_open" /\ n >= SuccessThreshold
                  /\ d.state = "closed" /\ d.consecutive_failures = 0
               \/ /\ ~(b.state = "half_open" /\ n >= SuccessThreshold)
                  /\ d.state = b.state /\ d.changed = b.changed
                  /\ d.consecutive_failures = 0 /\ d.consecutive_successes = n
  <1> DEFINE n == Capped(b.consecutive_successes + 1, SuccessThreshold)
             c == [b EXCEPT !.consecutive_successes = n,
                            !.consecutive_failures  = 0]
  <1>1. n \in 0..SuccessThreshold /\ 0 \in 0..FailureThreshold
    BY DEF Capped, BreakerValue
  <1> HIDE DEF n
  <1>2. c \in BreakerValue
    BY <1>1, Zenon DEF BreakerValue
  <1>3. /\ c.state = b.state /\ c.changed = b.changed
        /\ c.consecutive_failures = 0 /\ c.consecutive_successes = n
    BY DEF BreakerValue
  <1>4. OnSuccess(b) = IF c.state = "half_open" /\ c.consecutive_successes >= SuccessThreshold
                       THEN TransitionToClosed(c) ELSE c
    BY Zenon DEF OnSuccess, n
  <1>5. TransitionToClosed(c).state = "closed" /\ TransitionToClosed(c).consecutive_failures = 0
    BY <1>2, OperatorFields
  <1> HIDE DEF c
  <1> QED BY <1>3, <1>4, <1>5 DEF n

\* _on_failure: one more failure; a half-open circuit opens, a closed one
\* exactly at the threshold.
LEMMA FailureFields ==
    ASSUME NEW b \in BreakerValue
    PROVE  LET d == OnFailure(b)
               n == Capped(b.consecutive_failures + 1, FailureThreshold)
               trips == \/ b.state = "half_open"
                        \/ b.state = "closed" /\ n >= FailureThreshold
           IN  \/ trips /\ d.state = "open" /\ d.changed = 0
               \/ /\ ~trips
                  /\ d.state = b.state /\ d.changed = b.changed
                  /\ d.consecutive_failures = n
  <1> DEFINE n == Capped(b.consecutive_failures + 1, FailureThreshold)
             fs == [k \in 1..FailureThreshold |->
                       IF k = 1 THEN 0 ELSE b.failures[k - 1]]
             c == [b EXCEPT !.consecutive_failures  = n,
                            !.consecutive_successes = 0,
                            !.failures = fs]
  <1>1. n \in 0..FailureThreshold /\ 0 \in 0..SuccessThreshold
    BY DEF Capped, BreakerValue
  <1>2. fs \in [1..FailureThreshold -> 0..MonitoringWindow]
    BY DEF BreakerValue
  <1> HIDE DEF n, fs
  <1>3. c \in BreakerValue
    BY <1>1, <1>2, Zenon DEF BreakerValue
  <1>4. c.state = b.state /\ c.changed = b.changed /\ c.consecutive_failures = n
    BY DEF BreakerValue
  <1>5. OnFailure(b) = IF \/ c.state = "half_open"
                          \/ c.state = "closed" /\ c.consecutive_failures >= FailureThreshold
                       THEN TransitionToOpen(c) ELSE c
    BY Zenon DEF OnFailure, n, fs
  <1>6. TransitionToOpen(c).state = "open" /\ TransitionToOpen(c).changed = 0
    BY <1>3, OperatorFields
  <1> HIDE DEF c
  <1> QED BY <1>4, <1>5, <1>6 DEF n
=============================================================================
