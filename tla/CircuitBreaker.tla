--------------------------- MODULE CircuitBreaker ---------------------------
(***************************************************************************)
(* One CircuitBreaker shared by concurrent callers.  call() takes the lock *)
(* only for its prologue and for recording the outcome: the protected      *)
(* coroutine runs outside it, so calls admitted in one circuit state       *)
(* report back in another.                                                 *)
(***************************************************************************)
EXTENDS Breaker

CONSTANTS Caller    \* the tasks that call through this breaker

VARIABLES
    breaker,     \* the breaker's value
    call,        \* call[c]: where caller c is in call()
    healthy,     \* environment: the service answers every new call in time
    \* History variables.
    sinceOpen,   \* ticks since the circuit last opened, capped; reset() forgets it
    probed       \* successes recorded since the circuit last became half-open

vars == <<breaker, call, healthy, sinceOpen, probed>>

CallState == {"idle", "running", "late"}

TypeOK ==
    /\ breaker \in BreakerValue
    /\ call \in [Caller -> CallState]
    /\ healthy \in BOOLEAN
    /\ sinceOpen \in 0..RecoveryTimeout
    /\ probed \in 0..SuccessThreshold

Init ==
    /\ breaker = NewBreaker
    /\ call = [c \in Caller |-> "idle"]
    /\ healthy = FALSE
    /\ sinceOpen = RecoveryTimeout
    /\ probed = 0

Opens      == breaker.state # "open" /\ breaker'.state = "open"
HalfOpens  == breaker.state # "half_open" /\ breaker'.state = "half_open"

\* How the history variables follow a breaker update; ok says whether the
\* step records a success.
History(ok) ==
    /\ sinceOpen' = IF Opens THEN 0 ELSE sinceOpen
    /\ probed' = IF HalfOpens THEN 0
                 ELSE IF ok THEN Capped(probed + 1, SuccessThreshold) ELSE probed

\* call() admits caller c; its coroutine starts running outside the lock.
Admit(c) ==
    /\ call[c] = "idle"
    /\ ~Rejects(breaker)
    /\ breaker' = EnterCall(breaker)
    /\ call' = [call EXCEPT ![c] = "running"]
    /\ History(FALSE)
    /\ UNCHANGED healthy

\* call() raises CircuitOpenError; the failure-rate check may have opened
\* the circuit first.
Reject(c) ==
    /\ call[c] = "idle"
    /\ Rejects(breaker)
    /\ breaker' = CheckFailureRate(breaker)
    /\ History(FALSE)
    /\ UNCHANGED <<call, healthy>>

Succeed(c) ==
    /\ call[c] # "idle"
    /\ breaker' = OnSuccess(breaker)
    /\ call' = [call EXCEPT ![c] = "idle"]
    /\ History(TRUE)
    /\ UNCHANGED healthy

\* A call that was admitted before the service became healthy ("late") may
\* still fail afterwards.
Fail(c) ==
    /\ call[c] = "late" \/ (call[c] = "running" /\ ~healthy)
    /\ breaker' = OnFailure(breaker)
    /\ call' = [call EXCEPT ![c] = "idle"]
    /\ History(FALSE)
    /\ UNCHANGED healthy

\* Task cancellation raises CancelledError, which is not an Exception:
\* neither _on_success nor _on_failure runs.
Cancel(c) ==
    /\ call[c] = "late" \/ (call[c] = "running" /\ ~healthy)
    /\ call' = [call EXCEPT ![c] = "idle"]
    /\ UNCHANGED <<breaker, healthy, sinceOpen, probed>>

\* CircuitBreakerManager.reset_all / reset(): a manual override.
ManualReset ==
    /\ breaker' = Reset(breaker)
    /\ sinceOpen' = RecoveryTimeout
    /\ UNCHANGED <<call, healthy, probed>>

Tick ==
    /\ breaker' = Aged(breaker)
    /\ sinceOpen' = Capped(sinceOpen + 1, RecoveryTimeout)
    /\ UNCHANGED <<call, healthy, probed>>

\* Environment: from now on the service answers every new call in time.
Heal ==
    /\ ~healthy
    /\ healthy' = TRUE
    /\ call' = [c \in Caller |-> IF call[c] = "running" THEN "late" ELSE call[c]]
    /\ UNCHANGED <<breaker, sinceOpen, probed>>

Calls == \E c \in Caller :
            Admit(c) \/ Reject(c) \/ Succeed(c) \/ Fail(c) \/ Cancel(c)

Next == Calls \/ Tick \/ Heal \/ ManualReset

Spec == Init /\ [][Next]_vars

\* Scheduling: time passes, callers keep calling, and a call that the
\* service will answer is answered.
Fairness ==
    /\ WF_vars(Tick)
    /\ \A c \in Caller : WF_vars(Admit(c) \/ Reject(c)) /\ WF_vars(Succeed(c))

FairSpec == Spec /\ Fairness
-----------------------------------------------------------------------------
(***************************************************************************)
(* Properties                                                              *)
(***************************************************************************)

\* Once the circuit opens, call() admits nobody until recovery_timeout has
\* passed, whatever late outcomes of earlier calls are recorded meanwhile
\* (circuit_breaker.py call, _on_success, _on_failure).
CoolingOff ==
    [][\A c \in Caller :
          call[c] = "idle" /\ call'[c] = "running"
             => sinceOpen >= RecoveryTimeout]_vars

\* While the circuit is closed the run of consecutive failures is below the
\* threshold, and while it is half-open so is the run of successes: no
\* outcome order leaves the breaker past a threshold it did not act on.
ThresholdsActedOn ==
    /\ breaker.state = "closed" => breaker.consecutive_failures < FailureThreshold
    /\ breaker.state = "half_open" =>
          /\ breaker.consecutive_successes < SuccessThreshold
          /\ breaker.consecutive_successes = probed

\* Why CoolingOff holds: until recovery_timeout has passed the circuit is
\* still open and _state_changed_at is still the moment it opened.
StaysOpen ==
    sinceOpen < RecoveryTimeout =>
        breaker.state = "open" /\ breaker.changed = sinceOpen

\* Once the service is healthy the circuit eventually closes for good: old
\* failures age out of the monitoring window and cannot reopen it for ever.
Recovers == healthy ~> [](breaker.state = "closed")

=============================================================================
