----------------------------- MODULE Transport -----------------------------
(***************************************************************************)
(* The HTTP client every task of the collector shares:                       *)
(* src/src/collector/transport/http.py and ratelimit.py.                     *)
(*                                                                         *)
(* Concurrent calls of get() meet in two shared objects, the circuit breaker  *)
(* and the rate limiter.  before_call is tested, then the call may wait for    *)
(* the limiter, then for the answer: other calls change the circuit meanwhile. *)
(* Time is counted in ticks and kept as ages: what the code compares.  A timer *)
(* of asyncio fires at its date or later.                                     *)
(***************************************************************************)
EXTENDS Naturals, Sequences, FiniteSets

CONSTANTS
  Callers,      \* tasks that call get()
  MaxAttempts,  \* RetryConfig.max_attempts
  Threshold,    \* failure_threshold of the circuit breaker
  Recovery,     \* recovery_seconds, in ticks
  Interval      \* minimal spacing of two requests, in ticks

ASSUME TransportAssumption ==
  /\ MaxAttempts \in Nat \ {0} /\ Threshold \in Nat \ {0}
  /\ Recovery \in Nat \ {0} /\ Interval \in Nat \ {0}

VARIABLES
  pc,          \* step of each call: "idle", "lock", "sleep", "sent" or "backoff"
  attempt,     \* attempts of the call so far
  waiters,     \* tasks waiting for the lock of the limiter, in order
  sleepLeft,   \* what the holder of the lock still has to sleep
  sinceStart,  \* age of _last_start (Interval stands for every larger age)
  failures,    \* _failures (Threshold stands for every larger count)
  opened,      \* _opened_at is not None
  age,         \* age of _opened_at (Recovery stands for every larger age)
  trials,      \* history: calls admitted half-open and not answered yet
  lateSends,   \* history: requests each task sent since the circuit refuses calls
  recent       \* history: the last Threshold answers, TRUE for a success

limiterVars == <<waiters, sleepLeft, sinceStart>>
circuitVars == <<failures, opened, age>>
vars == <<pc, attempt, limiterVars, circuitVars, trials, lateSends, recent>>

TypeOK ==
  /\ pc \in [Callers -> {"idle", "lock", "sleep", "sent", "backoff"}]
  /\ attempt \in [Callers -> 0..MaxAttempts]
  /\ \A i \in DOMAIN waiters : pc[waiters[i]] = "lock"
  /\ sleepLeft \in 0..Interval /\ sinceStart \in 0..Interval
  /\ failures \in 0..Threshold /\ opened \in BOOLEAN /\ age \in 0..Recovery
  /\ trials \subseteq Callers
  /\ lateSends \in [Callers -> Nat]
  /\ recent \in Seq(BOOLEAN) /\ Len(recent) <= Threshold

Init ==
  /\ pc = [c \in Callers |-> "idle"]
  /\ attempt = [c \in Callers |-> 0]
  /\ waiters = <<>> /\ sleepLeft = 0 /\ sinceStart = Interval
  /\ failures = 0 /\ opened = FALSE /\ age = 0
  /\ trials = {}
  /\ lateSends = [c \in Callers |-> 0]
  /\ recent = <<>>

-----------------------------------------------------------------------------
(* The circuit breaker.                                                      *)

Refusing == opened /\ age < Recovery
HalfOpen == opened /\ age = Recovery

Answered(ok) ==
  recent' = Append(IF Len(recent) = Threshold THEN Tail(recent) ELSE recent, ok)

\* Mutant of OnSuccess: the failures are not forgotten.
OnSuccessRemembers ==
  /\ opened' = FALSE /\ age' = 0
  /\ lateSends' = [c \in Callers |-> 0]
  /\ UNCHANGED failures

OnSuccess ==
  /\ failures' = 0 /\ opened' = FALSE /\ age' = 0
  /\ lateSends' = [c \in Callers |-> 0]

OnFailure ==
  /\ IF failures + 1 >= Threshold
       THEN failures' = Threshold /\ opened' = TRUE /\ age' = 0
       ELSE failures' = failures + 1 /\ UNCHANGED <<opened, age>>
  /\ UNCHANGED lateSends

-----------------------------------------------------------------------------
(* The rate limiter.                                                         *)

LockHeld == \E c \in Callers : pc[c] = "sleep"

\* The request leaves: _last_start is now.
Start(c) ==
  /\ pc' = [pc EXCEPT ![c] = "sent"]
  /\ sinceStart' = 0 /\ sleepLeft' = 0
  /\ lateSends' = IF Refusing THEN [lateSends EXCEPT ![c] = @ + 1] ELSE lateSends

\* With the lock: sleep for what is left of the interval, if anything is.
Delay(c) ==
  IF sinceStart < Interval
    THEN /\ pc' = [pc EXCEPT ![c] = "sleep"]
         /\ sleepLeft' = Interval - sinceStart
         /\ UNCHANGED <<sinceStart, lateSends>>
    ELSE Start(c)

\* Mutant of EnterLimiter: no lock around the wait.
EnterLimiterUnlocked(c) == Delay(c) /\ UNCHANGED waiters

EnterLimiter(c) ==
  IF LockHeld \/ waiters # <<>>
    THEN /\ pc' = [pc EXCEPT ![c] = "lock"]
         /\ waiters' = Append(waiters, c)
         /\ UNCHANGED <<sleepLeft, sinceStart, lateSends>>
    ELSE Delay(c) /\ UNCHANGED waiters

Acquire(c) ==
  /\ pc[c] = "lock" /\ ~LockHeld /\ Head(waiters) = c
  /\ waiters' = Tail(waiters)
  /\ Delay(c)
  /\ UNCHANGED <<attempt, circuitVars, trials, recent>>

Wake(c) ==
  /\ pc[c] = "sleep" /\ sleepLeft = 0
  /\ Start(c)
  /\ UNCHANGED <<attempt, waiters, circuitVars, trials, recent>>

-----------------------------------------------------------------------------
(* get(): up to MaxAttempts attempts.                                        *)

\* range(1, max_attempts + 1).
CanTry(c) == pc[c] = "idle" \/ (pc[c] = "backoff" /\ attempt[c] < MaxAttempts)

\* before_call raises CircuitOpenError, which leaves get().
Refused(c) ==
  /\ CanTry(c) /\ Refusing
  /\ pc' = [pc EXCEPT ![c] = "idle"]
  /\ attempt' = [attempt EXCEPT ![c] = 0]
  /\ UNCHANGED <<limiterVars, circuitVars, trials, lateSends, recent>>

\* Mutant of Admitted: a retry does not look at the circuit.
AdmittedBlindRetry(c) ==
  /\ CanTry(c) /\ (pc[c] = "idle" => ~Refusing)
  /\ attempt' = [attempt EXCEPT ![c] = @ + 1]
  /\ trials' = IF HalfOpen THEN trials \cup {c} ELSE trials
  /\ EnterLimiter(c)
  /\ UNCHANGED <<circuitVars, recent>>

\* before_call lets the attempt through, on to the limiter.
Admitted(c) ==
  /\ CanTry(c) /\ ~Refusing
  /\ attempt' = [attempt EXCEPT ![c] = @ + 1]
  /\ trials' = IF HalfOpen THEN trials \cup {c} ELSE trials
  /\ EnterLimiter(c)
  /\ UNCHANGED <<circuitVars, recent>>

\* Any answer but 403, 429 and 5xx.
Success(c) ==
  /\ pc[c] = "sent"
  /\ OnSuccess /\ Answered(TRUE)
  /\ pc' = [pc EXCEPT ![c] = "idle"]
  /\ attempt' = [attempt EXCEPT ![c] = 0]
  /\ trials' = trials \ {c}
  /\ UNCHANGED limiterVars

\* 403 or 429: BlockedError leaves get() without another attempt.
Blocked(c) ==
  /\ pc[c] = "sent"
  /\ OnFailure /\ Answered(FALSE)
  /\ pc' = [pc EXCEPT ![c] = "idle"]
  /\ attempt' = [attempt EXCEPT ![c] = 0]
  /\ trials' = trials \ {c}
  /\ UNCHANGED limiterVars

\* Mutant of Failure: the attempts are counted from each failure.
FailureUncounted(c) ==
  /\ pc[c] = "sent"
  /\ OnFailure /\ Answered(FALSE)
  /\ pc' = [pc EXCEPT ![c] = "backoff"]
  /\ attempt' = [attempt EXCEPT ![c] = 0]
  /\ trials' = trials \ {c}
  /\ UNCHANGED limiterVars

\* Timeout, lost connection or 5xx, then _backoff, even after the last attempt.
Failure(c) ==
  /\ pc[c] = "sent"
  /\ OnFailure /\ Answered(FALSE)
  /\ pc' = [pc EXCEPT ![c] = "backoff"]
  /\ trials' = trials \ {c}
  /\ UNCHANGED <<attempt, limiterVars>>

\* What httpx raises and get() does not catch (an answer it cannot decode, too many
\* redirections): it leaves get() at once, counted neither as a success nor as a failure.
Raised(c) ==
  /\ pc[c] = "sent"
  /\ pc' = [pc EXCEPT ![c] = "idle"]
  /\ attempt' = [attempt EXCEPT ![c] = 0]
  /\ trials' = trials \ {c}
  /\ UNCHANGED <<limiterVars, circuitVars, lateSends, recent>>

\* ServerError after the last attempt.
GiveUp(c) ==
  /\ pc[c] = "backoff" /\ attempt[c] = MaxAttempts
  /\ pc' = [pc EXCEPT ![c] = "idle"]
  /\ attempt' = [attempt EXCEPT ![c] = 0]
  /\ UNCHANGED <<limiterVars, circuitVars, trials, lateSends, recent>>

Tick ==
  /\ sinceStart' = IF sinceStart < Interval THEN sinceStart + 1 ELSE sinceStart
  /\ sleepLeft' = IF sleepLeft > 0 THEN sleepLeft - 1 ELSE 0
  /\ age' = IF Refusing THEN age + 1 ELSE age
  /\ lateSends' = IF Refusing /\ age' = Recovery THEN [c \in Callers |-> 0] ELSE lateSends
  /\ UNCHANGED <<pc, attempt, waiters, failures, opened, trials, recent>>

\* An answer, or its absence, that the circuit counts.
Answer(c) == Success(c) \/ Blocked(c) \/ Failure(c)

\* What a call does once it has begun.
Proceed(c) ==
  \/ Acquire(c) \/ Wake(c) \/ Answer(c) \/ Raised(c) \/ GiveUp(c)
  \/ pc[c] # "idle" /\ (Refused(c) \/ Admitted(c))

Next ==
  \/ \E c \in Callers : Refused(c) \/ Admitted(c) \/ Acquire(c) \/ Wake(c)
                         \/ Success(c) \/ Blocked(c) \/ Failure(c) \/ Raised(c)
                         \/ GiveUp(c)
  \/ Tick

Spec == Init /\ [][Next]_vars

\* asyncio runs every ready task, httpx bounds each request by a timeout, time passes.
\* Nothing obliges a task to call get().
FairSpec == Spec /\ WF_vars(Tick) /\ \A c \in Callers : WF_vars(Proceed(c))

-----------------------------------------------------------------------------
(* Properties.                                                               *)

\* Two requests never start closer than Interval, however many tasks call at once
\* (RateLimiter.wait).
StartsAreSpaced ==
  [][\A c \in Callers : pc[c] # "sent" /\ pc'[c] = "sent" => sinceStart = Interval]_vars

\* While the circuit refuses calls, a task sends at most the request it had been allowed
\* before: its retries are refused too (before_call at every attempt of get).
OneLateSend == \A c \in Callers : lateSends[c] <= 1

\* The circuit opens only when the last Threshold answers it counts, whoever received them, are all
\* failures.
OpensOnStreak ==
  [][~opened /\ opened' => Len(recent') = Threshold /\ \A i \in DOMAIN recent' : ~recent'[i]]_vars

\* get() always returns: neither the lock of the limiter nor the retries hold a task for ever.
CallsReturn == \A c \in Callers : pc[c] # "idle" ~> pc[c] = "idle"

\* What the code says of itself.

\* Half-open: "un seul appel est autorisé pour tester la reprise" (CircuitBreaker).
SingleTrial == Cardinality(trials) <= 1

=============================================================================
