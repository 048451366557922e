-------------------------- MODULE TransportProof --------------------------
(***************************************************************************)
(* Proofs about the HTTP client, for every set of callers, number of         *)
(* attempts, threshold, recovery time and interval.                          *)
(***************************************************************************)
EXTENDS Transport, SequenceTheorems, TLAPS

\* The queue of the limiter's lock holds each task that waits for it, once.
QueueInv ==
  /\ waiters \in Seq(Callers)
  /\ \A i, j \in 1..Len(waiters) : waiters[i] = waiters[j] => i = j
  /\ \A c \in Callers : pc[c] = "lock" => \E i \in 1..Len(waiters) : waiters[i] = c

\* A task outside get() has counted no attempt.
IdleInv == \A c \in Callers : pc[c] = "idle" => attempt[c] = 0

\* One task at most holds the lock, and it wakes Interval after the last start or later.
SleepInv ==
  /\ \A c, d \in Callers : pc[c] = "sleep" /\ pc[d] = "sleep" => c = d
  /\ \A c \in Callers : pc[c] = "sleep" => sleepLeft + sinceStart >= Interval

\* What a task sent late, it sent once, from the limiter, and it has not come back there.
LateInv ==
  \A c \in Callers :
    lateSends[c] # 0 => Refusing /\ lateSends[c] = 1 /\ pc[c] \notin {"lock", "sleep"}

\* The counter counts the failures that end the answers, and it alone opens the circuit.
StreakInv ==
  /\ opened <=> failures = Threshold
  /\ failures <= Len(recent)
  /\ \A i \in 1..Len(recent) : i > Len(recent) - failures => recent[i] = FALSE

IInv == TypeOK /\ QueueInv /\ IdleInv /\ SleepInv /\ LateInv /\ StreakInv

-----------------------------------------------------------------------------
(* The initial states.                                                       *)

USE TransportAssumption DEF TransportAssumption

\* The collector starts with an idle client.
LEMMA InitInv == Init => IInv
<1> SUFFICES ASSUME Init PROVE IInv
  OBVIOUS
<1> USE DEF Init
<1>a. /\ pc \in [Callers -> {"idle", "lock", "sleep", "sent", "backoff"}]
      /\ attempt \in [Callers -> 0..MaxAttempts] /\ lateSends \in [Callers -> Nat]
  OBVIOUS
<1>b. sleepLeft \in 0..Interval /\ sinceStart \in 0..Interval
  OBVIOUS
<1>c. failures \in 0..Threshold /\ age \in 0..Recovery
  OBVIOUS
<1>f. opened \in BOOLEAN
  OBVIOUS
<1>d. recent \in Seq(BOOLEAN) /\ Len(recent) <= Threshold /\ trials \subseteq Callers
  OBVIOUS
<1>e. \A i \in DOMAIN waiters : pc[waiters[i]] = "lock"
  OBVIOUS
<1>1. TypeOK
  BY <1>a, <1>b, <1>c, <1>d, <1>e, <1>f DEF TypeOK
<1>2. QueueInv /\ IdleInv /\ SleepInv /\ LateInv /\ StreakInv
  BY DEF QueueInv, IdleInv, SleepInv, LateInv, StreakInv
<1>3. QED BY <1>1, <1>2 DEF IInv

-----------------------------------------------------------------------------
(* What the limiter does to the state, whoever calls it.                      *)

\* Entering the wait: to sleep with the lock, or to send at once.
LEMMA DelayEffect ==
  ASSUME NEW c \in Callers, Delay(c), IInv
  PROVE  \/ /\ sinceStart < Interval
            /\ pc' = [pc EXCEPT ![c] = "sleep"]
            /\ sleepLeft' + sinceStart' >= Interval
            /\ UNCHANGED lateSends
         \/ /\ sinceStart = Interval
            /\ pc' = [pc EXCEPT ![c] = "sent"]
            /\ sinceStart' = 0
            /\ lateSends' = IF Refusing THEN [lateSends EXCEPT ![c] = @ + 1] ELSE lateSends
BY DEF Delay, Start, IInv, TypeOK

\* The limiter keeps the types of what it changes.
LEMMA DelayTypes ==
  ASSUME NEW c \in Callers, Delay(c), IInv
  PROVE  /\ pc' \in [Callers -> {"idle", "lock", "sleep", "sent", "backoff"}]
         /\ sleepLeft' \in 0..Interval /\ sinceStart' \in 0..Interval
         /\ lateSends' \in [Callers -> Nat]
<1>1. CASE sinceStart < Interval
  BY <1>1 DEF Delay, IInv, TypeOK
<1>2. CASE ~(sinceStart < Interval)
  <2>1. /\ pc' \in [Callers -> {"idle", "lock", "sleep", "sent", "backoff"}]
        /\ sleepLeft' \in 0..Interval /\ sinceStart' \in 0..Interval
    BY <1>2 DEF Delay, Start, IInv, TypeOK
  <2>2. lateSends' = lateSends \/ lateSends' = [lateSends EXCEPT ![c] = @ + 1]
    BY <1>2 DEF Delay, Start
  <2>3. lateSends \in [Callers -> Nat]
    BY DEF IInv, TypeOK
  <2>4. lateSends' \in [Callers -> Nat]
    BY <2>2, <2>3
  <2>5. QED BY <2>1, <2>4
<1>3. QED BY <1>1, <1>2

\* A send from the limiter is late at most once.
LEMMA StartKeepsLateInv ==
  ASSUME IInv, NEW c \in Callers, Start(c), UNCHANGED circuitVars,
         pc[c] \in {"lock", "sleep"} \/ ~Refusing
  PROVE  LateInv'
<1>1. Refusing' <=> Refusing
  BY DEF Refusing, circuitVars
<1>2. lateSends[c] = 0
  BY DEF IInv, LateInv, TypeOK
<1>3. \A d \in Callers : pc'[d] = IF d = c THEN "sent" ELSE pc[d]
  BY DEF Start, IInv, TypeOK
<1>4. \A d \in Callers : lateSends'[d] = IF d = c /\ Refusing THEN 1 ELSE lateSends[d]
  BY <1>2 DEF Start, IInv, TypeOK
<1>5. QED BY <1>1, <1>2, <1>3, <1>4 DEF IInv, LateInv

-----------------------------------------------------------------------------
(* What an answer does to the circuit.                                        *)

\* The history of the answers.
LEMMA AnsweredEffect ==
  ASSUME IInv, NEW ok \in BOOLEAN, Answered(ok)
  PROVE  /\ recent' \in Seq(BOOLEAN)
         /\ Len(recent') = IF Len(recent) = Threshold THEN Threshold ELSE Len(recent) + 1
         /\ recent'[Len(recent')] = ok
         /\ \A i \in 1..(Len(recent') - 1) :
              recent'[i] = IF Len(recent) = Threshold THEN recent[i + 1] ELSE recent[i]
<1>0. recent \in Seq(BOOLEAN) /\ Len(recent) \in Nat /\ Len(recent) <= Threshold
  BY DEF IInv, TypeOK
<1>1. CASE Len(recent) = Threshold
  <2>1. recent # <<>>
    BY <1>0, <1>1
  <2>2. /\ Tail(recent) \in Seq(BOOLEAN) /\ Len(Tail(recent)) = Threshold - 1
        /\ \A i \in 1..(Threshold - 1) : Tail(recent)[i] = recent[i + 1]
    BY <1>0, <1>1, <2>1, HeadTailProperties
  <2>3. recent' = Append(Tail(recent), ok)
    BY <1>1 DEF Answered
  <2>4. QED BY <1>0, <1>1, <2>2, <2>3
<1>2. CASE Len(recent) # Threshold
  BY <1>0, <1>2 DEF Answered
<1>3. QED BY <1>1, <1>2

\* A success ends the streak of failures.
LEMMA SuccessKeepsStreak ==
  ASSUME IInv, OnSuccess, Answered(TRUE)
  PROVE  StreakInv'
<1>1. Len(recent') \in Nat
  BY AnsweredEffect
<1>2. opened' = FALSE /\ failures' = 0
  BY DEF OnSuccess
<1>3. QED BY <1>1, <1>2 DEF StreakInv

\* A failure makes the streak longer, up to the threshold.
LEMMA FailureKeepsStreak ==
  ASSUME IInv, OnFailure, Answered(FALSE)
  PROVE  StreakInv'
<1>0. failures \in Nat /\ (opened <=> failures = Threshold)
  BY DEF IInv, TypeOK, StreakInv
<1>1. failures' = IF failures + 1 >= Threshold THEN Threshold ELSE failures + 1
  BY <1>0 DEF OnFailure
<1>2. opened' <=> failures' = Threshold
  <2>1. CASE failures + 1 >= Threshold
    BY <2>1 DEF OnFailure
  <2>2. CASE ~(failures + 1 >= Threshold)
    <3>1. failures' = failures + 1 /\ opened' = opened
      BY <2>2 DEF OnFailure
    <3>2. failures # Threshold /\ failures' # Threshold
      BY <1>0, <2>2, <3>1
    <3>3. QED BY <1>0, <3>1, <3>2
  <2>3. QED BY <2>1, <2>2
<1>b. Len(recent) \in Nat /\ Len(recent) <= Threshold /\ failures <= Len(recent)
  BY DEF IInv, TypeOK, StreakInv
<1>c. \A i \in 1..Len(recent) : i > Len(recent) - failures => recent[i] = FALSE
  BY DEF IInv, TypeOK, StreakInv
<1>2a. FALSE \in BOOLEAN
  OBVIOUS
<1>2b. recent'[Len(recent')] = FALSE
  BY <1>2a, AnsweredEffect, Zenon
<1>2c. recent' \in Seq(BOOLEAN)
  BY <1>2a, AnsweredEffect, Zenon
<1>3. /\ Len(recent') \in Nat
      /\ Len(recent') = IF Len(recent) = Threshold THEN Threshold ELSE Len(recent) + 1
      /\ \A i \in 1..(Len(recent') - 1) :
           recent'[i] = IF Len(recent) = Threshold THEN recent[i + 1] ELSE recent[i]
  <2>1. Len(recent') \in Nat
    BY <1>2c
  <2>2. QED BY <1>2a, <2>1, AnsweredEffect, Zenon
<1>4. failures' \in Nat /\ failures' <= Len(recent') /\ failures' <= failures + 1
  BY <1>0, <1>1, <1>b, <1>3
<1>5. ASSUME NEW i \in 1..Len(recent'), i > Len(recent') - failures'
      PROVE  recent'[i] = FALSE
  <2>1. CASE i = Len(recent')
    BY <1>2b, <2>1
  <2>2. CASE i # Len(recent') /\ Len(recent) = Threshold
    <3>0. Len(recent') = Len(recent)
      BY <1>3, <2>2
    <3>1. i + 1 \in 1..Len(recent) /\ i + 1 > Len(recent) - failures
      <4>1. i \in Nat /\ 1 <= i /\ i <= Len(recent) - 1
        BY <1>b, <1>5, <2>2, <3>0
      <4>2. i > Len(recent) - failures' /\ failures' <= failures + 1
        BY <1>4, <1>5, <3>0
      <4>3. QED BY <1>0, <1>b, <1>4, <4>1, <4>2
    <3>2. QED BY <1>3, <1>c, <2>2, <3>1
  <2>3. CASE i # Len(recent') /\ Len(recent) # Threshold
    <3>0. Len(recent') = Len(recent) + 1
      BY <1>3, <2>3
    <3>1. i \in 1..Len(recent) /\ i > Len(recent) - failures
      <4>1. i \in Nat /\ 1 <= i /\ i <= Len(recent)
        BY <1>b, <1>5, <2>3, <3>0
      <4>2. i > Len(recent) + 1 - failures' /\ failures' <= failures + 1
        BY <1>4, <1>5, <3>0
      <4>3. QED BY <1>0, <1>b, <1>4, <4>1, <4>2
    <3>2. QED BY <1>3, <1>c, <2>3, <3>1
  <2>4. QED BY <2>1, <2>2, <2>3
<1>6. QED BY <1>2, <1>3, <1>4, <1>5 DEF StreakInv

\* A failure leaves a refusing circuit refusing.
LEMMA FailureKeepsRefusing == IInv /\ OnFailure /\ Refusing => Refusing'
<1> SUFFICES ASSUME IInv, OnFailure, Refusing PROVE Refusing'
  OBVIOUS
<1>1. opened /\ failures = Threshold /\ age < Recovery
  BY DEF IInv, StreakInv, Refusing
<1>2. failures + 1 >= Threshold
  BY <1>1
<1>3. opened' = TRUE /\ age' = 0
  BY <1>2 DEF OnFailure
<1>4. QED BY <1>3 DEF Refusing

\* An answer keeps the types of the circuit.
LEMMA CircuitTypes ==
  ASSUME IInv, OnSuccess \/ OnFailure
  PROVE  /\ failures' \in 0..Threshold /\ opened' \in BOOLEAN /\ age' \in 0..Recovery
         /\ lateSends' \in [Callers -> Nat]
<1>0. /\ failures \in 0..Threshold /\ opened \in BOOLEAN /\ age \in 0..Recovery
      /\ lateSends \in [Callers -> Nat]
  BY DEF IInv, TypeOK
<1>1. CASE OnSuccess
  <2>1. failures' = 0 /\ age' = 0 /\ lateSends' = [c \in Callers |-> 0] /\ opened' = FALSE
    BY <1>1 DEF OnSuccess
  <2>2. failures' \in 0..Threshold /\ age' \in 0..Recovery /\ lateSends' \in [Callers -> Nat]
    BY <2>1
  <2>3. opened' \in BOOLEAN
    BY <2>1
  <2>4. QED BY <2>2, <2>3
<1>2. CASE OnFailure
  <2>1. CASE failures + 1 >= Threshold
    BY <1>0, <1>2, <2>1 DEF OnFailure
  <2>2. CASE ~(failures + 1 >= Threshold)
    <3>1. failures' = failures + 1 /\ opened' = opened /\ age' = age /\ lateSends' = lateSends
      BY <1>2, <2>2 DEF OnFailure
    <3>2. failures' \in 0..Threshold
      BY <1>0, <2>2, <3>1
    <3>3. QED BY <1>0, <3>1, <3>2
  <2>3. QED BY <2>1, <2>2
<1>3. QED BY <1>1, <1>2

-----------------------------------------------------------------------------
(* What a call does outside the limiter.                                      *)

\* Leaving get(), or waiting before another attempt: the limiter is not concerned.
LEMMA OutsideKeeps ==
  ASSUME IInv, NEW c \in Callers, pc[c] \notin {"lock", "sleep"}, UNCHANGED limiterVars,
         \/ pc' = [pc EXCEPT ![c] = "idle"] /\ attempt' = [attempt EXCEPT ![c] = 0]
         \/ pc' = [pc EXCEPT ![c] = "backoff"] /\ attempt' = attempt
  PROVE  /\ pc' \in [Callers -> {"idle", "lock", "sleep", "sent", "backoff"}]
         /\ attempt' \in [Callers -> 0..MaxAttempts]
         /\ \A i \in DOMAIN waiters' : pc'[waiters'[i]] = "lock"
         /\ sleepLeft' \in 0..Interval /\ sinceStart' \in 0..Interval
         /\ QueueInv' /\ IdleInv' /\ SleepInv'
<1>0. /\ pc \in [Callers -> {"idle", "lock", "sleep", "sent", "backoff"}]
      /\ attempt \in [Callers -> 0..MaxAttempts]
      /\ \A i \in DOMAIN waiters : pc[waiters[i]] = "lock"
      /\ sleepLeft \in 0..Interval /\ sinceStart \in 0..Interval
      /\ waiters \in Seq(Callers)
  BY DEF IInv, TypeOK, QueueInv
<1>1. waiters' = waiters /\ sleepLeft' = sleepLeft /\ sinceStart' = sinceStart
  BY DEF limiterVars
<1>2. /\ pc'[c] \in {"idle", "backoff"}
      /\ \A d \in Callers : d # c => pc'[d] = pc[d] /\ attempt'[d] = attempt[d]
      /\ pc'[c] = "idle" => attempt'[c] = 0
  BY <1>0
<1>3. pc' \in [Callers -> {"idle", "lock", "sleep", "sent", "backoff"}]
  BY <1>0
<1>4. attempt' \in [Callers -> 0..MaxAttempts]
  BY <1>0
<1>5. \A i \in DOMAIN waiters' : pc'[waiters'[i]] = "lock"
  BY <1>0, <1>1, <1>2
<1>6. QueueInv'
  BY <1>1, <1>2 DEF IInv, QueueInv
<1>7. IdleInv'
  BY <1>2 DEF IInv, IdleInv
<1>8. SleepInv'
  BY <1>1, <1>2 DEF IInv, SleepInv
<1>9. QED BY <1>0, <1>1, <1>3, <1>4, <1>5, <1>6, <1>7, <1>8

\* An answer: the circuit and the history of the answers, then the call goes on.
LEMMA AnswerKeeps ==
  ASSUME IInv, NEW c \in Callers, Answer(c)
  PROVE  IInv'
<1>1. /\ pc[c] = "sent" /\ UNCHANGED limiterVars /\ trials' = trials \ {c}
      /\ \/ pc' = [pc EXCEPT ![c] = "idle"] /\ attempt' = [attempt EXCEPT ![c] = 0]
         \/ pc' = [pc EXCEPT ![c] = "backoff"] /\ attempt' = attempt
  BY DEF Answer, Success, Blocked, Failure
<1>2. \/ OnSuccess /\ Answered(TRUE)
      \/ OnFailure /\ Answered(FALSE)
  BY DEF Answer, Success, Blocked, Failure
<1>3. TRUE \in BOOLEAN /\ FALSE \in BOOLEAN
  OBVIOUS
<1>4. /\ pc' \in [Callers -> {"idle", "lock", "sleep", "sent", "backoff"}]
      /\ attempt' \in [Callers -> 0..MaxAttempts]
      /\ \A i \in DOMAIN waiters' : pc'[waiters'[i]] = "lock"
      /\ sleepLeft' \in 0..Interval /\ sinceStart' \in 0..Interval
      /\ QueueInv' /\ IdleInv' /\ SleepInv'
  <2>1. pc[c] \notin {"lock", "sleep"}
    BY <1>1
  <2>2. QED BY <1>1, <2>1, OutsideKeeps
<1>5. /\ failures' \in 0..Threshold /\ opened' \in BOOLEAN /\ age' \in 0..Recovery
      /\ lateSends' \in [Callers -> Nat]
  BY <1>2, CircuitTypes, Zenon
<1>6. recent' \in Seq(BOOLEAN) /\ Len(recent') <= Threshold
  <2>1. PICK ok \in BOOLEAN : Answered(ok)
    BY <1>2, <1>3, Zenon
  <2>2. /\ recent' \in Seq(BOOLEAN)
        /\ Len(recent') = IF Len(recent) = Threshold THEN Threshold ELSE Len(recent) + 1
    BY <2>1, AnsweredEffect, Zenon
  <2>3. QED BY <2>2 DEF IInv, TypeOK
<1>7. TypeOK'
  <2>1. trials' \subseteq Callers
    BY <1>1 DEF IInv, TypeOK
  <2>2. QED BY <1>4, <1>5, <1>6, <2>1, Zenon DEF TypeOK
<1>8. StreakInv'
  BY <1>2, SuccessKeepsStreak, FailureKeepsStreak, Zenon
<1>9. LateInv'
  <2>1. CASE OnSuccess
    BY <2>1 DEF OnSuccess, LateInv
  <2>2. CASE OnFailure
    <3>1. lateSends' = lateSends /\ (Refusing => Refusing')
      BY <2>2, FailureKeepsRefusing DEF OnFailure
    <3>2. \A d \in Callers : pc'[d] \in {"lock", "sleep"} => pc'[d] = pc[d]
      BY <1>1 DEF IInv, TypeOK
    <3>3. QED BY <3>1, <3>2 DEF IInv, LateInv
  <2>3. QED BY <1>2, <2>1, <2>2
<1>10. QED BY <1>4, <1>7, <1>8, <1>9 DEF IInv

\* A refusal, a last failure and an error that is not caught end the call and leave the
\* circuit alone.
LEMMA EndKeeps ==
  ASSUME IInv, NEW c \in Callers, Refused(c) \/ GiveUp(c) \/ Raised(c)
  PROVE  IInv'
<1>1. /\ pc[c] \in {"idle", "backoff", "sent"}
      /\ pc' = [pc EXCEPT ![c] = "idle"] /\ attempt' = [attempt EXCEPT ![c] = 0]
      /\ UNCHANGED <<limiterVars, circuitVars, lateSends, recent>>
      /\ trials' = trials \/ trials' = trials \ {c}
  BY DEF Refused, GiveUp, CanTry, Raised
<1>2. UNCHANGED limiterVars /\ UNCHANGED <<failures, opened, age, lateSends, recent>>
  BY <1>1 DEF circuitVars
<1>3. /\ pc' \in [Callers -> {"idle", "lock", "sleep", "sent", "backoff"}]
      /\ attempt' \in [Callers -> 0..MaxAttempts]
      /\ \A i \in DOMAIN waiters' : pc'[waiters'[i]] = "lock"
      /\ sleepLeft' \in 0..Interval /\ sinceStart' \in 0..Interval
      /\ QueueInv' /\ IdleInv' /\ SleepInv'
  <2>1. pc[c] \notin {"lock", "sleep"}
    BY <1>1
  <2>2. QED BY <1>1, <1>2, <2>1, OutsideKeeps
<1>4. TypeOK'
  <2>1. /\ failures' \in 0..Threshold /\ opened' \in BOOLEAN /\ age' \in 0..Recovery
        /\ trials' \subseteq Callers /\ lateSends' \in [Callers -> Nat]
        /\ recent' \in Seq(BOOLEAN) /\ Len(recent') <= Threshold
    BY <1>1, <1>2 DEF IInv, TypeOK
  <2>2. QED BY <1>3, <2>1, Zenon DEF TypeOK
<1>5. StreakInv'
  BY <1>2 DEF IInv, StreakInv
<1>6. LateInv'
  <2>1. Refusing' <=> Refusing
    BY <1>2 DEF Refusing
  <2>2. \A d \in Callers : pc'[d] \in {"lock", "sleep"} => pc'[d] = pc[d]
    BY <1>1 DEF IInv, TypeOK
  <2>3. QED BY <1>2, <2>1, <2>2 DEF IInv, LateInv
<1>7. QED BY <1>3, <1>4, <1>5, <1>6 DEF IInv

-----------------------------------------------------------------------------
(* What a call does in the limiter.                                           *)

\* With the lock free, a call that enters the wait is its only sleeper.
LEMMA DelayKeeps ==
  ASSUME IInv, NEW c \in Callers, Delay(c), ~LockHeld, UNCHANGED circuitVars,
         pc[c] = "lock" \/ ~Refusing
  PROVE  SleepInv' /\ LateInv'
<1>0. pc \in [Callers -> {"idle", "lock", "sleep", "sent", "backoff"}]
  BY DEF IInv, TypeOK
<1>1. \A d \in Callers : pc[d] # "sleep"
  BY DEF LockHeld
<1>2. CASE sinceStart < Interval
  <2>1. pc' = [pc EXCEPT ![c] = "sleep"] /\ lateSends' = lateSends
    BY <1>2 DEF Delay
  <2>2. sleepLeft' + sinceStart' >= Interval
    BY <1>2 DEF Delay, IInv, TypeOK
  <2>3. \A d \in Callers : pc'[d] = IF d = c THEN "sleep" ELSE pc[d]
    BY <1>0, <2>1
  <2>4. SleepInv'
    BY <1>1, <2>2, <2>3 DEF SleepInv
  <2>5. lateSends[c] = 0
    BY DEF IInv, LateInv, TypeOK
  <2>6. Refusing' <=> Refusing
    BY DEF Refusing, circuitVars
  <2>7. LateInv'
    BY <2>1, <2>3, <2>5, <2>6 DEF IInv, LateInv
  <2>8. QED BY <2>4, <2>7
<1>3. CASE ~(sinceStart < Interval)
  <2>1. Start(c)
    BY <1>3 DEF Delay
  <2>2. LateInv'
    BY <2>1, StartKeepsLateInv
  <2>3. \A d \in Callers : pc'[d] # "sleep"
    BY <1>0, <1>1, <2>1 DEF Start
  <2>4. QED BY <2>2, <2>3 DEF SleepInv
<1>4. QED BY <1>2, <1>3

\* Only the call that enters the wait moves.
LEMMA DelayStep ==
  ASSUME IInv, NEW c \in Callers, Delay(c)
  PROVE  pc'[c] \in {"sleep", "sent"} /\ \A d \in Callers : d # c => pc'[d] = pc[d]
BY DEF Delay, Start, IInv, TypeOK

\* The head of the queue takes the lock.
LEMMA AcquireKeeps ==
  ASSUME IInv, NEW c \in Callers, Acquire(c)
  PROVE  IInv'
<1>0. /\ waiters \in Seq(Callers) /\ Len(waiters) \in Nat
      /\ \A i \in 1..Len(waiters) : pc[waiters[i]] = "lock"
      /\ \A i, j \in 1..Len(waiters) : waiters[i] = waiters[j] => i = j
      /\ \A d \in Callers : pc[d] = "lock" => \E i \in 1..Len(waiters) : waiters[i] = d
  BY DEF IInv, TypeOK, QueueInv
<1>1. /\ pc[c] = "lock" /\ ~LockHeld /\ Head(waiters) = c /\ waiters' = Tail(waiters)
      /\ Delay(c)
      /\ UNCHANGED circuitVars /\ UNCHANGED <<attempt, failures, opened, age, trials, recent>>
  BY DEF Acquire, circuitVars
<1>2. waiters # <<>>
  BY <1>0, <1>1
<1>3. /\ waiters' \in Seq(Callers) /\ Len(waiters') = Len(waiters) - 1
      /\ \A i \in 1..Len(waiters') : waiters'[i] = waiters[i + 1]
      /\ waiters[1] = c
  <2>1. Head(waiters) = waiters[1]
    BY <1>0, <1>2
  <2>2. QED BY <1>0, <1>1, <1>2, <2>1, HeadTailProperties
<1>4. pc'[c] \in {"sleep", "sent"} /\ \A d \in Callers : d # c => pc'[d] = pc[d]
  BY <1>1, DelayStep
<1>5. \A i \in 1..Len(waiters') :
         i + 1 \in 1..Len(waiters) /\ i + 1 # 1 /\ waiters'[i] \in Callers /\ waiters'[i] # c
  <2> SUFFICES ASSUME NEW i \in 1..Len(waiters')
               PROVE  i + 1 \in 1..Len(waiters) /\ i + 1 # 1 /\ waiters'[i] \in Callers
                      /\ waiters'[i] # c
    OBVIOUS
  <2>1. i + 1 \in 1..Len(waiters) /\ i + 1 # 1 /\ 1 \in 1..Len(waiters)
    BY <1>0, <1>3
  <2>2. waiters[i + 1] \in Callers
    BY <1>0, <2>1
  <2>3. waiters[i + 1] # waiters[1]
    BY <1>0, <2>1
  <2>4. QED BY <1>3, <2>1, <2>2, <2>3
<1>6. \A i \in 1..Len(waiters') : pc'[waiters'[i]] = "lock"
  BY <1>0, <1>3, <1>4, <1>5
<1>7. TypeOK'
  <2>1. /\ pc' \in [Callers -> {"idle", "lock", "sleep", "sent", "backoff"}]
        /\ sleepLeft' \in 0..Interval /\ sinceStart' \in 0..Interval
        /\ lateSends' \in [Callers -> Nat]
    BY <1>1, DelayTypes
  <2>2. /\ attempt' \in [Callers -> 0..MaxAttempts]
        /\ failures' \in 0..Threshold /\ opened' \in BOOLEAN /\ age' \in 0..Recovery
        /\ trials' \subseteq Callers
        /\ recent' \in Seq(BOOLEAN) /\ Len(recent') <= Threshold
    BY <1>1 DEF IInv, TypeOK
  <2>3. \A i \in DOMAIN waiters' : pc'[waiters'[i]] = "lock"
    BY <1>3, <1>6
  <2>4. QED BY <2>1, <2>2, <2>3, Zenon DEF TypeOK
<1>8. QueueInv'
  <2>1. ASSUME NEW i \in 1..Len(waiters'), NEW j \in 1..Len(waiters'), waiters'[i] = waiters'[j]
        PROVE  i = j
    <3>1. i + 1 \in 1..Len(waiters) /\ j + 1 \in 1..Len(waiters)
      BY <1>5
    <3>2. waiters[i + 1] = waiters[j + 1]
      BY <1>3, <2>1
    <3>3. i + 1 = j + 1
      BY <1>0, <3>1, <3>2
    <3>4. i \in Int /\ j \in Int
      OBVIOUS
    <3>5. QED BY <3>3, <3>4
  <2>2. ASSUME NEW d \in Callers, pc'[d] = "lock"
        PROVE  \E i \in 1..Len(waiters') : waiters'[i] = d
    <3>1. d # c /\ pc[d] = "lock"
      BY <1>4, <2>2
    <3>2. PICK k \in 1..Len(waiters) : waiters[k] = d
      BY <1>0, <3>1
    <3>3. k # 1
      BY <1>3, <3>1, <3>2
    <3>4. k - 1 \in 1..Len(waiters') /\ (k - 1) + 1 = k
      BY <1>0, <1>3, <3>3
    <3>5. waiters'[k - 1] = d
      BY <1>3, <3>2, <3>4
    <3>6. QED BY <3>4, <3>5
  <2>3. QED BY <1>3, <2>1, <2>2 DEF QueueInv
<1>9. IdleInv'
  BY <1>1, <1>4 DEF IInv, IdleInv
<1>10. SleepInv' /\ LateInv'
  BY <1>1, DelayKeeps
<1>11. StreakInv'
  BY <1>1 DEF IInv, StreakInv
<1>12. QED BY <1>7, <1>8, <1>9, <1>10, <1>11 DEF IInv

\* The sleeper sends and frees the lock.
LEMMA WakeKeeps ==
  ASSUME IInv, NEW c \in Callers, Wake(c)
  PROVE  IInv'
<1>0. /\ pc \in [Callers -> {"idle", "lock", "sleep", "sent", "backoff"}]
      /\ \A i \in DOMAIN waiters : pc[waiters[i]] = "lock"
      /\ waiters \in Seq(Callers) /\ lateSends \in [Callers -> Nat]
  BY DEF IInv, TypeOK, QueueInv
<1>1. /\ pc[c] = "sleep" /\ Start(c) /\ waiters' = waiters
      /\ UNCHANGED circuitVars /\ UNCHANGED <<attempt, failures, opened, age, trials, recent>>
  BY DEF Wake, circuitVars
<1>2. \A d \in Callers : pc'[d] = IF d = c THEN "sent" ELSE pc[d]
  BY <1>0, <1>1 DEF Start
<1>3. TypeOK'
  <2>1. pc' \in [Callers -> {"idle", "lock", "sleep", "sent", "backoff"}]
    BY <1>0, <1>1 DEF Start
  <2>2. \A i \in DOMAIN waiters' : pc'[waiters'[i]] = "lock"
    BY <1>0, <1>1, <1>2
  <2>3. sleepLeft' \in 0..Interval /\ sinceStart' \in 0..Interval
    BY <1>1 DEF Start
  <2>4. lateSends' = lateSends \/ lateSends' = [lateSends EXCEPT ![c] = @ + 1]
    BY <1>1 DEF Start
  <2>5. lateSends' \in [Callers -> Nat]
    BY <1>0, <2>4
  <2>6. /\ attempt' \in [Callers -> 0..MaxAttempts]
        /\ failures' \in 0..Threshold /\ opened' \in BOOLEAN /\ age' \in 0..Recovery
        /\ trials' \subseteq Callers
        /\ recent' \in Seq(BOOLEAN) /\ Len(recent') <= Threshold
    BY <1>1 DEF IInv, TypeOK
  <2>7. QED BY <2>1, <2>2, <2>3, <2>5, <2>6, Zenon DEF TypeOK
<1>4. QueueInv'
  BY <1>1, <1>2 DEF IInv, QueueInv
<1>5. IdleInv'
  BY <1>1, <1>2 DEF IInv, IdleInv
<1>6. SleepInv'
  BY <1>1, <1>2 DEF IInv, SleepInv
<1>7. LateInv'
  BY <1>1, StartKeepsLateInv
<1>8. StreakInv'
  BY <1>1 DEF IInv, StreakInv
<1>9. QED BY <1>3, <1>4, <1>5, <1>6, <1>7, <1>8 DEF IInv

\* An admitted attempt queues for the lock, sleeps or sends.
LEMMA AdmittedKeeps ==
  ASSUME IInv, NEW c \in Callers, Admitted(c)
  PROVE  IInv'
<1>0. /\ pc \in [Callers -> {"idle", "lock", "sleep", "sent", "backoff"}]
      /\ \A i \in DOMAIN waiters : pc[waiters[i]] = "lock"
      /\ waiters \in Seq(Callers) /\ Len(waiters) \in Nat
      /\ attempt \in [Callers -> 0..MaxAttempts]
      /\ sleepLeft \in 0..Interval /\ sinceStart \in 0..Interval
      /\ lateSends \in [Callers -> Nat]
  BY DEF IInv, TypeOK, QueueInv
<1>1. /\ pc[c] \in {"idle", "backoff"} /\ ~Refusing
      /\ attempt' = [attempt EXCEPT ![c] = @ + 1]
      /\ trials' = trials \/ trials' = trials \cup {c}
      /\ UNCHANGED circuitVars /\ UNCHANGED <<failures, opened, age, recent>>
  BY DEF Admitted, CanTry, circuitVars
<1>2. attempt' \in [Callers -> 0..MaxAttempts]
  <2>1. pc[c] = "idle" \/ attempt[c] < MaxAttempts
    BY DEF Admitted, CanTry
  <2>2. attempt[c] + 1 \in 0..MaxAttempts
    BY <1>0, <2>1 DEF IInv, IdleInv
  <2>3. QED BY <1>0, <1>1, <2>2
<1>3. /\ failures' \in 0..Threshold /\ opened' \in BOOLEAN /\ age' \in 0..Recovery
      /\ trials' \subseteq Callers
      /\ recent' \in Seq(BOOLEAN) /\ Len(recent') <= Threshold
  BY <1>1 DEF IInv, TypeOK
<1>4. StreakInv'
  BY <1>1 DEF IInv, StreakInv
<1>5. CASE LockHeld \/ waiters # <<>>
  <2>1. /\ pc' = [pc EXCEPT ![c] = "lock"] /\ waiters' = Append(waiters, c)
        /\ sleepLeft' = sleepLeft /\ sinceStart' = sinceStart /\ lateSends' = lateSends
    BY <1>5 DEF Admitted, EnterLimiter
  <2>2. \A d \in Callers : pc'[d] = IF d = c THEN "lock" ELSE pc[d]
    BY <1>0, <2>1
  <2>3. /\ waiters' \in Seq(Callers) /\ Len(waiters') = Len(waiters) + 1
        /\ waiters'[Len(waiters) + 1] = c
        /\ \A i \in 1..Len(waiters) : waiters'[i] = waiters[i]
    BY <1>0, <2>1
  <2>4. \A i \in 1..Len(waiters) : waiters[i] \in Callers /\ waiters[i] # c
    BY <1>0, <1>1
  <2>5. \A i \in 1..Len(waiters') : i \in 1..Len(waiters) \/ i = Len(waiters) + 1
    BY <1>0, <2>3
  <2>6. TypeOK'
    <3>1. pc' \in [Callers -> {"idle", "lock", "sleep", "sent", "backoff"}]
      BY <1>0, <2>1
    <3>2. ASSUME NEW i \in 1..Len(waiters') PROVE pc'[waiters'[i]] = "lock"
      <4>1. CASE i \in 1..Len(waiters)
        <5>1. waiters'[i] = waiters[i] /\ waiters[i] \in Callers /\ waiters[i] # c
          BY <2>3, <2>4, <4>1
        <5>2. pc[waiters[i]] = "lock"
          BY <1>0, <4>1
        <5>3. QED BY <2>2, <5>1, <5>2
      <4>2. CASE i = Len(waiters) + 1
        BY <2>2, <2>3, <4>2
      <4>3. QED BY <2>5, <4>1, <4>2
    <3>3. \A i \in DOMAIN waiters' : pc'[waiters'[i]] = "lock"
      BY <2>3, <3>2
    <3>4. /\ sleepLeft' \in 0..Interval /\ sinceStart' \in 0..Interval
          /\ lateSends' \in [Callers -> Nat]
      BY <1>0, <2>1
    <3>5. QED BY <1>2, <1>3, <3>1, <3>3, <3>4, Zenon DEF TypeOK
  <2>7. QueueInv'
    <3>1. ASSUME NEW i \in 1..Len(waiters'), NEW j \in 1..Len(waiters'), waiters'[i] = waiters'[j]
          PROVE  i = j
      <4>1. CASE i \in 1..Len(waiters) /\ j \in 1..Len(waiters)
        BY <2>3, <3>1, <4>1 DEF IInv, QueueInv
      <4>2. CASE ~(i \in 1..Len(waiters) /\ j \in 1..Len(waiters))
        BY <2>3, <2>4, <2>5, <3>1, <4>2
      <4>3. QED BY <4>1, <4>2
    <3>2. ASSUME NEW d \in Callers, pc'[d] = "lock"
          PROVE  \E i \in 1..Len(waiters') : waiters'[i] = d
      <4>1. CASE d = c
        <5>1. Len(waiters) + 1 \in 1..Len(waiters')
          BY <1>0, <2>3
        <5>2. QED BY <2>3, <4>1, <5>1
      <4>2. CASE d # c
        <5>1. PICK k \in 1..Len(waiters) : waiters[k] = d
          BY <2>2, <3>2, <4>2 DEF IInv, QueueInv
        <5>2. k \in 1..Len(waiters')
          BY <1>0, <2>3
        <5>3. QED BY <2>3, <5>1, <5>2
      <4>3. QED BY <4>1, <4>2
    <3>3. QED BY <2>3, <3>1, <3>2 DEF QueueInv
  <2>8. IdleInv'
    BY <1>0, <1>1, <2>2 DEF IInv, IdleInv
  <2>9. SleepInv'
    BY <2>1, <2>2 DEF IInv, SleepInv
  <2>10. LateInv'
    <3>1. \A d \in Callers : lateSends[d] = 0
      BY <1>1 DEF IInv, LateInv
    <3>2. QED BY <2>1, <3>1 DEF LateInv
  <2>11. QED BY <1>4, <2>6, <2>7, <2>8, <2>9, <2>10 DEF IInv
<1>6. CASE ~(LockHeld \/ waiters # <<>>)
  <2>1. Delay(c) /\ waiters' = waiters /\ ~LockHeld
    BY <1>6 DEF Admitted, EnterLimiter
  <2>2. pc'[c] \in {"sleep", "sent"} /\ \A d \in Callers : d # c => pc'[d] = pc[d]
    BY <2>1, DelayStep
  <2>3. /\ pc' \in [Callers -> {"idle", "lock", "sleep", "sent", "backoff"}]
        /\ sleepLeft' \in 0..Interval /\ sinceStart' \in 0..Interval
        /\ lateSends' \in [Callers -> Nat]
    BY <2>1, DelayTypes
  <2>4. TypeOK'
    <3>1. \A i \in DOMAIN waiters' : pc'[waiters'[i]] = "lock"
      BY <1>6, <2>1
    <3>2. QED BY <1>2, <1>3, <2>3, <3>1, Zenon DEF TypeOK
  <2>5. QueueInv'
    BY <2>1, <2>2 DEF IInv, QueueInv
  <2>6. IdleInv'
    BY <1>0, <1>1, <2>2 DEF IInv, IdleInv
  <2>7. SleepInv' /\ LateInv'
    BY <1>1, <2>1, DelayKeeps
  <2>8. QED BY <1>4, <2>4, <2>5, <2>6, <2>7 DEF IInv
<1>7. QED BY <1>5, <1>6

-----------------------------------------------------------------------------
(* Time.                                                                     *)

\* Time passes; the circuit may become half-open.
LEMMA TickKeeps ==
  ASSUME IInv, Tick
  PROVE  IInv'
<1>0. /\ sleepLeft \in 0..Interval /\ sinceStart \in 0..Interval /\ age \in 0..Recovery
      /\ lateSends \in [Callers -> Nat]
  BY DEF IInv, TypeOK
<1>1. /\ sinceStart' = (IF sinceStart < Interval THEN sinceStart + 1 ELSE sinceStart)
      /\ sleepLeft' = (IF sleepLeft > 0 THEN sleepLeft - 1 ELSE 0)
      /\ age' = (IF Refusing THEN age + 1 ELSE age)
      /\ UNCHANGED <<pc, attempt, waiters, failures, opened, trials, recent>>
  BY DEF Tick
<1>2. /\ sleepLeft' \in 0..Interval /\ sinceStart' \in 0..Interval /\ age' \in 0..Recovery
      /\ sleepLeft + sinceStart >= Interval => sleepLeft' + sinceStart' >= Interval
  BY <1>0, <1>1 DEF Refusing
<1>3. /\ Refusing' => Refusing
      /\ lateSends' = lateSends \/ lateSends' = [c \in Callers |-> 0]
      /\ Refusing /\ ~Refusing' => lateSends' = [c \in Callers |-> 0]
  <2>1. CASE Refusing
    <3>1. age' = age + 1 /\ opened' = opened /\ opened
      BY <1>1, <2>1 DEF Refusing
    <3>2. lateSends' = IF age' = Recovery THEN [c \in Callers |-> 0] ELSE lateSends
      BY <2>1 DEF Tick
    <3>3. age' # Recovery => Refusing'
      BY <1>2, <3>1 DEF Refusing
    <3>4. QED BY <2>1, <3>2, <3>3
  <2>2. CASE ~Refusing
    <3>1. age' = age /\ opened' = opened /\ lateSends' = lateSends
      BY <1>1, <2>2 DEF Tick
    <3>2. QED BY <2>2, <3>1 DEF Refusing
  <2>3. QED BY <2>1, <2>2
<1>4. lateSends' \in [Callers -> Nat]
  BY <1>0, <1>3
<1>5. TypeOK'
  <2>1. /\ pc' \in [Callers -> {"idle", "lock", "sleep", "sent", "backoff"}]
        /\ attempt' \in [Callers -> 0..MaxAttempts]
        /\ \A i \in DOMAIN waiters' : pc'[waiters'[i]] = "lock"
        /\ failures' \in 0..Threshold /\ opened' \in BOOLEAN
        /\ trials' \subseteq Callers
        /\ recent' \in Seq(BOOLEAN) /\ Len(recent') <= Threshold
    BY <1>1 DEF IInv, TypeOK
  <2>2. QED BY <1>2, <1>4, <2>1, Zenon DEF TypeOK
<1>6. QueueInv' /\ IdleInv' /\ StreakInv'
  BY <1>1 DEF IInv, QueueInv, IdleInv, StreakInv
<1>7. SleepInv'
  BY <1>1, <1>2 DEF IInv, SleepInv
<1>8. LateInv'
  <2> SUFFICES ASSUME NEW c \in Callers, lateSends'[c] # 0
               PROVE  Refusing' /\ lateSends'[c] = 1 /\ pc'[c] \notin {"lock", "sleep"}
    BY DEF LateInv
  <2>1. lateSends' # [d \in Callers |-> 0]
    OBVIOUS
  <2>2. lateSends' = lateSends
    BY <1>3, <2>1
  <2>3. Refusing /\ lateSends[c] = 1 /\ pc[c] \notin {"lock", "sleep"}
    BY <2>2 DEF IInv, LateInv
  <2>4. QED BY <1>1, <1>3, <2>1, <2>2, <2>3
<1>9. QED BY <1>5, <1>6, <1>7, <1>8 DEF IInv

\* Nothing changes.
LEMMA StutterKeeps ==
  ASSUME IInv, UNCHANGED vars
  PROVE  IInv'
<1>1. /\ UNCHANGED <<pc, attempt, waiters, sleepLeft, sinceStart>>
      /\ UNCHANGED <<failures, opened, age, trials, lateSends, recent>>
  BY DEF vars, limiterVars, circuitVars
<1>2. TypeOK' /\ QueueInv' /\ IdleInv'
  BY <1>1 DEF IInv, TypeOK, QueueInv, IdleInv
<1>3. SleepInv' /\ StreakInv'
  BY <1>1 DEF IInv, SleepInv, StreakInv
<1>4. LateInv'
  BY <1>1 DEF IInv, LateInv, Refusing
<1>5. QED BY <1>2, <1>3, <1>4 DEF IInv

-----------------------------------------------------------------------------
(* The theorems.                                                             *)

\* Every step keeps the invariant.
LEMMA StepInv == IInv /\ [Next]_vars => IInv'
<1> SUFFICES ASSUME IInv, [Next]_vars PROVE IInv'
  OBVIOUS
<1>1. ASSUME NEW c \in Callers, Refused(c) \/ GiveUp(c) \/ Raised(c) PROVE IInv'
  BY <1>1, EndKeeps
<1>2. ASSUME NEW c \in Callers, Admitted(c) PROVE IInv'
  BY <1>2, AdmittedKeeps
<1>3. ASSUME NEW c \in Callers, Acquire(c) PROVE IInv'
  BY <1>3, AcquireKeeps
<1>4. ASSUME NEW c \in Callers, Wake(c) PROVE IInv'
  BY <1>4, WakeKeeps
<1>5. ASSUME NEW c \in Callers, Success(c) \/ Blocked(c) \/ Failure(c) PROVE IInv'
  BY <1>5, AnswerKeeps DEF Answer
<1>6. CASE Tick
  BY <1>6, TickKeeps
<1>7. CASE UNCHANGED vars
  BY <1>7, StutterKeeps
<1>8. QED BY <1>1, <1>2, <1>3, <1>4, <1>5, <1>6, <1>7 DEF Next

\* The invariant holds in every reachable state.
LEMMA Inductive == Spec => []IInv
<1>1. Init => IInv
  BY InitInv
<1>2. IInv /\ [Next]_vars => IInv'
  BY StepInv
<1>3. QED BY <1>1, <1>2, PTL DEF Spec

\* Type correctness of the client, and only tasks that wait for the lock are in its queue.
THEOREM ClientTypes == Spec => []TypeOK
<1>1. IInv => TypeOK
  BY DEF IInv
<1>2. QED BY <1>1, Inductive, PTL

\* While the circuit refuses calls a task sends at most the request it had been allowed
\* before (before_call at every attempt of get).
THEOREM LateAtMostOnce == Spec => []OneLateSend
<1>1. IInv => OneLateSend
  BY DEF IInv, TypeOK, LateInv, OneLateSend
<1>2. QED BY <1>1, Inductive, PTL

\* Two requests never start closer than Interval, however many tasks call at once
\* (RateLimiter.wait).
THEOREM Spacing == Spec => StartsAreSpaced
<1>1. ASSUME IInv, [Next]_vars, NEW c \in Callers, pc[c] # "sent", pc'[c] = "sent"
      PROVE  sinceStart = Interval
  <2>0. /\ pc \in [Callers -> {"idle", "lock", "sleep", "sent", "backoff"}]
        /\ sleepLeft \in 0..Interval /\ sinceStart \in 0..Interval
    BY <1>1 DEF IInv, TypeOK
  <2>1. \A d \in Callers : Delay(d) => sinceStart = Interval \/ pc'[c] # "sent"
    <3> SUFFICES ASSUME NEW d \in Callers, Delay(d), sinceStart < Interval
                 PROVE  pc'[c] # "sent"
      BY <2>0
    <3>1. pc' = [pc EXCEPT ![d] = "sleep"]
      BY DEF Delay
    <3>2. QED BY <1>1, <2>0, <3>1
  <2>2. ASSUME NEW d \in Callers, Admitted(d) PROVE sinceStart = Interval
    <3>1. CASE LockHeld \/ waiters # <<>>
      BY <1>1, <2>0, <2>2, <3>1 DEF Admitted, EnterLimiter
    <3>2. CASE ~(LockHeld \/ waiters # <<>>)
      BY <1>1, <2>1, <2>2, <3>2 DEF Admitted, EnterLimiter
    <3>3. QED BY <3>1, <3>2
  <2>3. ASSUME NEW d \in Callers, Acquire(d) PROVE sinceStart = Interval
    BY <1>1, <2>1, <2>3 DEF Acquire
  <2>4. ASSUME NEW d \in Callers, Wake(d) PROVE sinceStart = Interval
    <3>1. pc[d] = "sleep" /\ sleepLeft = 0
      BY <2>4 DEF Wake
    <3>2. sleepLeft + sinceStart >= Interval
      BY <1>1, <3>1 DEF IInv, SleepInv
    <3>3. QED BY <2>0, <3>1, <3>2
  <2>5. ASSUME NEW d \in Callers, Refused(d) \/ GiveUp(d) \/ Raised(d) \/ Success(d) \/ Blocked(d)
                                     \/ Failure(d)
        PROVE  FALSE
    <3>1. pc' = [pc EXCEPT ![d] = "idle"] \/ pc' = [pc EXCEPT ![d] = "backoff"]
      BY <2>5 DEF Refused, GiveUp, Raised, Success, Blocked, Failure
    <3>2. QED BY <1>1, <2>0, <3>1
  <2>6. CASE Tick \/ UNCHANGED vars
    BY <1>1, <2>6 DEF Tick, vars
  <2>7. QED BY <1>1, <2>2, <2>3, <2>4, <2>5, <2>6 DEF Next
<1>2. IInv /\ [Next]_vars
        => [\A c \in Callers : pc[c] # "sent" /\ pc'[c] = "sent" => sinceStart = Interval]_vars
  BY <1>1
<1>3. QED BY <1>2, Inductive, PTL DEF Spec, StartsAreSpaced

\* The circuit opens only when the last Threshold answers, whoever received them, are all
\* failures (CircuitBreaker.on_failure).
THEOREM OpenedByAStreak == Spec => OpensOnStreak
<1>1. ASSUME IInv, IInv', [Next]_vars, ~opened, opened'
      PROVE  Len(recent') = Threshold /\ \A i \in DOMAIN recent' : ~recent'[i]
  <2>1. failures' = Threshold /\ failures' <= Len(recent') /\ Len(recent') <= Threshold
    BY <1>1 DEF IInv, TypeOK, StreakInv
  <2>2. recent' \in Seq(BOOLEAN) /\ Len(recent') \in Nat
    BY <1>1 DEF IInv, TypeOK
  <2>3. Len(recent') = Threshold
    BY <2>1, <2>2
  <2>4. \A i \in 1..Len(recent') : recent'[i] = FALSE
    <3>1. \A i \in 1..Len(recent') : i > Len(recent') - failures'
      BY <2>1, <2>3
    <3>2. QED BY <1>1, <3>1 DEF IInv, StreakInv
  <2>5. \A i \in DOMAIN recent' : ~recent'[i]
    BY <2>2, <2>4
  <2>6. QED BY <2>3, <2>5
<1>2. IInv /\ IInv' /\ [Next]_vars
        => [~opened /\ opened'
              => Len(recent') = Threshold /\ \A i \in DOMAIN recent' : ~recent'[i]]_vars
  BY <1>1
<1>3. QED BY <1>2, Inductive, PTL DEF Spec, OpensOnStreak

=============================================================================
