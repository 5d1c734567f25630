--------------------------- MODULE UpstreamClient ----------------------------
(****************************************************************************)
(* internal/anilibria/client.go: the process-wide client.  Any number of     *)
(* getJSON operations run concurrently; they share one concurrency gate and  *)
(* one limiter of attempt starts, and each makes up to maximumAttempts HTTP  *)
(* attempts under its own context.                                           *)
(*                                                                           *)
(* The upstream and net/http are external: an attempt ends with any status,  *)
(* a transport error, or the end of its context.  Time is discrete and may   *)
(* pass between any two steps, as the scheduler allows.                      *)
(****************************************************************************)
EXTENDS Integers, FiniteSets, Sequences

CONSTANTS
    Ops,              \* getJSON invocations
    MaxConcurrency,   \* cap of the gate channel
    RequestInterval,  \* limiter.interval
    MaxAttempts,      \* maximumAttempts
    BackoffBase,      \* backoffBase
    BackoffMax,       \* backoffMaximum
    RetryAfters,      \* Retry-After headers the upstream may send
    Second,           \* time.Second, in ticks of the clock
    MaxDuration,      \* the largest time.Duration, in ticks
    MaxInt,           \* the largest 64-bit integer
    Deadlines,        \* deadlines an operation's context can have
    NoDeadline,       \* an unbounded context
    MaxTime,          \* bound on the clock
    None              \* no outcome yet

ASSUME OpsAssumption == IsFiniteSet(Ops)
ASSUME GateAssumption == MaxConcurrency \in Nat \ {0}
ASSUME LimiterAssumption == RequestInterval \in Nat \ {0}
ASSUME RetryAssumption ==
    /\ MaxAttempts \in Nat \ {0}
    /\ BackoffBase \in Nat \ {0} /\ BackoffMax \in Nat
    /\ Second \in Nat \ {0} /\ MaxInt \in Nat /\ MaxDuration \in 0..MaxInt
    /\ RetryAfters \subseteq [form : {"decimal", "date", "other"}, value : Int]
\* The time considered is shorter than the longest duration, of 292 years.
ASSUME TimeAssumption ==
    /\ Deadlines \subseteq Nat /\ NoDeadline \notin Nat
    /\ MaxTime \in Nat /\ MaxTime < MaxDuration

VARIABLES
    now,        \* the clock
    gate,       \* len(client.gate)
    next,       \* limiter.next
    pc,         \* where each operation is
    attempt,    \* the loop counter of getJSON
    pauseUntil, \* when the timer of its limiter wait fires
    retryAt,    \* when the timer of its last retry wait fires
    answer,     \* what its current attempt returned
    ctxDone,    \* its context is done
    outcome,    \* the class of its error, "ok", or None
    reported,   \* the attempt count of its error
    sent,       \* history: HTTP requests it has made
    startedAt,  \* attemptStarted: when the limiter last admitted it, -1 before
    starts,     \* history: every start the limiter admitted, in their order
    notBefore   \* history: the earliest instant its last answer leaves for the next

shared  == <<gate, next>>
timers  == <<pauseUntil, retryAt>>
history == <<sent, startedAt, starts, notBefore>>
result  == <<outcome, reported>>
vars    == <<now, shared, pc, attempt, timers, answer, ctxDone, result, history>>

Places == {"start", "queued", "slotted", "gated", "clear", "pausing", "admitted",
           "inflight", "answered", "decoding", "backoff", "done"}

\* The operations that hold a token of the gate.
HoldingPlaces == {"slotted", "gated", "clear", "pausing", "admitted", "inflight"}
Holders == {o \in Ops : pc[o] \in HoldingPlaces}

Retriable   == {"rate_limited", "temporary"}
Failures    == {"permanent", "unexpected"}
Answers     == {"success"} \cup Retriable \cup Failures
ErrorKinds  == {"transport", "too_large"}

Init ==
    /\ now = 0
    /\ gate = 0
    /\ next = 0
    /\ pc = [o \in Ops |-> "start"]
    /\ attempt = [o \in Ops |-> 1]
    /\ pauseUntil = [o \in Ops |-> 0]
    /\ retryAt = [o \in Ops |-> 0]
    /\ answer = [o \in Ops |-> None]
    /\ ctxDone = [o \in Ops |-> FALSE]
    /\ outcome = [o \in Ops |-> None]
    /\ reported = [o \in Ops |-> 0]
    /\ sent = [o \in Ops |-> 0]
    /\ startedAt = [o \in Ops |-> -1]
    /\ starts = << >>
    /\ notBefore = [o \in Ops |-> 0]

Goto(o, place) == pc' = [pc EXCEPT ![o] = place]

\* getJSON returns an error of the class, counting n attempts.
Fail(o, class, n) ==
    /\ Goto(o, "done")
    /\ outcome' = [outcome EXCEPT ![o] = class]
    /\ reported' = [reported EXCEPT ![o] = n]

------------------------------------------------------------------------------
(* acquire                                                                   *)

CheckBeforeQueue(o) ==
    /\ pc[o] = "start"
    /\ IF ctxDone[o] THEN Fail(o, "canceled", attempt[o] - 1)
       ELSE Goto(o, "queued") /\ UNCHANGED result
    /\ UNCHANGED <<now, shared, attempt, timers, answer, ctxDone, history>>

\* The select sends to the gate, also when the context is done by now.
TakeSlot(o) ==
    /\ pc[o] = "queued"
    /\ gate < MaxConcurrency
    /\ gate' = gate + 1
    /\ Goto(o, "slotted")
    /\ UNCHANGED <<now, next, attempt, timers, answer, ctxDone, result, history>>

LeaveQueue(o) ==
    /\ pc[o] = "queued"
    /\ ctxDone[o]
    /\ Fail(o, "canceled", attempt[o] - 1)
    /\ UNCHANGED <<now, shared, attempt, timers, answer, ctxDone, history>>

\* The second context check gives the slot back.
CheckAfterSlot(o) ==
    /\ pc[o] = "slotted"
    /\ IF ctxDone[o]
       THEN Fail(o, "canceled", attempt[o] - 1) /\ gate' = gate - 1
       ELSE Goto(o, "gated") /\ UNCHANGED <<gate, result>>
    /\ UNCHANGED <<now, next, attempt, timers, answer, ctxDone, history>>

------------------------------------------------------------------------------
(* limiter.wait                                                              *)

\* Mutant of GiveUpLimiter: the slot is not released on this path.
GiveUpLimiterLeaksSlot(o) ==
    /\ Fail(o, "canceled", attempt[o] - 1)
    /\ UNCHANGED <<now, shared, attempt, timers, answer, ctxDone, history>>

\* limiter.wait returns an error: getJSON releases the slot and fails.
GiveUpLimiter(o) ==
    /\ Fail(o, "canceled", attempt[o] - 1)
    /\ gate' = gate - 1
    /\ UNCHANGED <<now, next, attempt, timers, answer, ctxDone, history>>

CheckBeforeLimiter(o) ==
    /\ pc[o] = "gated"
    /\ \/ /\ ctxDone[o]
          /\ GiveUpLimiter(o)
       \/ /\ ~ctxDone[o]
          /\ Goto(o, "clear")
          /\ UNCHANGED <<now, shared, attempt, timers, answer, ctxDone, result, history>>

\* Mutant of Admit: the next start is counted from the last one allowed, so a
\* limiter that was idle lets a burst through.
AdmitBurst(o) ==
    /\ pc[o] = "clear"
    /\ next <= now
    /\ next' = next + RequestInterval
    /\ startedAt' = [startedAt EXCEPT ![o] = now]
    /\ starts' = Append(starts, now)
    /\ Goto(o, "admitted")
    /\ UNCHANGED <<now, gate, attempt, timers, answer, ctxDone, result, sent, notBefore>>

\* The section under limiter.mu: the start is admitted and the next one moved.
Admit(o) ==
    /\ pc[o] = "clear"
    /\ next <= now
    /\ next' = now + RequestInterval
    /\ startedAt' = [startedAt EXCEPT ![o] = now]
    /\ starts' = Append(starts, now)
    /\ Goto(o, "admitted")
    /\ UNCHANGED <<now, gate, attempt, timers, answer, ctxDone, result, sent, notBefore>>

\* The same section when it is too early: wait for limiter.next, then look again.
Pause(o) ==
    /\ pc[o] = "clear"
    /\ now < next
    /\ pauseUntil' = [pauseUntil EXCEPT ![o] = next]
    /\ Goto(o, "pausing")
    /\ UNCHANGED <<now, shared, attempt, retryAt, answer, ctxDone, result, history>>

PauseEnds(o) ==
    /\ pc[o] = "pausing"
    /\ \/ /\ pauseUntil[o] <= now
          /\ Goto(o, "gated")
          /\ UNCHANGED <<now, shared, attempt, timers, answer, ctxDone, result, history>>
       \/ /\ ctxDone[o]
          /\ GiveUpLimiter(o)

------------------------------------------------------------------------------
(* attempt                                                                   *)

Send(o) ==
    /\ pc[o] = "admitted"
    /\ sent' = [sent EXCEPT ![o] = sent[o] + 1]
    /\ Goto(o, "inflight")
    /\ UNCHANGED <<now, shared, attempt, timers, answer, ctxDone, result, startedAt, starts,
                   notBefore>>

\* attempt returns and getJSON releases the slot before it looks at the answer.
AttemptReturns(o, a) ==
    /\ pc[o] = "inflight"
    /\ answer' = [answer EXCEPT ![o] = a]
    /\ gate' = gate - 1
    /\ Goto(o, "answered")
    /\ UNCHANGED <<now, next, attempt, timers, ctxDone, result, history>>

\* The upstream answers with a status and, for 2xx, a body that fits or not,
\* or the exchange fails.  A 2xx read under an ended context is discarded.
Respond(o) ==
    \/ \E a \in (Answers \ {"success"}) \cup ErrorKinds : AttemptReturns(o, a)
    \/ ~ctxDone[o] /\ AttemptReturns(o, "success")

\* attemptContext ends, by httpTimeout or with the operation's context.  The
\* timeout is some instant after Send; it always comes.
AttemptTimesOut(o) == AttemptReturns(o, "transport")

------------------------------------------------------------------------------
(* The rest of the loop body of getJSON                                      *)

\* Mutant of ClassifyError: the end of the attempt's own timeout is taken for
\* the end of the operation's context.
ClassifyTimeoutAsCanceled(o) ==
    /\ pc[o] = "answered"
    /\ answer[o] \in ErrorKinds
    /\ Fail(o, IF answer[o] = "too_large" THEN "response" ELSE "canceled", attempt[o])
    /\ UNCHANGED <<now, shared, attempt, timers, answer, ctxDone, history>>

\* An attempt that failed is never repeated.
ClassifyError(o) ==
    /\ pc[o] = "answered"
    /\ answer[o] \in ErrorKinds
    /\ Fail(o, CASE answer[o] = "too_large" -> "response"
                 [] answer[o] # "too_large" /\ ctxDone[o] -> "canceled"
                 [] OTHER -> "transport", attempt[o])
    /\ UNCHANGED <<now, shared, attempt, timers, answer, ctxDone, history>>

\* The context is looked at before the status.
CanceledAfterAttempt(o) ==
    /\ pc[o] = "answered"
    /\ answer[o] \in Answers /\ ctxDone[o]
    /\ Fail(o, "canceled", attempt[o])
    /\ UNCHANGED <<now, shared, attempt, timers, answer, ctxDone, history>>

StartDecoding(o) ==
    /\ pc[o] = "answered"
    /\ answer[o] = "success" /\ ~ctxDone[o]
    /\ Goto(o, "decoding")
    /\ UNCHANGED <<now, shared, attempt, timers, answer, ctxDone, result, history>>

\* decode returns; a context that ended meanwhile wins over a good result.
Decode(o, good) ==
    /\ pc[o] = "decoding"
    /\ CASE ctxDone[o]          -> Fail(o, "canceled", attempt[o])
         [] ~ctxDone[o] /\ ~good -> Fail(o, "response", attempt[o])
         [] OTHER               -> Fail(o, "ok", 0)
    /\ UNCHANGED <<now, shared, attempt, timers, answer, ctxDone, history>>

FinalStatus(o) ==
    /\ pc[o] = "answered"
    /\ ~ctxDone[o]
    /\ answer[o] \in Failures \/ (answer[o] \in Retriable /\ attempt[o] = MaxAttempts)
    /\ Fail(o, answer[o], attempt[o])
    /\ UNCHANGED <<now, shared, attempt, timers, answer, ctxDone, history>>

\* backoff(attempt): jitter between half the ceiling and the ceiling.
Ceiling(n) ==
    LET doubled == BackoffBase * 2 ^ (n - 1) IN
    IF doubled > BackoffMax THEN BackoffMax ELSE doubled
Backoff(n) == (Ceiling(n) \div 2) .. Ceiling(n)

\* A time.Duration computed without regard to its width.
Wrapped(d) == ((d + MaxDuration + 1) % (2 * (MaxDuration + 1))) - (MaxDuration + 1)

\* Mutant of ParseRetryAfter: the seconds are not compared with the largest
\* duration before they are multiplied.
ParseRetryAfterWrapping(h, t) ==
    CASE h.form = "decimal" /\ h.value <= 0 -> {0}
      [] h.form = "decimal" /\ h.value \in 1..MaxInt -> {Wrapped(h.value * Second)}
      [] h.form = "date" -> {IF h.value < t THEN 0 ELSE h.value - t}
      [] OTHER -> {}

\* time.Sub saturates, and what lies in the past asks for no delay.
Clamped(d) == IF d < 0 THEN 0 ELSE IF d > MaxDuration THEN MaxDuration ELSE d

\* parseRetryAfter: the delay asked for at instant t, or none.  A number of
\* seconds beyond 64 bits is malformed, unless it is negative.
ParseRetryAfter(h, t) ==
    CASE h.form = "decimal" /\ h.value <= 0 -> {0}
      [] h.form = "decimal" /\ h.value \in 1..(MaxDuration \div Second) -> {h.value * Second}
      [] h.form = "decimal" /\ h.value \in ((MaxDuration \div Second) + 1)..MaxInt -> {MaxDuration}
      [] h.form = "date" -> {Clamped(h.value - t)}
      [] OTHER -> {}

\* The delays before the next attempt: what the header asks for, else backoff.
RetryDelays(h, n) ==
    IF ParseRetryAfter(h, now) = {} THEN Backoff(n) ELSE ParseRetryAfter(h, now)

\* What the header means, in unbounded numbers: so many seconds from now, a
\* date, or nothing that could be told.
AskedInstant(h) ==
    CASE h.form = "decimal" /\ h.value > 0 -> now + h.value * Second
      [] h.form = "date" -> h.value
      [] OTHER -> now

\* The seconds that the code cannot read, though they are a number.
Unreadable(h) == h.form = "decimal" /\ h.value > MaxInt

\* When the next attempt may start after the n-th: at the instant asked for, or
\* where none can be read after the shortest backoff.
EarliestRetry(h, n) ==
    IF h.form = "other" \/ Unreadable(h) THEN now + Ceiling(n) \div 2 ELSE AskedInstant(h)

\* waitForRetry: refused when the wait would end after the deadline, else
\* asleep.  d is the context's deadline at this moment: that of a coalesced
\* load moves with its waiters.
WaitForRetry(o, h, delay, d) ==
    /\ IF d # NoDeadline /\ d - now < delay
       THEN /\ Fail(o, "canceled", attempt[o])
            /\ UNCHANGED <<retryAt, notBefore>>
       ELSE /\ Goto(o, "backoff")
            /\ retryAt' = [retryAt EXCEPT ![o] = now + delay]
            /\ notBefore' = [notBefore EXCEPT ![o] = EarliestRetry(h, attempt[o])]
            /\ UNCHANGED result
    /\ UNCHANGED <<now, shared, attempt, pauseUntil, answer, ctxDone, sent, startedAt, starts>>

\* Mutant of Retry: permanent failures are retried too.
RetryAnything(o, h, delay, d) ==
    /\ pc[o] = "answered"
    /\ ~ctxDone[o]
    /\ answer[o] \in Retriable \cup Failures /\ attempt[o] < MaxAttempts
    /\ WaitForRetry(o, h, delay, d)

\* A status that may be retried, with attempts left.
Retry(o, h, delay, d) ==
    /\ pc[o] = "answered"
    /\ ~ctxDone[o]
    /\ answer[o] \in Retriable /\ attempt[o] < MaxAttempts
    /\ WaitForRetry(o, h, delay, d)

\* The wait is over: once round the loop.
RetryDue(o) ==
    /\ pc[o] = "backoff"
    /\ retryAt[o] <= now
    /\ attempt' = [attempt EXCEPT ![o] = attempt[o] + 1]
    /\ Goto(o, "start")
    /\ UNCHANGED <<now, shared, timers, answer, ctxDone, result, history>>

\* Mutant of RetryCanceled: the wait looks only at its timer.
RetryWaitUninterrupted(o) ==
    /\ pc[o] = "backoff"
    /\ ctxDone[o] /\ retryAt[o] <= now
    /\ Fail(o, "canceled", attempt[o])
    /\ UNCHANGED <<now, shared, attempt, timers, answer, ctxDone, history>>

RetryCanceled(o) ==
    /\ pc[o] = "backoff"
    /\ ctxDone[o]
    /\ Fail(o, "canceled", attempt[o])
    /\ UNCHANGED <<now, shared, attempt, timers, answer, ctxDone, history>>

------------------------------------------------------------------------------
(* The environment                                                           *)

\* The context ends: its own deadline, its client, or its last waiter.
ContextEnds(o) ==
    /\ pc[o] # "done"
    /\ ~ctxDone[o]
    /\ ctxDone' = [ctxDone EXCEPT ![o] = TRUE]
    /\ UNCHANGED <<now, shared, pc, attempt, timers, answer, result, history>>

\* The clock advances, up to its bound.
Tick ==
    /\ now < MaxTime
    /\ now' = now + 1
    /\ UNCHANGED <<shared, pc, attempt, timers, answer, ctxDone, result, history>>

AcquireStep(o) ==
    CheckBeforeQueue(o) \/ TakeSlot(o) \/ LeaveQueue(o) \/ CheckAfterSlot(o)

LimiterStep(o) ==
    CheckBeforeLimiter(o) \/ Admit(o) \/ Pause(o) \/ PauseEnds(o)

LoopStep(o) ==
    \/ ClassifyError(o)
    \/ CanceledAfterAttempt(o)
    \/ StartDecoding(o)
    \/ \E good \in BOOLEAN : Decode(o, good)
    \/ FinalStatus(o)
    \/ \E h \in RetryAfters :
          \E delay \in RetryDelays(h, attempt[o]), d \in Deadlines \cup {NoDeadline} :
              Retry(o, h, delay, d)
    \/ RetryDue(o)
    \/ RetryCanceled(o)

OpStep(o) ==
    \/ AcquireStep(o)
    \/ LimiterStep(o)
    \/ Send(o)
    \/ AttemptTimesOut(o)
    \/ LoopStep(o)

Next ==
    \/ \E o \in Ops : OpStep(o) \/ Respond(o) \/ ContextEnds(o)
    \/ Tick

Spec == Init /\ [][Next]_vars

\* A goroutine that can run runs and net/http honours an ended context.  Every
\* context ends, because every request has a timeout and a load loses its
\* last waiter.  The upstream need not answer at all.
Fairness == \A o \in Ops : WF_vars(OpStep(o)) /\ WF_vars(ContextEnds(o))

FairSpec == Spec /\ Fairness

------------------------------------------------------------------------------
(* Properties                                                                *)

StartsTyped == starts \in Seq(Nat)

\* Every variable has its type.
TypeOK ==
    /\ now \in Nat
    /\ gate \in Nat
    /\ next \in Nat
    /\ pc \in [Ops -> Places]
    /\ attempt \in [Ops -> 1..MaxAttempts]
    /\ pauseUntil \in [Ops -> Nat]
    /\ retryAt \in [Ops -> Int]
    /\ answer \in [Ops -> Answers \cup ErrorKinds \cup {None}]
    /\ ctxDone \in [Ops -> BOOLEAN]
    /\ outcome \in [Ops -> {None, "ok", "canceled", "response", "transport"}
                           \cup Retriable \cup Failures]
    /\ reported \in [Ops -> Nat]
    /\ sent \in [Ops -> Nat]
    /\ startedAt \in [Ops -> Nat \cup {-1}]
    /\ StartsTyped
    /\ notBefore \in [Ops -> Int]

\* No path through getJSON, whatever context check it fails at, loses or
\* doubles a gate token: len(gate) is the number of operations holding one.
NoSlotLeak == gate = Cardinality(Holders)

\* At most MaxConcurrency HTTP attempts are in flight in the whole process.
AttemptsBounded ==
    Cardinality({o \in Ops : pc[o] = "inflight"}) <= MaxConcurrency

\* Any two attempt starts the limiter admits lie an interval apart: those of
\* different operations, also if they woke at the same instant, and those of
\* one operation's retries (client_test.go:335-370, aniliberty.md:263-264).
StartsSpaced ==
    \A i, j \in DOMAIN starts : i < j => starts[j] - starts[i] >= RequestInterval

\* Retry-After takes precedence over the local backoff (architecture.md): the
\* instant it asks for, in either form, is waited for in full, and without one
\* the shortest backoff is; the attempt after it is not admitted earlier,
\* although the operation queues for the gate and the limiter again.  Seconds
\* beyond 64 bits are excepted: the code takes them for malformed, and only the
\* shortest backoff is claimed for them.
RetryWaitedOut ==
    \A o \in Ops :
        pc[o] \in {"admitted", "inflight"} => startedAt[o] >= notBefore[o]

\* The error an operation ends with tells the truth, at whatever place it was
\* cut short: its attempt count is the number of HTTP requests really made,
\* and "canceled" is no guess, the context had ended or a retry did not fit
\* its deadline.
ErrorIsHonest ==
    \A o \in Ops :
        pc[o] = "done" /\ outcome[o] # "ok" =>
            /\ reported[o] = sent[o]
            /\ outcome[o] = "canceled" =>
                  ctxDone[o] \/ (answer[o] \in Retriable /\ attempt[o] < MaxAttempts)

\* A request is repeated only after an answer that may be retried, and never
\* more than maximumAttempts times.
OnlyRetriableRepeated ==
    [][\A o \in Ops :
          sent'[o] # sent[o] =>
              sent[o] = 0 \/ (answer[o] \in Retriable /\ sent[o] < MaxAttempts)]_vars

\* Every operation ends, even if the upstream never answers.
EveryOperationEnds == \A o \in Ops : <>(pc[o] = "done")
==============================================================================
