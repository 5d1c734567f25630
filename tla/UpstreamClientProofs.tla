------------------------ MODULE UpstreamClientProofs -------------------------
(****************************************************************************)
(* Proofs about the upstream client, for any number of operations, any size  *)
(* of the gate, any interval and any number of attempts.                     *)
(****************************************************************************)
EXTENDS UpstreamClient, FiniteSetTheorems, SequenceTheorems, TLAPS

\* A retry is waited for only while attempts are left.
BackoffLeavesAttempt == \A o \in Ops : pc[o] = "backoff" => attempt[o] < MaxAttempts

\* Every start so far was at least an interval before the next free one.
StartsBeforeNext ==
    \A i \in DOMAIN starts : starts[i] + RequestInterval <= next

IInv ==
    /\ TypeOK
    /\ NoSlotLeak
    /\ gate <= MaxConcurrency
    /\ BackoffLeavesAttempt
    /\ StartsBeforeNext
    /\ StartsSpaced

\* How one operation's move changes the number of token holders.
LEMMA GotoCounts ==
    ASSUME TypeOK, NEW o \in Ops, NEW place \in Places, Goto(o, place)
    PROVE  /\ Cardinality(Holders) \in Nat
           /\ pc[o] \in HoldingPlaces => Cardinality(Holders) >= 1
           /\ Cardinality(Holders') =
                 CASE pc[o] \in HoldingPlaces /\ place \notin HoldingPlaces ->
                          Cardinality(Holders) - 1
                   [] pc[o] \notin HoldingPlaces /\ place \in HoldingPlaces ->
                          Cardinality(Holders) + 1
                   [] OTHER -> Cardinality(Holders)
  <1>1. Holders \subseteq Ops /\ IsFiniteSet(Ops)
    BY OpsAssumption DEF Holders
  <1>2. IsFiniteSet(Holders) /\ Cardinality(Holders) \in Nat
    BY <1>1, FS_Subset, FS_CardinalityType
  <1>3. pc' = [pc EXCEPT ![o] = place] /\ pc \in [Ops -> Places]
    BY DEF Goto, TypeOK
  <1>4. o \in Holders <=> pc[o] \in HoldingPlaces
    BY DEF Holders
  <1>5. o \in Holders => Cardinality(Holders) >= 1
    <2>1. Cardinality(Holders) = 0 <=> Holders = {}
      BY <1>2, FS_EmptySet
    <2> QED
      BY <1>2, <2>1
  <1>6. CASE o \in Holders /\ place \notin HoldingPlaces
    <2>1. Holders' = Holders \ {o}
      BY <1>3, <1>6 DEF Holders
    <2>2. Cardinality(Holders \ {o}) = Cardinality(Holders) - 1
      BY <1>2, <1>6, FS_RemoveElement
    <2> QED
      BY <1>2, <1>4, <1>5, <1>6, <2>1, <2>2
  <1>7. CASE o \notin Holders /\ place \in HoldingPlaces
    <2>1. Holders' = Holders \cup {o}
      BY <1>3, <1>7 DEF Holders
    <2>2. Cardinality(Holders \cup {o}) = Cardinality(Holders) + 1
      BY <1>2, <1>7, FS_AddElement
    <2> QED
      BY <1>2, <1>4, <1>5, <1>7, <2>1, <2>2
  <1>8. CASE o \in Holders <=> place \in HoldingPlaces
    <2>1. Holders' = Holders
      BY <1>3, <1>8 DEF Holders
    <2> QED
      BY <1>2, <1>4, <1>5, <1>8, <2>1
  <1> QED
    BY <1>6, <1>7, <1>8

\* The actions after which no start was admitted and no time lost keep the
\* spacing of the starts.
LEMMA SpacingFramed ==
    ASSUME StartsTyped, StartsBeforeNext, StartsSpaced, UNCHANGED <<next, starts>>
    PROVE  StartsTyped' /\ StartsBeforeNext' /\ StartsSpaced'
  BY DEF StartsTyped, StartsBeforeNext, StartsSpaced

LEMMA AcquirePreserves ==
    ASSUME IInv, NEW o \in Ops, AcquireStep(o)
    PROVE  IInv'
  <1> USE DEF shared, timers, result, history, HoldingPlaces, Places
  <1>1. StartsTyped' /\ StartsBeforeNext' /\ StartsSpaced'
    BY SpacingFramed DEF IInv, TypeOK, AcquireStep, CheckBeforeQueue, TakeSlot, LeaveQueue,
                         CheckAfterSlot
  <1>2. TypeOK'
    BY <1>1, GotoCounts, GateAssumption, RetryAssumption
    DEF IInv, TypeOK, NoSlotLeak, Goto, Fail, AcquireStep, CheckBeforeQueue, TakeSlot,
        LeaveQueue, CheckAfterSlot
  <1>3. BackoffLeavesAttempt'
    BY DEF IInv, TypeOK, BackoffLeavesAttempt, Goto, Fail, AcquireStep, CheckBeforeQueue,
           TakeSlot, LeaveQueue, CheckAfterSlot
  <1>4. NoSlotLeak' /\ gate' <= MaxConcurrency
    BY GotoCounts, GateAssumption
    DEF IInv, TypeOK, NoSlotLeak, Fail, AcquireStep, CheckBeforeQueue, TakeSlot,
        LeaveQueue, CheckAfterSlot
  <1> QED
    BY <1>1, <1>2, <1>3, <1>4 DEF IInv

LEMMA LimiterPreserves ==
    ASSUME IInv, NEW o \in Ops, LimiterStep(o)
    PROVE  IInv'
  <1> USE DEF shared, timers, result, history, HoldingPlaces, Places
  <1>1. CASE Admit(o)
    <2>1. /\ next \in Nat /\ now \in Nat /\ RequestInterval \in Nat \ {0}
          /\ next <= now /\ next' = now + RequestInterval
          /\ startedAt \in [Ops -> Nat \cup {-1}]
          /\ startedAt' = [startedAt EXCEPT ![o] = now]
          /\ starts \in Seq(Nat) /\ starts' = Append(starts, now)
      BY <1>1, LimiterAssumption DEF IInv, TypeOK, StartsTyped, Admit
    <2>2. /\ starts' \in Seq(Nat) /\ Len(starts) \in Nat
          /\ DOMAIN starts = 1..Len(starts)
          /\ DOMAIN starts' = 1..(Len(starts) + 1)
          /\ \A i \in 1..Len(starts) : starts'[i] = starts[i] /\ starts[i] \in Nat
          /\ starts'[Len(starts) + 1] = now
      BY <2>1
    <2>3. \A i \in 1..Len(starts) : starts[i] + RequestInterval <= now
      <3> SUFFICES ASSUME NEW i \in 1..Len(starts) PROVE starts[i] + RequestInterval <= now
        OBVIOUS
      <3>1. i \in DOMAIN starts /\ starts[i] \in Nat
        BY <2>2
      <3>2. starts[i] + RequestInterval <= next
        BY <3>1 DEF IInv, StartsBeforeNext
      <3>3. next \in Nat /\ now \in Nat /\ RequestInterval \in Nat /\ next <= now
        BY <2>1
      <3> QED
        BY ONLY <3>1, <3>2, <3>3
    <2>4. StartsBeforeNext'
      <3>1. \A i \in 1..Len(starts) : starts[i] <= now /\ starts[i] + RequestInterval <= next'
        BY <2>1, <2>2, <2>3
      <3> QED
        BY <2>1, <2>2, <3>1 DEF StartsBeforeNext
    <2>5. StartsSpaced'
      <3> SUFFICES ASSUME NEW i \in DOMAIN starts', NEW j \in DOMAIN starts', i < j
                   PROVE  starts'[j] - starts'[i] >= RequestInterval
        BY DEF StartsSpaced
      <3>1. CASE j = Len(starts) + 1
        BY <2>1, <2>2, <2>3, <3>1
      <3>2. CASE j # Len(starts) + 1
        BY <2>2, <3>2 DEF IInv, StartsSpaced
      <3> QED
        BY <3>1, <3>2
    <2>6. TypeOK'
      <3>1. StartsTyped'
        BY <2>2 DEF StartsTyped
      <3>2. next' \in Nat /\ startedAt' \in [Ops -> Nat \cup {-1}]
        BY <2>1
      <3> QED
        BY <1>1, <3>1, <3>2 DEF IInv, TypeOK, Admit, Goto
    <2>7. BackoffLeavesAttempt'
      BY <1>1 DEF IInv, TypeOK, BackoffLeavesAttempt, Admit, Goto
    <2>8. NoSlotLeak' /\ gate' <= MaxConcurrency
      BY <1>1, GotoCounts, GateAssumption DEF IInv, TypeOK, NoSlotLeak, Admit
    <2> QED
      BY <2>4, <2>5, <2>6, <2>7, <2>8 DEF IInv
  <1>2. CASE CheckBeforeLimiter(o) \/ Pause(o) \/ PauseEnds(o)
    <2>1. StartsTyped' /\ StartsBeforeNext' /\ StartsSpaced'
      BY <1>2, SpacingFramed DEF IInv, TypeOK, CheckBeforeLimiter, Pause, PauseEnds, GiveUpLimiter
    <2>2. TypeOK'
      BY <1>2, <2>1, GotoCounts, GateAssumption, RetryAssumption
      DEF IInv, TypeOK, NoSlotLeak, Goto, Fail, CheckBeforeLimiter, Pause, PauseEnds,
          GiveUpLimiter
    <2>3. BackoffLeavesAttempt'
      BY <1>2 DEF IInv, TypeOK, BackoffLeavesAttempt, Goto, Fail, CheckBeforeLimiter,
                  Pause, PauseEnds, GiveUpLimiter
    <2>4. NoSlotLeak' /\ gate' <= MaxConcurrency
      BY <1>2, GotoCounts, GateAssumption
      DEF IInv, TypeOK, NoSlotLeak, Fail, CheckBeforeLimiter, Pause, PauseEnds,
          GiveUpLimiter
    <2> QED
      BY <2>1, <2>2, <2>3, <2>4 DEF IInv
  <1> QED
    BY <1>1, <1>2 DEF LimiterStep

LEMMA AttemptPreserves ==
    ASSUME IInv, NEW o \in Ops, Send(o) \/ Respond(o) \/ AttemptTimesOut(o)
    PROVE  IInv'
  <1> USE DEF shared, timers, result, history, HoldingPlaces, Places
  <1>1. CASE Send(o)
    <2>1. StartsTyped' /\ StartsBeforeNext' /\ StartsSpaced'
      BY <1>1, SpacingFramed DEF IInv, TypeOK, Send
    <2>2. TypeOK' /\ BackoffLeavesAttempt'
      BY <1>1, <2>1 DEF IInv, TypeOK, BackoffLeavesAttempt, Goto, Send
    <2>3. NoSlotLeak' /\ gate' <= MaxConcurrency
      BY <1>1, GotoCounts, GateAssumption DEF IInv, TypeOK, NoSlotLeak, Send
    <2> QED
      BY <2>1, <2>2, <2>3 DEF IInv
  <1>2. CASE Respond(o) \/ AttemptTimesOut(o)
    <2>1. PICK a \in Answers \cup ErrorKinds : AttemptReturns(o, a)
      BY <1>2 DEF Respond, AttemptTimesOut, Answers, ErrorKinds
    <2>2. StartsTyped' /\ StartsBeforeNext' /\ StartsSpaced'
      BY <2>1, SpacingFramed DEF IInv, TypeOK, AttemptReturns
    <2>3. TypeOK' /\ BackoffLeavesAttempt'
      <3>1. gate' \in Nat
        <4>1. Cardinality(Holders) \in Nat /\ Cardinality(Holders) >= 1
          BY <2>1, GotoCounts DEF IInv, AttemptReturns
        <4> QED
          BY <2>1, <4>1 DEF IInv, NoSlotLeak, AttemptReturns
      <3> QED
        BY <2>1, <2>2, <3>1 DEF IInv, TypeOK, BackoffLeavesAttempt, Goto, AttemptReturns
    <2>4. NoSlotLeak' /\ gate' <= MaxConcurrency
      BY <2>1, GotoCounts, GateAssumption DEF IInv, TypeOK, NoSlotLeak, AttemptReturns
    <2> QED
      BY <2>2, <2>3, <2>4 DEF IInv
  <1> QED
    BY <1>1, <1>2

\* What parseRetryAfter and backoff return are durations, whatever the header.
LEMMA RetryDelaysTyped ==
    ASSUME now \in Nat, NEW h \in RetryAfters, NEW n \in 1..MaxAttempts
    PROVE  /\ EarliestRetry(h, n) \in Int
           /\ \A delay \in RetryDelays(h, n) : delay \in Int
  <1>1. /\ h.value \in Int /\ Second \in Nat \ {0} /\ MaxDuration \in Nat
        /\ BackoffBase \in Nat /\ BackoffMax \in Nat /\ n - 1 \in Nat
    BY RetryAssumption
  <1>2. h.value * Second \in Int
    BY <1>1
  <1>3. Ceiling(n) \in Int
    <2>1. 2 ^ (n - 1) \in Int
      BY <1>1
    <2> QED
      BY <1>1, <2>1 DEF Ceiling
  <1>4. ParseRetryAfter(h, now) \subseteq Int
    BY <1>1, <1>2 DEF ParseRetryAfter, Clamped
  <1>5. Backoff(n) \subseteq Int
    BY <1>3 DEF Backoff
  <1> QED
    BY <1>1, <1>2, <1>3, <1>4, <1>5 DEF AskedInstant, EarliestRetry, RetryDelays

\* After an attempt an operation holds no token and leaves gate and limiter
\* alone.
LEMMA LoopPreserves ==
    ASSUME IInv, NEW o \in Ops, LoopStep(o)
    PROVE  IInv'
  <1> USE DEF shared, timers, result, history, HoldingPlaces, Places
  <1>1. PICK place \in Places \ HoldingPlaces :
           /\ pc[o] \notin HoldingPlaces
           /\ Goto(o, place)
           /\ UNCHANGED <<now, gate, next, pauseUntil, answer, ctxDone, sent, startedAt, starts>>
    BY DEF LoopStep, ClassifyError, CanceledAfterAttempt, StartDecoding, Decode,
           FinalStatus, Retry, WaitForRetry, RetryDue, RetryCanceled, Fail
  <1>2. StartsTyped' /\ StartsBeforeNext' /\ StartsSpaced'
    BY <1>1, SpacingFramed DEF IInv, TypeOK
  <1>3. NoSlotLeak' /\ gate' <= MaxConcurrency
    BY <1>1, GotoCounts DEF IInv, NoSlotLeak
  <1>4. /\ attempt' \in [Ops -> 1..MaxAttempts]
        /\ BackoffLeavesAttempt'
    BY RetryAssumption
    DEF IInv, TypeOK, BackoffLeavesAttempt, Goto, Fail, LoopStep, ClassifyError,
        CanceledAfterAttempt, StartDecoding, Decode, FinalStatus, Retry, WaitForRetry,
        RetryDue, RetryCanceled
  <1>5. retryAt' \in [Ops -> Int] /\ notBefore' \in [Ops -> Int]
    <2>1. CASE \E h \in RetryAfters :
                  \E delay \in RetryDelays(h, attempt[o]), d \in Deadlines \cup {NoDeadline} :
                      Retry(o, h, delay, d)
      <3>1. PICK h \in RetryAfters : \E delay \in RetryDelays(h, attempt[o]),
                 d \in Deadlines \cup {NoDeadline} : Retry(o, h, delay, d)
        BY <2>1
      <3>2. PICK delay \in RetryDelays(h, attempt[o]), d \in Deadlines \cup {NoDeadline} :
                 Retry(o, h, delay, d)
        BY <3>1
      <3>3. delay \in Int /\ EarliestRetry(h, attempt[o]) \in Int
        BY RetryDelaysTyped DEF IInv, TypeOK
      <3>4. /\ retryAt' = retryAt \/ retryAt' = [retryAt EXCEPT ![o] = now + delay]
            /\ \/ notBefore' = notBefore
               \/ notBefore' = [notBefore EXCEPT ![o] = EarliestRetry(h, attempt[o])]
        BY <3>2 DEF Retry, WaitForRetry
      <3> QED
        BY <3>3, <3>4 DEF IInv, TypeOK
    <2>2. CASE retryAt' = retryAt /\ notBefore' = notBefore
      BY <2>2 DEF IInv, TypeOK
    <2> QED
      BY <2>1, <2>2
      DEF LoopStep, ClassifyError, CanceledAfterAttempt, StartDecoding, Decode,
          FinalStatus, RetryDue, RetryCanceled
  <1>6. /\ outcome' \in [Ops -> {None, "ok", "canceled", "response", "transport"}
                                \cup Retriable \cup Failures]
        /\ reported' \in [Ops -> Nat]
    BY RetryAssumption
    DEF IInv, TypeOK, Goto, Fail, LoopStep, ClassifyError, CanceledAfterAttempt,
        StartDecoding, Decode, FinalStatus, Retry, WaitForRetry, RetryDue, RetryCanceled
  <1>7. TypeOK'
    BY <1>1, <1>2, <1>4, <1>5, <1>6 DEF IInv, TypeOK, Goto
  <1> QED
    BY <1>2, <1>3, <1>4, <1>7 DEF IInv

LEMMA InitEstablishes == Init => IInv
  <1> SUFFICES ASSUME Init PROVE IInv
    OBVIOUS
  <1>1. TypeOK
    <2>1. StartsTyped
      BY DEF Init, StartsTyped
    <2> QED
      BY <2>1, RetryAssumption DEF Init, TypeOK, Places
  <1>2. NoSlotLeak /\ gate <= MaxConcurrency
    <2>1. Holders = {}
      BY DEF Init, Holders, HoldingPlaces
    <2> QED
      BY <2>1, FS_EmptySet, GateAssumption DEF Init, NoSlotLeak
  <1>3. BackoffLeavesAttempt /\ StartsBeforeNext /\ StartsSpaced
    BY DEF Init, BackoffLeavesAttempt, StartsBeforeNext, StartsSpaced
  <1> QED
    BY <1>1, <1>2, <1>3 DEF IInv

LEMMA StepPreserves == IInv /\ [Next]_vars => IInv'
  <1> SUFFICES ASSUME IInv, [Next]_vars PROVE IInv'
    OBVIOUS
  <1>1. ASSUME NEW o \in Ops, OpStep(o) \/ Respond(o) PROVE IInv'
    BY <1>1, AcquirePreserves, LimiterPreserves, AttemptPreserves, LoopPreserves DEF OpStep
  <1>2. CASE \/ \E o \in Ops : ContextEnds(o)
             \/ Tick
             \/ UNCHANGED vars
    <2>1. /\ UNCHANGED <<gate, next, pc, attempt, pauseUntil, retryAt, answer,
                         outcome, reported, sent, startedAt, starts, notBefore>>
          /\ now' \in Nat /\ ctxDone' \in [Ops -> BOOLEAN]
      <3>1. CASE \E o \in Ops : ContextEnds(o)
        BY <3>1 DEF ContextEnds, shared, timers, result, history, IInv, TypeOK
      <3>2. CASE Tick
        BY <3>2 DEF Tick, shared, timers, result, history, IInv, TypeOK
      <3>3. CASE UNCHANGED vars
        BY <3>3 DEF vars, shared, timers, result, history, IInv, TypeOK
      <3> QED
        BY <1>2, <3>1, <3>2, <3>3
    <2>2. Holders' = Holders
      BY <2>1 DEF Holders
    <2> QED
      BY <2>1, <2>2
      DEF IInv, TypeOK, StartsTyped, NoSlotLeak, BackoffLeavesAttempt, StartsBeforeNext, StartsSpaced
  <1> QED
    BY <1>1, <1>2 DEF Next

\* The inductive invariant holds in every reachable state of the client.
LEMMA Inductive == Spec => []IInv
  BY InitEstablishes, StepPreserves, PTL DEF Spec

\* Every variable has its type; the loop counter never passes
\* maximumAttempts and the gate is never over-released.
THEOREM TypeCorrect == Spec => []TypeOK
  <1>1. IInv => TypeOK
    BY DEF IInv
  <1> QED
    BY <1>1, Inductive, PTL

\* Whatever context check an operation fails at, the gate holds exactly one
\* token for every operation between acquire and release.
THEOREM SlotsNeverLeak == Spec => []NoSlotLeak
  <1>1. IInv => NoSlotLeak
    BY DEF IInv
  <1> QED
    BY <1>1, Inductive, PTL

\* The process never has more than MAX_CONCURRENCY attempts in flight.
THEOREM ConcurrencyBounded == Spec => []AttemptsBounded
  <1>1. IInv => AttemptsBounded
    <2> SUFFICES ASSUME IInv PROVE AttemptsBounded
      OBVIOUS
    <2> DEFINE Flying == {o \in Ops : pc[o] = "inflight"}
    <2>1. Flying \subseteq Holders /\ Holders \subseteq Ops
      BY DEF Holders, HoldingPlaces
    <2>2. IsFiniteSet(Holders) /\ Cardinality(Holders) \in Nat
      BY <2>1, OpsAssumption, FS_Subset, FS_CardinalityType
    <2>3. Cardinality(Flying) <= Cardinality(Holders) /\ IsFiniteSet(Flying)
      BY <2>1, <2>2, FS_Subset
    <2>4. Cardinality(Flying) \in Nat
      BY <2>3, FS_CardinalityType
    <2> QED
      BY <2>2, <2>3, <2>4, GateAssumption DEF IInv, NoSlotLeak, AttemptsBounded
  <1> QED
    BY <1>1, Inductive, PTL

\* Any two of all the attempt starts ever admitted are at least
\* REQUEST_INTERVAL apart, those of one operation's retries included, however
\* many operations compete for the limiter.
THEOREM StartsAreSpaced == Spec => []StartsSpaced
  <1>1. IInv => StartsSpaced
    BY DEF IInv
  <1> QED
    BY <1>1, Inductive, PTL

------------------------------------------------------------------------------
(* Attempts, errors and waits                                                *)

\* Before the next request is sent, and after.
Before == {"start", "queued", "slotted", "gated", "clear", "pausing", "admitted"}
After  == {"inflight", "answered", "decoding", "backoff"}

\* The loop counter counts the requests made, the next one included until it
\* is sent; there is a next one only after an answer that may be retried.
AttemptsCounted ==
    \A o \in Ops :
        /\ pc[o] \in Before => sent[o] = attempt[o] - 1
        /\ pc[o] \in After => sent[o] = attempt[o]
        /\ pc[o] \in Before /\ sent[o] # 0 => answer[o] \in Retriable
        /\ pc[o] = "backoff" => answer[o] \in Retriable

\* A wait that ends within the time considered ends when the answer allowed,
\* and from then on that instant is past.
WaitsKept ==
    /\ now <= MaxTime
    /\ \A o \in Ops :
          /\ pc[o] = "backoff" => retryAt[o] >= notBefore[o] \/ retryAt[o] > MaxTime
          /\ pc[o] \in Before => now >= notBefore[o]

HInv == IInv /\ AttemptsCounted /\ ErrorIsHonest /\ WaitsKept /\ RetryWaitedOut

\* What an operation does not touch of the others, and of its own while it
\* stays before or after the request.
LEMMA OthersFramed ==
    ASSUME HInv, NEW o \in Ops, now' = now,
           \A p \in Ops \ {o} :
               /\ pc'[p] = pc[p] /\ sent'[p] = sent[p] /\ attempt'[p] = attempt[p]
               /\ answer'[p] = answer[p] /\ outcome'[p] = outcome[p] /\ ctxDone'[p] = ctxDone[p]
               /\ reported'[p] = reported[p] /\ retryAt'[p] = retryAt[p]
               /\ notBefore'[p] = notBefore[p] /\ startedAt'[p] = startedAt[p],
           pc'[o] \in Before => sent'[o] = attempt'[o] - 1,
           pc'[o] \in After => sent'[o] = attempt'[o],
           pc'[o] \in Before /\ sent'[o] # 0 => answer'[o] \in Retriable,
           pc'[o] = "backoff" => answer'[o] \in Retriable,
           pc'[o] = "backoff" => retryAt'[o] >= notBefore'[o] \/ retryAt'[o] > MaxTime,
           pc'[o] \in Before => now >= notBefore'[o],
           pc'[o] \in {"admitted", "inflight"} => startedAt'[o] >= notBefore'[o],
           pc'[o] = "done" /\ outcome'[o] # "ok" =>
               /\ reported'[o] = sent'[o]
               /\ outcome'[o] = "canceled" =>
                     ctxDone'[o] \/ (answer'[o] \in Retriable /\ attempt'[o] < MaxAttempts)
    PROVE  AttemptsCounted' /\ ErrorIsHonest' /\ WaitsKept' /\ RetryWaitedOut'
  <1>1. AttemptsCounted'
    BY DEF HInv, AttemptsCounted
  <1>2. ErrorIsHonest'
    BY DEF HInv, ErrorIsHonest
  <1>3. WaitsKept'
    BY DEF HInv, WaitsKept
  <1>4. RetryWaitedOut'
    BY DEF HInv, RetryWaitedOut
  <1> QED
    BY <1>1, <1>2, <1>3, <1>4

LEMMA ApproachHonest ==
    ASSUME HInv, NEW o \in Ops, AcquireStep(o) \/ LimiterStep(o)
    PROVE  AttemptsCounted' /\ ErrorIsHonest' /\ WaitsKept' /\ RetryWaitedOut'
  <1>1. /\ UNCHANGED <<now, attempt, answer, ctxDone, retryAt, sent, notBefore>>
        /\ pc[o] \in Before
    BY DEF AcquireStep, CheckBeforeQueue, TakeSlot, LeaveQueue, CheckAfterSlot, LimiterStep,
       CheckBeforeLimiter, Admit, Pause, PauseEnds, GiveUpLimiter, shared, timers, history, Before
  <1>2. /\ pc \in [Ops -> Places] /\ outcome \in [Ops -> {None, "ok", "canceled", "response",
                "transport"} \cup Retriable \cup Failures]
        /\ reported \in [Ops -> Nat] /\ startedAt \in [Ops -> Nat \cup {-1}]
    BY DEF HInv, IInv, TypeOK
  <1>3. \/ /\ \E place \in {"queued", "slotted", "gated", "clear", "pausing"} : Goto(o, place)
           /\ UNCHANGED <<outcome, reported, startedAt>>
        \/ /\ Goto(o, "admitted") /\ startedAt' = [startedAt EXCEPT ![o] = now]
           /\ UNCHANGED <<outcome, reported>>
        \/ /\ Fail(o, "canceled", attempt[o] - 1) /\ ctxDone[o]
           /\ UNCHANGED startedAt
    BY DEF AcquireStep, CheckBeforeQueue, TakeSlot, LeaveQueue, CheckAfterSlot, LimiterStep,
       CheckBeforeLimiter, Admit, Pause, PauseEnds, GiveUpLimiter, result, history
  <1>4. /\ sent[o] = attempt[o] - 1 /\ now >= notBefore[o]
        /\ sent[o] # 0 => answer[o] \in Retriable
    BY <1>1 DEF HInv, AttemptsCounted, WaitsKept
  <1>5. CASE \E place \in {"queued", "slotted", "gated", "clear", "pausing"} :
                /\ Goto(o, place)
                /\ UNCHANGED <<outcome, reported, startedAt>>
    BY <1>1, <1>2, <1>4, <1>5, OthersFramed DEF Goto, Before, After
  <1>6. CASE /\ Goto(o, "admitted") /\ startedAt' = [startedAt EXCEPT ![o] = now]
             /\ UNCHANGED <<outcome, reported>>
    BY <1>1, <1>2, <1>4, <1>6, OthersFramed DEF Goto, Before, After
  <1>7. CASE Fail(o, "canceled", attempt[o] - 1) /\ ctxDone[o] /\ UNCHANGED startedAt
    BY <1>1, <1>2, <1>4, <1>7, OthersFramed DEF Fail, Goto, Before, After
  <1> QED
    BY <1>3, <1>5, <1>6, <1>7

LEMMA ExchangeHonest ==
    ASSUME HInv, NEW o \in Ops, Send(o) \/ Respond(o) \/ AttemptTimesOut(o)
    PROVE  AttemptsCounted' /\ ErrorIsHonest' /\ WaitsKept' /\ RetryWaitedOut'
  <1>1. /\ pc \in [Ops -> Places] /\ sent \in [Ops -> Nat]
        /\ answer \in [Ops -> Answers \cup ErrorKinds \cup {None}]
        /\ attempt \in [Ops -> 1..MaxAttempts] /\ MaxAttempts \in Nat
    BY RetryAssumption DEF HInv, IInv, TypeOK
  <1>2. CASE Send(o)
    <2>1. /\ UNCHANGED <<now, attempt, answer, ctxDone, retryAt, notBefore, startedAt,
                         outcome, reported>>
          /\ pc' = [pc EXCEPT ![o] = "inflight"] /\ sent' = [sent EXCEPT ![o] = sent[o] + 1]
          /\ pc[o] = "admitted"
      BY <1>2 DEF Send, Goto, timers, result
    <2>2. sent[o] = attempt[o] - 1 /\ startedAt[o] >= notBefore[o]
      BY <2>1 DEF HInv, AttemptsCounted, RetryWaitedOut, Before
    <2> QED
      BY <1>1, <2>1, <2>2, OthersFramed DEF Before, After
  <1>3. CASE Respond(o) \/ AttemptTimesOut(o)
    <2>1. PICK a \in Answers \cup ErrorKinds : AttemptReturns(o, a)
      BY <1>3 DEF Respond, AttemptTimesOut, Answers, ErrorKinds
    <2>2. /\ UNCHANGED <<now, attempt, ctxDone, retryAt, notBefore, startedAt, sent,
                         outcome, reported>>
          /\ pc' = [pc EXCEPT ![o] = "answered"] /\ answer' = [answer EXCEPT ![o] = a]
          /\ pc[o] = "inflight"
      BY <2>1 DEF AttemptReturns, Goto, timers, result, history
    <2>3. sent[o] = attempt[o]
      BY <2>2 DEF HInv, AttemptsCounted, After
    <2> QED
      BY <1>1, <2>2, <2>3, OthersFramed DEF Before, After
  <1> QED
    BY <1>2, <1>3

\* The delay leaves the instant asked for, or the shortest backoff, in the
\* future as long as it lasts, unless it is the longest duration.
LEMMA DelaySuffices ==
    ASSUME now \in Nat, NEW h \in RetryAfters, NEW n \in 1..MaxAttempts,
           NEW delay \in RetryDelays(h, n)
    PROVE  now + delay >= EarliestRetry(h, n) \/ now + delay > MaxTime
  <1>1. /\ h.value \in Int /\ h.form \in {"decimal", "date", "other"}
        /\ Second \in Nat \ {0} /\ MaxInt \in Nat /\ MaxDuration \in 0..MaxInt
        /\ BackoffBase \in Nat /\ BackoffMax \in Nat /\ n - 1 \in Nat
        /\ MaxTime \in Nat /\ MaxTime < MaxDuration
    BY RetryAssumption, TimeAssumption
  <1>2. MaxDuration \div Second \in Nat /\ h.value * Second \in Int
    BY <1>1
  <1>3. Ceiling(n) \in Int
    <2>1. 2 ^ (n - 1) \in Int
      BY <1>1
    <2> QED
      BY <1>1, <2>1 DEF Ceiling
  <1>4. CASE ParseRetryAfter(h, now) = {}
    <2>1. delay \in Backoff(n)
      BY <1>4 DEF RetryDelays
    <2>2. delay \in Int /\ delay >= Ceiling(n) \div 2 /\ Ceiling(n) \div 2 \in Int
      BY <1>3, <2>1 DEF Backoff
    <2>3. /\ h.form # "date" /\ ~(h.form = "decimal" /\ h.value <= 0)
          /\ ~(h.form = "decimal" /\ h.value \in 1..MaxInt)
      <3>1. h.form # "date"
        BY <1>4 DEF ParseRetryAfter
      <3>2. ~(h.form = "decimal" /\ h.value <= 0)
        BY <1>4 DEF ParseRetryAfter
      <3>3. ASSUME h.form = "decimal", h.value \in 1..MaxInt PROVE FALSE
        <4>1. CASE h.value \in 1..(MaxDuration \div Second)
          <5>1. ~(h.value <= 0) /\ h.value \notin ((MaxDuration \div Second) + 1)..MaxInt
            BY <1>1, <1>2, <4>1
          <5>2. ParseRetryAfter(h, now) = {h.value * Second}
            BY <3>3, <4>1, <5>1 DEF ParseRetryAfter
          <5> QED
            BY <1>4, <5>2
        <4>2. CASE h.value \in ((MaxDuration \div Second) + 1)..MaxInt
          <5>1. ~(h.value <= 0) /\ h.value \notin 1..(MaxDuration \div Second)
            BY <1>1, <1>2, <3>3, <4>2
          <5>2. ParseRetryAfter(h, now) = {MaxDuration}
            BY <3>3, <4>2, <5>1 DEF ParseRetryAfter
          <5> QED
            BY <1>4, <5>2
        <4> QED
          BY <1>1, <1>2, <3>3, <4>1, <4>2
      <3> QED
        BY <3>1, <3>2, <3>3
    <2>4. EarliestRetry(h, n) = now + Ceiling(n) \div 2
      BY <1>1, <2>3 DEF EarliestRetry, Unreadable
    <2> QED
      BY <2>2, <2>4
  <1>5. CASE ParseRetryAfter(h, now) # {}
    <2>1. delay \in ParseRetryAfter(h, now)
      BY <1>5 DEF RetryDelays
    <2>2. CASE h.form = "date"
      <3>1. delay = Clamped(h.value - now) /\ EarliestRetry(h, n) = h.value
        BY <2>1, <2>2 DEF ParseRetryAfter, EarliestRetry, Unreadable, AskedInstant
      <3> QED
        BY <1>1, <3>1 DEF Clamped
    <2>3. CASE h.form = "decimal" /\ h.value <= 0
      BY <1>1, <2>1, <2>3 DEF ParseRetryAfter, EarliestRetry, Unreadable, AskedInstant
    <2>4. CASE h.form = "decimal" /\ h.value \in 1..(MaxDuration \div Second)
      <3>1. delay = h.value * Second
        BY <1>1, <1>2, <2>1, <2>4 DEF ParseRetryAfter
      <3>2. MaxDuration \div Second <= MaxDuration
        BY <1>1, <1>2
      <3>3. h.value \in 1..MaxInt
        BY <1>1, <1>2, <2>4, <3>2
      <3>4. EarliestRetry(h, n) = now + h.value * Second
        BY <1>1, <2>4, <3>3 DEF EarliestRetry, Unreadable, AskedInstant
      <3> QED
        BY <1>1, <1>2, <3>1, <3>4
    <2>5. CASE h.form = "decimal" /\ h.value \in ((MaxDuration \div Second) + 1)..MaxInt
      <3>1. delay = MaxDuration
        BY <1>1, <1>2, <2>1, <2>5 DEF ParseRetryAfter
      <3> QED
        BY <1>1, <3>1
    <2>6. CASE h.form = "other"
      BY <1>5, <2>6 DEF ParseRetryAfter
    <2>7. CASE h.form = "decimal" /\ h.value > MaxInt /\ h.value > MaxDuration \div Second
      BY <1>1, <1>2, <1>5, <2>7 DEF ParseRetryAfter
    <2> QED
      BY <1>1, <1>2, <2>2, <2>3, <2>4, <2>5, <2>6, <2>7
  <1> QED
    BY <1>4, <1>5

LEMMA LoopHonest ==
    ASSUME HInv, NEW o \in Ops, LoopStep(o)
    PROVE  AttemptsCounted' /\ ErrorIsHonest' /\ WaitsKept' /\ RetryWaitedOut'
  <1>1. UNCHANGED <<now, answer, ctxDone, sent, startedAt, starts>>
    BY DEF LoopStep, ClassifyError, CanceledAfterAttempt, StartDecoding, Decode,
           FinalStatus, Retry, WaitForRetry, RetryDue, RetryCanceled, history
  <1>2. /\ pc \in [Ops -> Places] /\ sent \in [Ops -> Nat] /\ now \in Nat
        /\ answer \in [Ops -> Answers \cup ErrorKinds \cup {None}]
        /\ outcome \in [Ops -> {None, "ok", "canceled", "response", "transport"}
                               \cup Retriable \cup Failures]
        /\ attempt \in [Ops -> 1..MaxAttempts] /\ MaxAttempts \in Nat
        /\ reported \in [Ops -> Nat] /\ retryAt \in [Ops -> Int] /\ notBefore \in [Ops -> Int]
    BY RetryAssumption DEF HInv, IInv, TypeOK
  <1>3. pc[o] \in After => sent[o] = attempt[o]
    BY DEF HInv, AttemptsCounted
  <1>4. ASSUME NEW class \in {"ok", "canceled", "response", "transport"} \cup Retriable \cup Failures,
               NEW n \in Nat, Fail(o, class, n), UNCHANGED <<attempt, retryAt, notBefore>>,
               class # "ok" => n = attempt[o],
               class = "canceled" =>
                   ctxDone[o] \/ (answer[o] \in Retriable /\ attempt[o] < MaxAttempts),
               pc[o] \in After
        PROVE  AttemptsCounted' /\ ErrorIsHonest' /\ WaitsKept' /\ RetryWaitedOut'
    BY <1>1, <1>2, <1>3, <1>4, OthersFramed DEF Fail, Goto, Before, After
  <1>5. CASE ClassifyError(o)
    <2>1. pc[o] \in After /\ UNCHANGED <<attempt, retryAt, notBefore>>
      BY <1>5 DEF ClassifyError, timers, history, After
    <2>2. \/ Fail(o, "response", attempt[o])
          \/ Fail(o, "canceled", attempt[o]) /\ ctxDone[o]
          \/ Fail(o, "transport", attempt[o])
      BY <1>5 DEF ClassifyError
    <2> QED
      BY <1>2, <1>4, <2>1, <2>2
  <1>6. CASE CanceledAfterAttempt(o) \/ RetryCanceled(o)
    BY <1>2, <1>4, <1>6 DEF CanceledAfterAttempt, RetryCanceled, timers, history, After
  <1>7. CASE StartDecoding(o)
    BY <1>1, <1>2, <1>3, <1>7, OthersFramed
    DEF StartDecoding, Goto, timers, result, history, Before, After
  <1>8. CASE \E good \in BOOLEAN : Decode(o, good)
    <2>1. pc[o] \in After /\ UNCHANGED <<attempt, retryAt, notBefore>>
      BY <1>8 DEF Decode, timers, history, After
    <2>2. \/ Fail(o, "canceled", attempt[o]) /\ ctxDone[o]
          \/ Fail(o, "response", attempt[o])
          \/ Fail(o, "ok", 0)
      BY <1>8 DEF Decode
    <2> QED
      BY <1>2, <1>4, <2>1, <2>2
  <1>9. CASE FinalStatus(o)
    <2>1. /\ pc[o] \in After /\ UNCHANGED <<attempt, retryAt, notBefore>>
          /\ Fail(o, answer[o], attempt[o]) /\ answer[o] \in Failures \cup Retriable
          /\ answer[o] \notin {"canceled", "ok"}
      BY <1>9 DEF FinalStatus, timers, history, After, Failures, Retriable
    <2>2. attempt[o] \in Nat
      BY <1>2
    <2> QED
      BY <1>4, <2>1, <2>2
  <1>10. CASE RetryDue(o)
    <2>1. /\ pc[o] = "backoff" /\ retryAt[o] <= now
          /\ pc' = [pc EXCEPT ![o] = "start"]
          /\ attempt' = [attempt EXCEPT ![o] = attempt[o] + 1]
          /\ UNCHANGED <<retryAt, notBefore, outcome, reported>>
      BY <1>10 DEF RetryDue, Goto, timers, result, history
    <2>2. now >= notBefore[o] /\ answer[o] \in Retriable
      BY <1>2, <2>1, TimeAssumption DEF HInv, WaitsKept, AttemptsCounted
    <2> QED
      BY <1>1, <1>2, <1>3, <2>1, <2>2, OthersFramed DEF Before, After
  <1>11. CASE \E h \in RetryAfters :
                  \E delay \in RetryDelays(h, attempt[o]), d \in Deadlines \cup {NoDeadline} :
                      Retry(o, h, delay, d)
    <2>1. PICK h \in RetryAfters : \E delay \in RetryDelays(h, attempt[o]),
               d \in Deadlines \cup {NoDeadline} : Retry(o, h, delay, d)
      BY <1>11
    <2>2. PICK delay \in RetryDelays(h, attempt[o]), d \in Deadlines \cup {NoDeadline} :
               Retry(o, h, delay, d)
      BY <2>1
    <2>3. /\ pc[o] = "answered" /\ answer[o] \in Retriable /\ attempt[o] < MaxAttempts
          /\ UNCHANGED attempt
      BY <2>2 DEF Retry, WaitForRetry
    <2>4. CASE Fail(o, "canceled", attempt[o]) /\ UNCHANGED <<retryAt, notBefore>>
      BY <1>2, <1>4, <2>3, <2>4 DEF After
    <2>5. CASE /\ pc' = [pc EXCEPT ![o] = "backoff"]
               /\ retryAt' = [retryAt EXCEPT ![o] = now + delay]
               /\ notBefore' = [notBefore EXCEPT ![o] = EarliestRetry(h, attempt[o])]
               /\ UNCHANGED <<outcome, reported>>
      <3>1. now + delay >= EarliestRetry(h, attempt[o]) \/ now + delay > MaxTime
        BY <1>2, DelaySuffices
      <3> QED
        BY <1>1, <1>2, <1>3, <2>3, <2>5, <3>1, OthersFramed DEF Before, After
    <2> QED
      BY <2>2, <2>4, <2>5 DEF Retry, WaitForRetry, Goto, result
  <1> QED
    BY <1>5, <1>6, <1>7, <1>8, <1>9, <1>10, <1>11 DEF LoopStep

LEMMA HonestInit == Init => HInv
  BY InitEstablishes, TimeAssumption
  DEF Init, HInv, AttemptsCounted, ErrorIsHonest, WaitsKept, RetryWaitedOut, Before, After

LEMMA HonestStep == HInv /\ [Next]_vars => HInv'
  <1> SUFFICES ASSUME HInv, [Next]_vars PROVE HInv'
    OBVIOUS
  <1>1. IInv'
    BY StepPreserves DEF HInv
  <1>2. ASSUME NEW o \in Ops, OpStep(o) \/ Respond(o)
        PROVE  AttemptsCounted' /\ ErrorIsHonest' /\ WaitsKept' /\ RetryWaitedOut'
    BY <1>2, ApproachHonest, ExchangeHonest, LoopHonest DEF OpStep
  <1>3. CASE (\E o \in Ops : ContextEnds(o)) \/ Tick \/ UNCHANGED vars
    <2>1. /\ UNCHANGED <<pc, attempt, retryAt, answer, outcome, reported, sent, startedAt, notBefore>>
          /\ \A o \in Ops : ctxDone[o] => ctxDone'[o]
          /\ now' = now \/ (now < MaxTime /\ now' = now + 1)
      <3>1. CASE \E o \in Ops : ContextEnds(o)
        BY <3>1 DEF ContextEnds, timers, result, history, HInv, IInv, TypeOK
      <3>2. CASE Tick \/ UNCHANGED vars
        BY <3>2 DEF Tick, vars, timers, result, history
      <3> QED
        BY <1>3, <3>1, <3>2
    <2>2. AttemptsCounted' /\ ErrorIsHonest' /\ RetryWaitedOut'
      BY <2>1 DEF HInv, AttemptsCounted, ErrorIsHonest, RetryWaitedOut
    <2>3. WaitsKept'
      BY <2>1, TimeAssumption DEF HInv, IInv, TypeOK, WaitsKept
    <2> QED
      BY <1>1, <2>2, <2>3 DEF HInv
  <1> QED
    BY <1>1, <1>2, <1>3 DEF Next, HInv

LEMMA HonestAlways == Spec => []HInv
  BY HonestInit, HonestStep, PTL DEF Spec

\* At whatever check an operation is cut short, its error counts the requests
\* it really made and calls itself canceled only with cause.
THEOREM ErrorsAreHonest == Spec => []ErrorIsHonest
  <1>1. HInv => ErrorIsHonest
    BY DEF HInv
  <1> QED
    BY <1>1, HonestAlways, PTL

\* No retry is admitted before the instant its Retry-After asks for, for every
\* date and every number of seconds that fits 64 bits, however far beyond a
\* duration, nor before the shortest backoff if none can be read.
THEOREM WaitsAreKept == Spec => []RetryWaitedOut
  <1>1. HInv => RetryWaitedOut
    BY DEF HInv
  <1> QED
    BY <1>1, HonestAlways, PTL

\* A request is made again only after an answer that may be retried, and at
\* most maximumAttempts times.
THEOREM RepeatsAreAllowed == Spec => OnlyRetriableRepeated
  <1> DEFINE Allowed ==
        \A o \in Ops :
            sent'[o] # sent[o] =>
                sent[o] = 0 \/ (answer[o] \in Retriable /\ sent[o] < MaxAttempts)
  <1>1. ASSUME HInv, [Next]_vars, NEW o \in Ops, sent'[o] # sent[o]
        PROVE  sent[o] = 0 \/ (answer[o] \in Retriable /\ sent[o] < MaxAttempts)
    <2>1. PICK p \in Ops : Send(p)
      BY <1>1 DEF Next, OpStep, AcquireStep, CheckBeforeQueue, TakeSlot, LeaveQueue,
         CheckAfterSlot, LimiterStep, CheckBeforeLimiter, Admit, Pause, PauseEnds,
         GiveUpLimiter, Respond, AttemptTimesOut, AttemptReturns, LoopStep, ClassifyError,
         CanceledAfterAttempt, StartDecoding, Decode, FinalStatus, Retry, WaitForRetry,
         RetryDue, RetryCanceled, ContextEnds, Tick, history, vars
    <2>2. p = o /\ pc[o] = "admitted"
      BY <1>1, <2>1 DEF Send, HInv, IInv, TypeOK
    <2>3. /\ sent[o] = attempt[o] - 1 /\ attempt[o] \in 1..MaxAttempts /\ MaxAttempts \in Nat
          /\ sent[o] # 0 => answer[o] \in Retriable
      BY <1>1, <2>2, RetryAssumption DEF HInv, IInv, TypeOK, AttemptsCounted, Before
    <2> QED
      BY <2>3
  <1>2. HInv /\ [Next]_vars => [Allowed]_vars
    BY <1>1
  <1>3. Spec => [][Allowed]_vars
    BY <1>2, HonestAlways, PTL DEF Spec
  <1> QED
    BY <1>3 DEF OnlyRetriableRepeated
=============================================================================
