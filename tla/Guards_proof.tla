----------------------------- MODULE Guards_proof -----------------------------
(***************************************************************************)
(* Invariance proofs for what concurrent tasks share: the circuit breaker  *)
(* and the queued bulkhead, the lease and the unit of work, for any        *)
(* callers, jobs, nodes, tasks, settings and bounds; and for a behaviour   *)
(* of any of them as MCGuards puts them together.                          *)
(***************************************************************************)
EXTENDS MCGuards, FiniteSetTheorems, SequenceTheorems, WellFoundedInduction, TLAPS

-------------------------------------------------------------------------------
(* The circuit breaker. *)

WindowOK == window \in Seq(BOOLEAN) /\ Len(window) <= RateWindow

\* The counters of a half-open breaker add up, and its successes fall short.
HalfOpenOK ==
  breaker = "HALF_OPEN" =>
    /\ probes + late = Cardinality(trials) + successes + leaked
    /\ late <= successes /\ successes < HalfOpenMax

CInv == BreakerTypeOK /\ HalfOpenOK

LEMMA TrialsFinite ==
  ASSUME CInv
  PROVE  IsFiniteSet(trials) /\ Cardinality(trials) \in Nat
<1>1. trials \subseteq Calls
  BY DEF CInv, BreakerTypeOK
<1> QED BY <1>1, BreakerAssumption, FS_Subset, FS_CardinalityType

\* What is left of the trials and of the calls when c ends.
LEMMA EndingTypes ==
  ASSUME CInv, NEW c \in inFlight, CallEnds(c)
  PROVE  /\ inFlight' \subseteq Calls /\ trials' \subseteq inFlight'
         /\ Cardinality(trials') = Cardinality(trials) - (IF c \in trials THEN 1 ELSE 0)
<1>1. inFlight' \subseteq Calls /\ trials' \subseteq inFlight'
  BY DEF CInv, BreakerTypeOK, CallEnds
<1>2. Cardinality(trials') = Cardinality(trials) - (IF c \in trials THEN 1 ELSE 0)
  <2>1. Cardinality(trials \ {c}) = IF c \in trials THEN Cardinality(trials) - 1 ELSE Cardinality(trials)
    BY TrialsFinite, FS_RemoveElement
  <2> QED BY <2>1, TrialsFinite DEF CallEnds
<1> QED BY <1>1, <1>2

LEMMA SeenIsWindow ==
  ASSUME WindowOK, NEW ok \in BOOLEAN
  PROVE  Seen(ok) \in Seq(BOOLEAN) /\ Len(Seen(ok)) <= RateWindow
<1> DEFINE w == Append(window, ok)
<1>1. w \in Seq(BOOLEAN) /\ Len(w) = Len(window) + 1 /\ Len(window) \in Nat
  BY AppendProperties, LenProperties DEF WindowOK
<1>2. RateWindow \in Nat /\ RateWindow > 0
  BY BreakerAssumption
<1>3. CASE ~byRate
  <2>1. Seen(ok) = <<>>
    BY <1>3 DEF Seen
  <2>2. <<>> \in Seq(BOOLEAN) /\ Len(<<>>) = 0
    BY EmptySeq
  <2> QED BY <2>1, <2>2, <1>2
<1>4. CASE byRate /\ Len(w) > RateWindow
  <2>1. Seen(ok) = Tail(w)
    BY <1>4 DEF Seen
  <2>2. w # <<>>
    BY <1>1, <1>4, <1>2, EmptySeq
  <2> HIDE DEF w
  <2>3. Tail(w) \in Seq(BOOLEAN) /\ Len(Tail(w)) = Len(w) - 1
    BY <1>1, <2>2, HeadTailProperties
  <2> QED BY <1>1, <1>2, <2>1, <2>3 DEF WindowOK
<1>5. CASE byRate /\ ~(Len(w) > RateWindow)
  <2>1. Seen(ok) = w
    BY <1>5 DEF Seen
  <2> QED BY <1>1, <1>2, <1>5, <2>1
<1> QED BY <1>3, <1>4, <1>5

LEMMA InitCInv == BreakerInit => CInv
<1> SUFFICES ASSUME BreakerInit PROVE CInv
  OBVIOUS
<1>1. window \in Seq(BOOLEAN) /\ Len(window) = 0
  BY EmptySeq DEF BreakerInit
<1>2. /\ failures \in 0..FailureThreshold /\ age \in 0..RecoveryTimeout /\ 0 <= RateWindow
      /\ probes \in 0..HalfOpenMax /\ successes \in 0..HalfOpenMax
      /\ leaked \in 0..HalfOpenMax /\ late \in 0..HalfOpenMax
  BY BreakerAssumption DEF BreakerInit
<1>3. byRate \in BOOLEAN /\ breaker = "CLOSED" /\ inFlight \subseteq Calls /\ trials \subseteq inFlight
  BY DEF BreakerInit
<1> QED BY <1>1, <1>2, <1>3 DEF CInv, BreakerTypeOK, HalfOpenOK

-------------------------------------------------------------------------------

LEMMA AdmittedKeeps ==
  ASSUME CInv, NEW c \in Calls, UNCHANGED byRate, Admitted(c)
  PROVE  CInv'
  BY DEF CInv, BreakerTypeOK, HalfOpenOK, Admitted, ghostVars

LEMMA TrialKeeps ==
  ASSUME CInv, NEW c \in Calls, UNCHANGED byRate, AdmittedAsTrial(c)
  PROVE  CInv'
<1> USE DEF CInv
<1>1. /\ HalfOpenMax \in Nat /\ HalfOpenMax > 0 /\ probes \in Nat
      /\ c \notin inFlight /\ c \notin trials
  BY BreakerAssumption DEF BreakerTypeOK, AdmittedAsTrial
<1>2. /\ inFlight' \subseteq Calls /\ breaker' = "HALF_OPEN" /\ probes' \in 1..HalfOpenMax
      /\ probes' = (IF Recovered THEN 0 ELSE probes) + 1
      /\ UNCHANGED <<byRate, failures, window, age>>
  BY <1>1 DEF AdmittedAsTrial, ProbeBudget, BreakerTypeOK
<1>3. CASE Recovered
  <2>1. trials' = {c} /\ successes' = 0 /\ leaked' = 0 /\ late' = 0 /\ trials' \subseteq inFlight'
    BY <1>3 DEF AdmittedAsTrial
  <2>2. Cardinality(trials') = 1
    BY <2>1, FS_Singleton
  <2>3. BreakerTypeOK'
    BY <1>1, <1>2, <2>1 DEF BreakerTypeOK
  <2> QED BY <1>1, <1>2, <1>3, <2>1, <2>2, <2>3 DEF HalfOpenOK
<1>4. CASE ~Recovered
  <2>1. /\ trials' = trials \cup {c} /\ UNCHANGED <<successes, leaked, late>>
        /\ trials' \subseteq inFlight' /\ breaker = "HALF_OPEN"
    BY <1>4 DEF AdmittedAsTrial, HalfOpens, BreakerTypeOK
  <2>2. Cardinality(trials') = Cardinality(trials) + 1
    BY <1>1, <2>1, TrialsFinite, FS_AddElement
  <2>3. BreakerTypeOK'
    BY <1>2, <2>1 DEF BreakerTypeOK
  <2>4. HalfOpenOK'
    BY <1>1, <1>2, <1>4, <2>1, <2>2, TrialsFinite DEF HalfOpenOK, BreakerTypeOK
  <2> QED BY <2>3, <2>4
<1> QED BY <1>3, <1>4

LEMMA StateReadKeeps ==
  ASSUME CInv, UNCHANGED byRate, StateRead
  PROVE  CInv'
<1>1. Cardinality({}) = 0
  BY FS_EmptySet
<1> QED BY <1>1, BreakerAssumption DEF CInv, BreakerTypeOK, HalfOpenOK, StateRead

LEMMA SucceedsKeeps ==
  ASSUME CInv, NEW c \in Calls, UNCHANGED byRate, Succeeds(c)
  PROVE  CInv'
<1> USE DEF CInv
<1>1. /\ HalfOpenMax \in Nat /\ HalfOpenMax > 0 /\ RateWindow \in Nat
      /\ c \in inFlight /\ CallEnds(c) /\ UNCHANGED <<age, byRate>>
  BY BreakerAssumption DEF Succeeds
<1>2. /\ inFlight' \subseteq Calls /\ trials' \subseteq inFlight'
      /\ Cardinality(trials') = Cardinality(trials) - (IF c \in trials THEN 1 ELSE 0)
  BY <1>1, EndingTypes
<1>3. CASE breaker = "HALF_OPEN" /\ successes + 1 >= HalfOpenMax
  <2>1. /\ breaker' = "CLOSED" /\ failures' = 0 /\ window' = <<>> /\ probes' = 0
        /\ successes' = 0 /\ leaked' = 0 /\ late' = 0
    BY <1>3 DEF Succeeds
  <2>2. WindowOK'
    BY <1>1, <2>1, EmptySeq DEF WindowOK
  <2>3. failures' \in 0..FailureThreshold
    BY <2>1, BreakerAssumption
  <2> QED BY <1>1, <1>2, <2>1, <2>2, <2>3 DEF BreakerTypeOK, HalfOpenOK, WindowOK
<1>4. WindowOK
  BY DEF BreakerTypeOK, WindowOK
<1>5. CASE breaker = "HALF_OPEN" /\ ~(successes + 1 >= HalfOpenMax)
  <2>1. /\ successes' = successes + 1 /\ window' = Seen(TRUE)
        /\ late' = late + (IF c \in trials THEN 0 ELSE 1)
        /\ UNCHANGED <<breaker, failures, probes, leaked>>
    BY <1>5 DEF Succeeds
  <2>2. WindowOK'
    BY <2>1, <1>4, SeenIsWindow DEF WindowOK
  <2>3. HalfOpenOK'
    BY <1>1, <1>2, <1>5, <2>1, TrialsFinite DEF HalfOpenOK, BreakerTypeOK
  <2>4. late' \in 0..HalfOpenMax /\ successes' \in 0..HalfOpenMax
    BY <1>1, <1>5, <2>1 DEF BreakerTypeOK, HalfOpenOK
  <2>5. BreakerTypeOK'
    BY <1>1, <1>2, <2>1, <2>2, <2>4 DEF BreakerTypeOK, WindowOK
  <2> QED BY <2>3, <2>5
<1>6. CASE breaker # "HALF_OPEN"
  <2>1. /\ failures' = 0 /\ window' = Seen(TRUE)
        /\ UNCHANGED <<breaker, probes, successes, leaked, late>>
    BY <1>6 DEF Succeeds
  <2>2. WindowOK'
    BY <2>1, <1>4, SeenIsWindow DEF WindowOK
  <2>3. failures' \in 0..FailureThreshold
    BY <2>1, BreakerAssumption
  <2>4. BreakerTypeOK'
    BY <1>1, <1>2, <2>1, <2>2, <2>3 DEF BreakerTypeOK, WindowOK
  <2> QED BY <1>6, <2>1, <2>4 DEF HalfOpenOK
<1> QED BY <1>3, <1>5, <1>6

LEMMA FailsKeeps ==
  ASSUME CInv, NEW c \in Calls, UNCHANGED byRate, Fails(c)
  PROVE  CInv'
<1> USE DEF CInv
<1>1. /\ c \in inFlight /\ CallEnds(c)
      /\ UNCHANGED <<byRate, probes, successes, leaked, late>>
      /\ window' = Seen(FALSE)
      /\ failures' = IF failures < FailureThreshold THEN failures + 1 ELSE failures
  BY DEF Fails
<1>2. inFlight' \subseteq Calls /\ trials' \subseteq inFlight'
  BY <1>1, EndingTypes
<1>3. WindowOK'
  BY <1>1, SeenIsWindow DEF WindowOK, BreakerTypeOK
<1>4. failures' \in 0..FailureThreshold
  BY <1>1, BreakerAssumption DEF BreakerTypeOK
<1>5. \/ breaker' = "OPEN" /\ age' = 0
      \/ breaker # "HALF_OPEN" /\ UNCHANGED <<breaker, age>>
  BY DEF Fails
<1>6. age' \in 0..RecoveryTimeout
  BY <1>5, BreakerAssumption DEF BreakerTypeOK
<1>7. BreakerTypeOK'
  BY <1>1, <1>2, <1>3, <1>4, <1>5, <1>6 DEF BreakerTypeOK, WindowOK
<1> QED BY <1>5, <1>7 DEF HalfOpenOK

LEMMA VanishesKeeps ==
  ASSUME CInv, NEW c \in Calls, UNCHANGED byRate, Vanishes(c)
  PROVE  CInv'
<1> USE DEF CInv
<1>1. /\ c \in inFlight /\ CallEnds(c) /\ HalfOpenMax \in Nat
      /\ UNCHANGED <<byRate, breaker, failures, window, age, probes, successes, late>>
      /\ leaked' = leaked + (IF breaker = "HALF_OPEN" /\ c \in trials THEN 1 ELSE 0)
  BY BreakerAssumption DEF Vanishes, BreakerTypeOK
<1>2. /\ inFlight' \subseteq Calls /\ trials' \subseteq inFlight'
      /\ Cardinality(trials') = Cardinality(trials) - (IF c \in trials THEN 1 ELSE 0)
  BY <1>1, EndingTypes
<1>3. HalfOpenOK'
  BY <1>1, <1>2, TrialsFinite DEF HalfOpenOK, BreakerTypeOK
<1>4. c \in trials => Cardinality(trials) >= 1
  <2>1. c \in trials => trials # {}
    OBVIOUS
  <2> QED BY <2>1, TrialsFinite, FS_EmptySet
<1>5. leaked' \in 0..HalfOpenMax
  BY <1>1, <1>4, TrialsFinite DEF HalfOpenOK, BreakerTypeOK
<1>6. BreakerTypeOK'
  BY <1>1, <1>2, <1>5 DEF BreakerTypeOK
<1> QED BY <1>3, <1>6

LEMMA BreakerStepKeepsCInv == CInv /\ [BreakerNext]_breakerVars => CInv'
<1> SUFFICES ASSUME CInv, [BreakerNext]_breakerVars PROVE CInv'
  OBVIOUS
<1>1. CASE Ages /\ UNCHANGED byRate
  BY <1>1, BreakerAssumption DEF CInv, BreakerTypeOK, HalfOpenOK, Ages, ghostVars
<1>2. CASE UNCHANGED breakerVars
  BY <1>2 DEF CInv, BreakerTypeOK, HalfOpenOK, breakerVars
<1> QED BY <1>1, <1>2, StateReadKeeps, AdmittedKeeps, TrialKeeps, SucceedsKeeps, FailsKeeps,
           VanishesKeeps DEF BreakerNext, BreakerStep

-------------------------------------------------------------------------------
(* The theorems. *)

LEMMA CInvAlways == BreakerSpec => []CInv
  BY InitCInv, BreakerStepKeepsCInv, PTL DEF BreakerSpec

\* The counters stay within the breaker's settings, however late the reports.
THEOREM BreakerTypes == BreakerSpec => []BreakerTypeOK
  BY CInvAlways, PTL DEF CInv

\* A half-open breaker that rejects every call has a trial in flight, unless
\* one ended without a report (on_success, on_failure and before_call).
THEOREM BreakerMovesOn == BreakerSpec => []MovesOn
<1>1. CInv => MovesOn
  <2> SUFFICES ASSUME CInv, breaker = "HALF_OPEN"
               PROVE  /\ Cardinality(trials) <= HalfOpenMax
                      /\ probes = HalfOpenMax /\ leaked = 0 => trials # {}
    BY DEF MovesOn
  <2>1. /\ HalfOpenMax \in Nat /\ probes \in 0..HalfOpenMax /\ successes \in Nat
        /\ late \in Nat /\ leaked \in Nat /\ Cardinality(trials) \in Nat
    BY BreakerAssumption, TrialsFinite DEF CInv, BreakerTypeOK
  <2>2. /\ probes + late = Cardinality(trials) + successes + leaked
        /\ late <= successes /\ successes < HalfOpenMax
    BY DEF CInv, HalfOpenOK
  <2>3. Cardinality(trials) <= HalfOpenMax
    BY <2>1, <2>2
  <2>4. probes = HalfOpenMax /\ leaked = 0 => Cardinality(trials) # 0
    BY <2>1, <2>2
  <2> QED BY <2>3, <2>4, FS_EmptySet
<1> QED BY <1>1, CInvAlways, PTL

\* The successes that close a circuit are of its trials, but for the late ones.
THEOREM ProbesAreAccounted == BreakerSpec => []ProbesAccounted
<1>1. CInv => ProbesAccounted
  BY DEF CInv, HalfOpenOK, ProbesAccounted
<1> QED BY <1>1, CInvAlways, PTL

-------------------------------------------------------------------------------
(* The queued bulkhead. *)

Holders == {c \in Callers : caller[c] \in {"holding", "granted"}}

\* The queue is the waiting callers, each once.
QueueOfWaiting ==
  /\ \A i \in 1..Len(waiters) : caller[waiters[i]] = "waiting"
  /\ \A i, j \in 1..Len(waiters) : waiters[i] = waiters[j] => i = j
  /\ \A c \in Callers : caller[c] = "waiting" => \E i \in 1..Len(waiters) : waiters[i] = c

\* It fills only while every permit is held or given.
FullBehindQueue == waiters # <<>> => ~closed /\ active = MaxConcurrent

BInv == BulkheadTypeOK /\ PermitsConserved /\ QueueOfWaiting /\ FullBehindQueue

\* A release of a full bulkhead serves one waiter; of any other, nobody waits.
LEMMA OneWoken ==
  ASSUME BInv, active > 0
  PROVE  Woken = IF waiters = <<>> THEN 0 ELSE 1
<1>1. waiters \in Seq(Callers) /\ active \in Nat /\ MaxConcurrent \in Nat /\ active <= MaxConcurrent
  BY BulkheadAssumption DEF BInv, BulkheadTypeOK
<1>2. CASE waiters = <<>>
  BY <1>1, <1>2 DEF Woken, Room
<1>3. CASE waiters # <<>>
  <2>1. ~closed /\ Room = 1
    BY <1>1, <1>3 DEF BInv, FullBehindQueue, Room
  <2>2. Len(waiters) \in Nat /\ Len(waiters) >= 1
    BY <1>1, <1>3
  <2> QED BY <2>1, <2>2, <1>3 DEF Woken
<1> QED BY <1>2, <1>3

LEMMA HoldersFinite ==
  ASSUME BulkheadTypeOK
  PROVE  IsFiniteSet(Holders) /\ Cardinality(Holders) \in Nat
  BY BulkheadAssumption, FS_Subset, FS_CardinalityType DEF Holders

LEMMA InitBInv == BulkheadInit => BInv
<1> SUFFICES ASSUME BulkheadInit PROVE BInv
  OBVIOUS
<1>1. BulkheadTypeOK
  <2>1. waiters \in Seq(Callers) /\ Len(waiters) = 0
    BY DEF BulkheadInit
  <2>2. active \in 0..MaxConcurrent /\ 0 <= MaxWaiters
    BY BulkheadAssumption DEF BulkheadInit
  <2>3. /\ closed \in BOOLEAN
        /\ caller \in [Callers -> {"out", "waiting", "granted", "refused", "holding"}]
    BY DEF BulkheadInit
  <2> QED BY <2>1, <2>2, <2>3 DEF BulkheadTypeOK
<1>2. PermitsConserved
  <2>1. Holders = {}
    BY DEF BulkheadInit, Holders
  <2> QED BY <2>1, FS_EmptySet DEF BulkheadInit, PermitsConserved, Holders
<1>3. QueueOfWaiting /\ FullBehindQueue
  BY DEF BulkheadInit, QueueOfWaiting, FullBehindQueue
<1> QED BY <1>1, <1>2, <1>3 DEF BInv

-------------------------------------------------------------------------------

LEMMA AcquireKeepsBInv ==
  ASSUME BInv, NEW c \in Callers, AcquireAtOnce(c) \/ AcquireWaits(c)
  PROVE  BInv'
<1> USE DEF BInv
<1>1. CASE AcquireAtOnce(c)
  <2> USE DEF AcquireAtOnce, Becomes
  <2>1. BulkheadTypeOK'
    BY <1>1, BulkheadAssumption DEF BulkheadTypeOK
  <2>2. PermitsConserved'
    <3>1. Holders' = Holders \cup {c} /\ c \notin Holders
      BY <1>1 DEF Holders, BulkheadTypeOK
    <3>2. Cardinality(Holders') = Cardinality(Holders) + 1
      BY <3>1, HoldersFinite, FS_AddElement
    <3> QED BY <3>2, <1>1 DEF PermitsConserved, Holders
  <2>3. QueueOfWaiting' /\ FullBehindQueue'
    BY <1>1 DEF QueueOfWaiting, FullBehindQueue, BulkheadTypeOK
  <2> QED BY <2>1, <2>2, <2>3
<1>2. CASE AcquireWaits(c)
  <2> USE DEF AcquireWaits, Becomes
  <2>1. /\ waiters' = Append(waiters, c) /\ waiters' \in Seq(Callers)
        /\ Len(waiters') = Len(waiters) + 1 /\ Len(waiters) \in Nat
        /\ \A i \in 1..Len(waiters) : waiters'[i] = waiters[i] /\ waiters[i] \in Callers
        /\ waiters'[Len(waiters) + 1] = c
    BY <1>2 DEF BulkheadTypeOK
  <2>2. BulkheadTypeOK'
    BY <1>2, <2>1, BulkheadAssumption DEF BulkheadTypeOK
  <2>3. PermitsConserved'
    <3>1. Holders' = Holders
      BY <1>2 DEF Holders, BulkheadTypeOK
    <3> QED BY <3>1, <1>2 DEF PermitsConserved, Holders
  <2>4. \A d \in Callers : caller'[d] = IF d = c THEN "waiting" ELSE caller[d]
    BY <1>2 DEF BulkheadTypeOK
  <2>5. QueueOfWaiting'
    <3>1. \A i \in 1..Len(waiters) : waiters[i] # c
      BY <1>2, <2>1 DEF QueueOfWaiting
    <3>2. \A i \in 1..Len(waiters') : i \in 1..Len(waiters) \/ i = Len(waiters) + 1
      BY <2>1
    <3>3. \A i \in 1..Len(waiters') : caller'[waiters'[i]] = "waiting"
      BY <2>1, <2>4, <3>2 DEF QueueOfWaiting
    <3>4. \A i, j \in 1..Len(waiters') : waiters'[i] = waiters'[j] => i = j
      BY <2>1, <3>1, <3>2 DEF QueueOfWaiting
    <3>5. ASSUME NEW d \in Callers, caller'[d] = "waiting"
          PROVE  \E i \in 1..Len(waiters') : waiters'[i] = d
      BY <2>1, <2>4, <3>5 DEF QueueOfWaiting
    <3> QED BY <3>3, <3>4, <3>5 DEF QueueOfWaiting
  <2>6. FullBehindQueue'
    BY <1>2, BulkheadAssumption DEF FullBehindQueue, BulkheadTypeOK
  <2> QED BY <2>2, <2>3, <2>5, <2>6
<1> QED BY <1>1, <1>2

\* The permit of c goes to the first waiter, or back.
LEMMA ReleasedKeepsBInv ==
  ASSUME BInv, NEW c \in Callers, caller[c] \in {"holding", "granted"}, Released(c, "out")
  PROVE  BInv'
<1> USE DEF BInv
<1>1. active > 0 /\ active \in Nat /\ MaxConcurrent \in Nat /\ Woken = IF waiters = <<>> THEN 0 ELSE 1
  BY OneWoken, BulkheadAssumption DEF Released, BulkheadTypeOK
<1>2. c \in Holders
  BY DEF Holders
<1>3. CASE waiters = <<>>
  <2>1. active' = active - 1 /\ waiters' = <<>> /\ closed' = closed
    BY <1>1, <1>3 DEF Released
  <2>2. caller' = [caller EXCEPT ![c] = "out"]
    <3>1. 1..Woken = {}
      BY <1>1, <1>3
    <3> QED BY <3>1 DEF Released, BulkheadTypeOK
  <2>3. BulkheadTypeOK'
    BY <1>1, <2>1, <2>2, BulkheadAssumption DEF BulkheadTypeOK
  <2>4. PermitsConserved'
    <3>1. Holders' = Holders \ {c}
      BY <2>2 DEF Holders, BulkheadTypeOK
    <3>2. Cardinality(Holders') = Cardinality(Holders) - 1
      BY <3>1, <1>2, HoldersFinite, FS_RemoveElement
    <3> QED BY <3>2, <2>1 DEF PermitsConserved, Holders
  <2>5. QueueOfWaiting' /\ FullBehindQueue'
    BY <1>3, <2>1, <2>2 DEF QueueOfWaiting, FullBehindQueue, BulkheadTypeOK
  <2> QED BY <2>3, <2>4, <2>5
<1>4. CASE waiters # <<>>
  <2> DEFINE d == waiters[1]
             n == Len(waiters)
  <2>1. /\ n \in Nat /\ n >= 1 /\ d \in Callers /\ caller[d] = "waiting" /\ d # c
        /\ \A i \in 1..n : waiters[i] \in Callers
    BY <1>4 DEF QueueOfWaiting, BulkheadTypeOK
  <2>2. active' = active /\ closed' = closed /\ waiters' = SubSeq(waiters, 2, n)
    BY <1>1, <1>4 DEF Released
  <2>3. /\ waiters' \in Seq(Callers) /\ Len(waiters') = n - 1
        /\ \A i \in 1..(n - 1) : waiters'[i] = waiters[i + 1]
    <3>1. \A i \in 2..n : waiters[i] \in Callers
      BY <2>1
    <3>2. /\ SubSeq(waiters, 2, n) \in Seq(Callers)
          /\ Len(SubSeq(waiters, 2, n)) = IF 2 <= n THEN n - 2 + 1 ELSE 0
          /\ \A i \in 1..(n - 2 + 1) : SubSeq(waiters, 2, n)[i] = waiters[2 + i - 1]
      <4> HIDE DEF n
      <4> QED BY <2>1, <3>1, SubSeqProperties
    <3> HIDE DEF n
    <3> QED BY <2>1, <2>2, <3>2
  <2>4. caller' = [e \in Callers |-> IF e = c THEN "out" ELSE IF e = d THEN "granted" ELSE caller[e]]
    <3>1. \A e \in Callers : (\E i \in 1..Woken : waiters[i] = e) <=> e = d
      BY <1>1, <1>4
    <3> QED BY <3>1 DEF Released
  <2> HIDE DEF d, n
  <2>5. BulkheadTypeOK'
    <3>1. Len(waiters') <= MaxWaiters
      BY <2>1, <2>3, BulkheadAssumption DEF BulkheadTypeOK, n
    <3> QED BY <2>2, <2>3, <2>4, <3>1 DEF BulkheadTypeOK
  <2>6. PermitsConserved'
    <3>1. Holders' = (Holders \ {c}) \cup {d} /\ d \notin Holders \ {c}
      BY <2>1, <2>4 DEF Holders
    <3>2. IsFiniteSet(Holders \ {c}) /\ Cardinality(Holders \ {c}) = Cardinality(Holders) - 1
      BY <1>2, HoldersFinite, FS_RemoveElement
    <3>3. Cardinality(Holders') = Cardinality(Holders)
      <4>1. Cardinality((Holders \ {c}) \cup {d}) = Cardinality(Holders \ {c}) + 1
        BY <3>1, <3>2, FS_AddElement
      <4> QED BY <4>1, <3>1, <3>2, HoldersFinite
    <3> QED BY <3>3, <2>2 DEF PermitsConserved, Holders
  <2>7. QueueOfWaiting'
    <3>1. \A i \in 1..(n - 1) : i + 1 \in 1..n /\ waiters[i + 1] # d /\ waiters[i + 1] # c
      BY <2>1 DEF QueueOfWaiting, d, n
    <3>2. ASSUME NEW i \in 1..(n - 1) PROVE caller'[waiters'[i]] = "waiting"
      <4>1. waiters'[i] = waiters[i + 1] /\ i + 1 \in 1..n
        BY <2>3, <3>1
      <4>2. waiters[i + 1] \in Callers /\ waiters[i + 1] # d /\ waiters[i + 1] # c
        BY <2>1, <3>1, <4>1
      <4>3. caller[waiters[i + 1]] = "waiting"
        BY <4>1 DEF QueueOfWaiting, n
      <4> QED BY <2>4, <4>1, <4>2, <4>3
    <3>3. \A i, j \in 1..Len(waiters') : waiters'[i] = waiters'[j] => i = j
      <4> SUFFICES ASSUME NEW i \in 1..(n - 1), NEW j \in 1..(n - 1), waiters'[i] = waiters'[j]
                   PROVE  i = j
        BY <2>1, <2>3
      <4>1. waiters[i + 1] = waiters[j + 1] /\ i + 1 \in 1..n /\ j + 1 \in 1..n
        BY <2>3, <3>1
      <4>2. i + 1 = j + 1
        BY <4>1 DEF QueueOfWaiting, n
      <4> QED BY <4>2
    <3>4. ASSUME NEW e \in Callers, caller'[e] = "waiting"
          PROVE  \E i \in 1..Len(waiters') : waiters'[i] = e
      <4>1. caller[e] = "waiting" /\ e # d
        BY <2>4, <3>4
      <4>2. PICK i \in 1..n : waiters[i] = e
        BY <4>1 DEF QueueOfWaiting, n
      <4>3. i - 1 \in 1..(n - 1) /\ waiters'[i - 1] = e
        BY <2>1, <2>3, <4>1, <4>2 DEF d
      <4> QED BY <4>3, <2>3
    <3>5. \A i \in 1..Len(waiters') : caller'[waiters'[i]] = "waiting"
      BY <3>2, <2>3
    <3> QED BY <3>3, <3>4, <3>5 DEF QueueOfWaiting
  <2>8. FullBehindQueue'
    BY <1>4, <2>2 DEF FullBehindQueue
  <2> QED BY <2>5, <2>6, <2>7, <2>8
<1> QED BY <1>3, <1>4

LEMMA LeavingKeepsBInv ==
  ASSUME BInv, NEW c \in Callers, LeavesQueue(c)
  PROVE  BInv'
<1> USE DEF BInv
<1> DEFINE n == Len(waiters)
<1>1. PICK k \in 1..n :
        /\ waiters[k] = c
        /\ waiters' = [j \in 1..(n - 1) |-> waiters[IF j < k THEN j ELSE j + 1]]
  BY DEF LeavesQueue
<1>2. n \in Nat /\ n >= 1 /\ \A i \in 1..n : waiters[i] \in Callers
  BY <1>1 DEF BulkheadTypeOK
<1>3. caller' = [caller EXCEPT ![c] = "out"] /\ caller[c] = "waiting" /\ UNCHANGED <<active, closed>>
  BY DEF LeavesQueue, Becomes
<1>4. \A j \in 1..(n - 1) : /\ (IF j < k THEN j ELSE j + 1) \in (1..n) \ {k}
                            /\ waiters'[j] = waiters[IF j < k THEN j ELSE j + 1]
  BY <1>1, <1>2
<1>5. waiters' \in Seq(Callers) /\ Len(waiters') = n - 1
  <2>1. waiters' \in [1..(n - 1) -> Callers]
    BY <1>1, <1>2, <1>4
  <2>2. n - 1 \in Nat
    BY <1>2
  <2> QED BY <2>1, <2>2
<1> HIDE DEF n
<1>6. BulkheadTypeOK'
  <2>1. Len(waiters') <= MaxWaiters
    BY <1>2, <1>5, BulkheadAssumption DEF BulkheadTypeOK, n
  <2> QED BY <1>3, <1>5, <2>1 DEF BulkheadTypeOK
<1>7. PermitsConserved'
  <2>1. Holders' = Holders
    BY <1>3 DEF Holders, BulkheadTypeOK
  <2> QED BY <2>1, <1>3 DEF PermitsConserved, Holders
<1>8. QueueOfWaiting'
  <2>1. \A d \in Callers : caller'[d] = IF d = c THEN "out" ELSE caller[d]
    BY <1>3 DEF BulkheadTypeOK
  <2>2. \A i \in (1..n) \ {k} : waiters[i] # c
    BY <1>1 DEF QueueOfWaiting, n
  <2>3. \A i \in 1..Len(waiters') : caller'[waiters'[i]] = "waiting"
    <3> SUFFICES ASSUME NEW i \in 1..(n - 1) PROVE caller'[waiters'[i]] = "waiting"
      BY <1>5
    <3>1. PICK j \in (1..n) \ {k} : waiters'[i] = waiters[j]
      BY <1>4
    <3>2. waiters[j] \in Callers /\ waiters[j] # c
      BY <1>2, <2>2, <3>1
    <3>3. caller[waiters[j]] = "waiting"
      BY <3>1 DEF QueueOfWaiting, n
    <3> QED BY <2>1, <3>1, <3>2, <3>3
  <2>4. \A i, j \in 1..Len(waiters') : waiters'[i] = waiters'[j] => i = j
    <3> SUFFICES ASSUME NEW i \in 1..(n - 1), NEW j \in 1..(n - 1), waiters'[i] = waiters'[j]
                 PROVE  i = j
      BY <1>5
    <3> DEFINE p == IF i < k THEN i ELSE i + 1
               q == IF j < k THEN j ELSE j + 1
    <3>0. p \in 1..n /\ q \in 1..n /\ waiters[p] = waiters[q]
      BY <1>4
    <3> HIDE DEF p, q
    <3>2. p = q
      BY <3>0 DEF QueueOfWaiting, n
    <3>1. (IF i < k THEN i ELSE i + 1) = (IF j < k THEN j ELSE j + 1)
      BY <3>2 DEF p, q
    <3> QED BY <3>1, <1>2
  <2>5. ASSUME NEW d \in Callers, caller'[d] = "waiting"
        PROVE  \E i \in 1..Len(waiters') : waiters'[i] = d
    <3>1. caller[d] = "waiting" /\ d # c
      BY <2>1, <2>5
    <3>2. PICK i \in 1..n : waiters[i] = d
      BY <3>1 DEF QueueOfWaiting, n
    <3>3. i # k
      BY <1>1, <3>1, <3>2
    <3>4. CASE i < k
      BY <1>2, <1>4, <1>5, <3>2, <3>4
    <3>5. CASE i > k
      <4>1. i - 1 \in 1..(n - 1) /\ ~(i - 1 < k)
        BY <1>2, <3>5
      <4>2. waiters'[i - 1] = d
        BY <4>1, <1>2, <1>4, <3>2
      <4> QED BY <4>1, <4>2, <1>5
    <3> QED BY <3>3, <3>4, <3>5, <1>2
  <2> QED BY <2>3, <2>4, <2>5 DEF QueueOfWaiting
<1>9. FullBehindQueue'
  <2>1. waiters # <<>>
    BY <1>2 DEF n
  <2> QED BY <2>1, <1>3 DEF FullBehindQueue
<1> QED BY <1>6, <1>7, <1>8, <1>9

\* Neither the queue nor the permits change, but for what close refuses.
LEMMA HearingKeepsBInv ==
  ASSUME BInv, NEW c \in Callers, Resumes(c) \/ HearsRefusal(c)
  PROVE  BInv'
<1> USE DEF BInv, Resumes, HearsRefusal, Becomes
<1>1. BulkheadTypeOK'
  BY DEF BulkheadTypeOK
<1>2. PermitsConserved'
  <2>1. Holders' = Holders
    BY DEF Holders, BulkheadTypeOK
  <2> QED BY <2>1 DEF PermitsConserved, Holders
<1>3. QueueOfWaiting' /\ FullBehindQueue'
  <2>1. \A d \in Callers : caller'[d] = "waiting" <=> caller[d] = "waiting"
    BY DEF BulkheadTypeOK
  <2>2. \A i \in 1..Len(waiters) : waiters[i] \in Callers
    BY DEF BulkheadTypeOK
  <2> QED BY <2>1, <2>2 DEF QueueOfWaiting, FullBehindQueue
<1> QED BY <1>1, <1>2, <1>3

LEMMA CloseKeepsBInv ==
  ASSUME BInv, Close
  PROVE  BInv'
<1> USE DEF BInv, Close
<1>1. BulkheadTypeOK'
  BY BulkheadAssumption DEF BulkheadTypeOK
<1>2. PermitsConserved'
  <2>1. Holders' = Holders
    BY DEF Holders, BulkheadTypeOK
  <2> QED BY <2>1 DEF PermitsConserved, Holders
<1>3. QueueOfWaiting' /\ FullBehindQueue'
  BY DEF QueueOfWaiting, FullBehindQueue
<1> QED BY <1>1, <1>2, <1>3

LEMMA BulkheadStepKeepsBInv == BInv /\ [BulkheadNext]_bulkheadVars => BInv'
<1> SUFFICES ASSUME BInv, [BulkheadNext]_bulkheadVars PROVE BInv'
  OBVIOUS
<1>1. CASE Close
  BY <1>1, CloseKeepsBInv
<1>2. ASSUME NEW c \in Callers, BulkheadStep(c) PROVE BInv'
  <2>1. CASE GivesUpGranted(c) \/ Release(c)
    BY <2>1, ReleasedKeepsBInv DEF GivesUpGranted, Release
  <2> QED BY <1>2, <2>1, AcquireKeepsBInv, LeavingKeepsBInv, HearingKeepsBInv DEF BulkheadStep
<1>3. CASE UNCHANGED bulkheadVars
  BY <1>3 DEF bulkheadVars, BInv, BulkheadTypeOK, PermitsConserved, QueueOfWaiting, FullBehindQueue
<1> QED BY <1>1, <1>2, <1>3 DEF BulkheadNext

-------------------------------------------------------------------------------
(* The theorems. *)

LEMMA BInvAlways == BulkheadSpec => []BInv
  BY InitBInv, BulkheadStepKeepsBInv, PTL DEF BulkheadSpec

\* The bulkhead never gives more permits than it has, nor keeps more waiters
\* than it may.
THEOREM BulkheadTypes == BulkheadSpec => []BulkheadTypeOK
  BY BInvAlways, PTL DEF BInv

\* No permit is lost and none made up, for any callers and limits, whatever
\* times out or is cancelled (acquire's except path and release).
THEOREM PermitsAreConserved == BulkheadSpec => []PermitsConserved
  BY BInvAlways, PTL DEF BInv

\* Nobody waits beside a free permit.
THEOREM NobodyWaitsIdly == BulkheadSpec => []NoIdlePermit
<1>1. BInv => NoIdlePermit
  <2> SUFFICES ASSUME BInv, NEW c \in Callers, caller[c] = "waiting"
               PROVE  /\ ~closed /\ active = MaxConcurrent
                      /\ \E i \in 1..Len(waiters) : waiters[i] = c
    BY DEF NoIdlePermit
  <2>1. PICK i \in 1..Len(waiters) : waiters[i] = c
    BY DEF BInv, QueueOfWaiting
  <2>2. waiters # <<>>
    BY <2>1
  <2> QED BY <2>1, <2>2 DEF BInv, FullBehindQueue
<1> QED BY <1>1, BInvAlways, PTL

-------------------------------------------------------------------------------
(* The lease. *)

\* Nothing was read later than now, and no lease ends later than its ttl.
Timely ==
  /\ until <= clock + Ttl
  /\ \A t \in Jobs : statement[t].now <= clock /\ trust[t].until <= clock + Ttl

\* A node holds acquisitions of its own jobs, each under its own fence.
HeldOK ==
  /\ \A n \in Nodes : \A e \in held[n] : Home[e.job] = n /\ e.fence \in 1..fence
  /\ \A n, m \in Nodes : \A e \in held[n], f \in held[m] : e.fence = f.fence => e = f

\* The acquisition f is the last of t's that its node holds.
LastHeld(t, f) ==
  /\ [job |-> t, fence |-> f] \in held[Home[t]]
  /\ \A e \in held[Home[t]] : e.job = t => e.fence <= f

\* What a job trusts is the last it holds, and a statement under way is about
\* that, or about one that nobody holds any more.
Consistent(t) ==
  /\ trust[t].fence # 0 => LastHeld(t, trust[t].fence)
  /\ Taking(t) => trust[t].fence = 0
  /\ statement[t].kind = "holder" => trust[t].fence = 0 /\ LastHeld(t, statement[t].fence)
  /\ statement[t].kind = "extend" =>
       /\ statement[t].fence = trust[t].fence /\ trust[t].fence # 0
       /\ trust[t].until <= statement[t].now + Ttl
  /\ statement[t].kind = "release" =>
       /\ trust[t].fence = 0 /\ statement[t].fence <= fence
       /\ \A n \in Nodes : \A e \in held[n] : e.fence # statement[t].fence

\* The row holds the lease a job relies on, at least as long.
Kept(t) == Relies(t) => fence = trust[t].fence /\ until >= trust[t].until

LInv ==
  /\ LeaseTypeOK /\ Timely /\ HeldOK
  /\ \A t \in Jobs : Consistent(t) /\ Kept(t)

-------------------------------------------------------------------------------
(* What the invariant says of the acquisitions. *)

LEMMA EntryIsTrusted ==
  ASSUME LInv, NEW t \in Jobs, trust[t].fence # 0
  PROVE  Entry(t) = [job |-> t, fence |-> trust[t].fence]
<1> DEFINE own == [job |-> t, fence |-> trust[t].fence]
<1>1. own \in OwnEntries(t) /\ \A e \in OwnEntries(t) : e.fence <= own.fence
  BY DEF LInv, Consistent, LastHeld, OwnEntries
<1>2. ASSUME NEW e, IsLatest(e, OwnEntries(t))
      PROVE  e = own
  <2>1. e \in Entries /\ e.job = t /\ e.fence <= own.fence /\ own.fence <= e.fence
    BY <1>1, <1>2, LeaseAssumption DEF IsLatest, OwnEntries, LInv, LeaseTypeOK
  <2>2. e.fence \in Nat /\ own.fence \in Nat
    BY <2>1 DEF Entries, LInv, LeaseTypeOK
  <2> QED BY <2>1, <2>2 DEF Entries
<1>3. IsLatest(own, OwnEntries(t))
  BY <1>1 DEF IsLatest
<1> HIDE DEF own
<1>4. Latest(OwnEntries(t)) = own
  BY <1>2, <1>3 DEF Latest
<1> QED BY <1>1, <1>4 DEF Entry, own

LEMMA OneTrusts ==
  ASSUME LInv, NEW t \in Jobs, NEW u \in Jobs,
         trust[t].fence # 0, trust[t].fence = trust[u].fence
  PROVE  t = u
<1>1. /\ [job |-> t, fence |-> trust[t].fence] \in held[Home[t]]
      /\ [job |-> u, fence |-> trust[u].fence] \in held[Home[u]]
  BY DEF LInv, Consistent, LastHeld
<1>2. Home[t] \in Nodes /\ Home[u] \in Nodes
  BY LeaseAssumption
<1>3. [job |-> t, fence |-> trust[t].fence] = [job |-> u, fence |-> trust[u].fence]
  BY <1>1, <1>2 DEF LInv, HeldOK
<1> QED BY <1>3

\* A take finds the lease ended by a now that is past: nobody relies on it.
LEMMA NobodyRelies ==
  ASSUME LInv, NEW t \in Jobs, Ended(t), NEW u \in Jobs
  PROVE  ~Relies(u)
  BY DEF LInv, LeaseTypeOK, Timely, Kept, Relies, Ended

-------------------------------------------------------------------------------
(* What a step of one job leaves alone. *)

\* Of the other jobs nothing changes; of held, only acquisitions of t.
OthersAlone(t) ==
  /\ \A u \in Jobs \ {t} : statement'[u] = statement[u] /\ trust'[u] = trust[u]
  /\ \A n \in Nodes : \A e \in Entries : e.job # t => (e \in held'[n] <=> e \in held[n])
  /\ \A n \in Nodes : \A e \in held'[n] : e \in Entries /\ (e \in held[n] \/ e.fence = fence + 1)
  /\ fence' \in {fence, fence + 1}

LEMMA OthersConsistent ==
  ASSUME LInv, NEW t \in Jobs, OthersAlone(t), NEW u \in Jobs, u # t
  PROVE  Consistent(u)'
<1>1. /\ statement'[u] = statement[u] /\ trust'[u] = trust[u] /\ Home[u] \in Nodes
      /\ statement[u].fence \in Nat /\ trust[u].fence \in Nat /\ fence \in Nat
  BY LeaseAssumption DEF OthersAlone, LInv, LeaseTypeOK
<1>2. ASSUME NEW f \in Nat, LastHeld(u, f) PROVE LastHeld(u, f)'
  <2>1. [job |-> u, fence |-> f] \in held'[Home[u]]
    BY <1>1, <1>2 DEF OthersAlone, LastHeld, Entries
  <2>2. \A e \in held'[Home[u]] : e.job = u => e.fence <= f
    BY <1>1, <1>2 DEF OthersAlone, LastHeld, Entries
  <2> QED BY <2>1, <2>2 DEF LastHeld
<1>3. Consistent(u)
  BY DEF LInv
<1>4. statement[u].kind = "release" =>
        \A n \in Nodes : \A e \in held'[n] : e.fence # statement[u].fence
  BY <1>1, <1>3 DEF OthersAlone, Consistent
<1>5. fence <= fence'
  BY <1>1 DEF OthersAlone
<1>6. statement[u].kind = "release" => statement[u].fence <= fence'
  BY <1>1, <1>3, <1>5 DEF OthersAlone, Consistent
<1> QED BY <1>1, <1>2, <1>3, <1>4, <1>6 DEF Consistent, Taking

\* The row is as it was.
LEMMA RowKept ==
  ASSUME LInv, NEW u \in Jobs, UNCHANGED <<until, fence>>, trust'[u] = trust[u],
         clock' \in Nat, clock <= clock'
  PROVE  Kept(u)'
  BY DEF LInv, LeaseTypeOK, Kept, Relies

LEMMA HeldShrinks ==
  ASSUME LInv, \A n \in Nodes : held'[n] \subseteq held[n], fence' = fence
  PROVE  HeldOK'
<1>1. HeldOK
  BY DEF LInv
<1> QED BY <1>1 DEF HeldOK

LEMMA HeldGrows ==
  ASSUME LInv, NEW t \in Jobs, fence' = fence + 1,
         held' = [held EXCEPT ![Home[t]] = held[Home[t]] \cup {[job |-> t, fence |-> fence + 1]}]
  PROVE  HeldOK'
<1> DEFINE new == [job |-> t, fence |-> fence + 1]
<1>1. HeldOK /\ fence \in Nat /\ held \in [Nodes -> SUBSET Entries]
  BY DEF LInv, LeaseTypeOK
<1>2. \A n \in Nodes : \A e \in held'[n] : e \in held[n] \/ (n = Home[t] /\ e = new)
  BY <1>1
<1>3. \A n \in Nodes : \A e \in held[n] : e.fence \in 1..fence /\ e.fence # new.fence
  BY <1>1 DEF HeldOK
<1>4. ASSUME NEW n \in Nodes, NEW e \in held'[n]
      PROVE  Home[e.job] = n /\ e.fence \in 1..fence'
  <2>1. CASE e \in held[n]
    BY <1>1, <2>1 DEF HeldOK
  <2>2. CASE n = Home[t] /\ e = new
    BY <1>1, <2>2
  <2> QED BY <1>2, <2>1, <2>2
<1>5. ASSUME NEW n \in Nodes, NEW m \in Nodes, NEW e \in held'[n], NEW f \in held'[m], e.fence = f.fence
      PROVE  e = f
  <2>1. CASE e \in held[n] /\ f \in held[m]
    BY <1>1, <1>5, <2>1 DEF HeldOK
  <2>2. CASE e = new /\ f = new
    BY <2>2
  <2> QED BY <1>2, <1>3, <1>5, <2>1, <2>2
<1> QED BY <1>4, <1>5 DEF HeldOK

-------------------------------------------------------------------------------
(* The steps. *)

LEMMA InitLInv == LeaseInit => LInv
<1> SUFFICES ASSUME LeaseInit PROVE LInv
  OBVIOUS
<1>1. LeaseTypeOK
  BY LeaseAssumption DEF LeaseInit, LeaseTypeOK, NoStatement, NoLease, Kinds
<1>2. Timely /\ HeldOK
  BY LeaseAssumption DEF LeaseInit, Timely, HeldOK, NoStatement, NoLease
<1>3. \A t \in Jobs : Consistent(t) /\ Kept(t)
  BY DEF LeaseInit, Consistent, Kept, Relies, Taking, NoStatement, NoLease
<1> QED BY <1>1, <1>2, <1>3 DEF LInv

\* A statement prepared, refused or lost: the row and held are as they were.
LEMMA TakePreparedKeeps ==
  ASSUME LInv, NEW t \in Jobs, TakePrepared(t)
  PROVE  LInv'
<1> USE DEF LInv, TakePrepared, Prepares
<1>1. PICK k \in {"try_acquire", "acquire"} :
        statement' = [statement EXCEPT ![t] = [kind |-> k, now |-> clock, fence |-> 0]]
  OBVIOUS
<1>2. LeaseTypeOK'
  BY <1>1 DEF LeaseTypeOK, Kinds
<1>3. Timely'
  BY <1>1 DEF LeaseTypeOK, Timely
<1>4. HeldOK'
  BY HeldShrinks
<1>5. Consistent(t)'
  BY <1>1 DEF LeaseTypeOK, Consistent, Taking
<1>6. OthersAlone(t)
  BY <1>1 DEF OthersAlone, LeaseTypeOK
<1>7. \A u \in Jobs : Kept(u)'
  BY RowKept DEF LeaseTypeOK
<1> QED BY <1>2, <1>3, <1>4, <1>5, <1>6, <1>7, OthersConsistent

\* A take, of which its caller hears or not.
LEMMA TakesKeeps ==
  ASSUME LInv, NEW t \in Jobs, Takes(t) \/ TakesUnheard(t)
  PROVE  LInv'
<1> USE DEF LInv
<1> DEFINE new == [job |-> t, fence |-> fence + 1]
<1>1. /\ Taking(t) /\ Ended(t) /\ trust[t].fence = 0 /\ Home[t] \in Nodes
      /\ until' = statement[t].now + Ttl /\ fence' = fence + 1 /\ clock' = clock
      /\ held \in [Nodes -> SUBSET Entries] /\ fence \in Nat /\ clock \in Nat /\ until \in Nat
      /\ statement[t].now \in Nat /\ statement[t].now <= clock /\ Ttl \in Nat
  BY LeaseAssumption DEF Takes, TakesUnheard, Consistent, LeaseTypeOK, Timely
<1>2. new \in Entries
  BY <1>1 DEF Entries
<1>3. \/ held' = held
      \/ held' = [held EXCEPT ![Home[t]] = held[Home[t]] \cup {new}]
  BY DEF Takes, TakesUnheard
<1>4. \/ /\ statement' = [statement EXCEPT ![t] = NoStatement] /\ trust' = trust
      \/ /\ statement' = [statement EXCEPT ![t] = NoStatement]
         /\ trust' = [trust EXCEPT ![t] = [fence |-> fence + 1, until |-> until']]
         /\ held' = [held EXCEPT ![Home[t]] = held[Home[t]] \cup {new}]
      \/ /\ statement' = [statement EXCEPT ![t] = [kind |-> "holder", now |-> clock, fence |-> fence + 1]]
         /\ trust' = trust
         /\ held' = [held EXCEPT ![Home[t]] = held[Home[t]] \cup {new}]
  BY DEF Takes, TakesUnheard, Prepares, Returns, Trusts
<1>5. LeaseTypeOK'
  <2>1. held' \in [Nodes -> SUBSET Entries]
    BY <1>1, <1>2, <1>3
  <2>2. statement' \in [Jobs -> [kind : Kinds, now : Nat, fence : Nat]]
    BY <1>1, <1>4 DEF LeaseTypeOK, Kinds, NoStatement
  <2>3. trust' \in [Jobs -> [fence : Nat, until : Nat]]
    BY <1>1, <1>4 DEF LeaseTypeOK
  <2> QED BY <1>1, <2>1, <2>2, <2>3 DEF LeaseTypeOK
<1>6. Timely'
  <2>1. until' <= clock' + Ttl
    BY <1>1
  <2>2. ASSUME NEW u \in Jobs
        PROVE  statement'[u].now <= clock' /\ trust'[u].until <= clock' + Ttl
    BY <1>1, <1>4, <2>1 DEF Timely, LeaseTypeOK, NoStatement
  <2> QED BY <2>1, <2>2 DEF Timely
<1>7. HeldOK'
  <2>1. CASE held' = held
    BY <1>1, <2>1 DEF HeldOK
  <2>2. CASE held' = [held EXCEPT ![Home[t]] = held[Home[t]] \cup {new}]
    BY <1>1, <2>2, HeldGrows
  <2> QED BY <1>3, <2>1, <2>2
<1>8. Consistent(t)'
  <2>1. PICK f \in Nat : f = fence + 1
    BY <1>1
  <2>2. ASSUME held' = [held EXCEPT ![Home[t]] = held[Home[t]] \cup {new}]
        PROVE  LastHeld(t, f)'
    <3>1. held'[Home[t]] = held[Home[t]] \cup {[job |-> t, fence |-> f]}
      BY <1>1, <2>1, <2>2
    <3>2. \A e \in held[Home[t]] : e.fence <= f
      BY <1>1, <2>1 DEF HeldOK, Entries
    <3> QED BY <2>1, <3>1, <3>2 DEF LastHeld
  <2>3. /\ \/ trust'[t].fence = 0
           \/ trust'[t].fence = f /\ statement'[t].kind = "none" /\ LastHeld(t, f)'
        /\ \/ statement'[t].kind = "none"
           \/ /\ statement'[t].kind = "holder" /\ statement'[t].fence = f
              /\ trust'[t].fence = 0 /\ LastHeld(t, f)'
    BY <1>1, <1>4, <2>1, <2>2 DEF LeaseTypeOK, NoStatement
  <2>4. trust'[t].fence # 0 => LastHeld(t, trust[t].fence)'
    BY <2>3 DEF LastHeld
  <2>5. statement'[t].kind = "holder" => trust'[t].fence = 0 /\ LastHeld(t, statement[t].fence)'
    BY <2>3 DEF LastHeld
  <2> QED BY <2>3, <2>4, <2>5 DEF Consistent, Taking
<1>9. OthersAlone(t)
  <2>1. \A u \in Jobs \ {t} : statement'[u] = statement[u] /\ trust'[u] = trust[u]
    BY <1>4 DEF LeaseTypeOK
  <2>2. \A n \in Nodes : \A e \in Entries : e.job # t => (e \in held'[n] <=> e \in held[n])
    BY <1>1, <1>3
  <2>3. \A n \in Nodes : \A e \in held'[n] : e \in Entries /\ (e \in held[n] \/ e.fence = fence + 1)
    BY <1>1, <1>2, <1>3
  <2> QED BY <1>1, <2>1, <2>2, <2>3 DEF OthersAlone
<1>10. \A u \in Jobs : Kept(u)'
  <2>1. \A u \in Jobs : ~Relies(u)
    BY <1>1, NobodyRelies
  <2>2. \A u \in Jobs \ {t} : ~Relies(u)'
    BY <1>1, <1>9, <2>1 DEF Relies, OthersAlone
  <2>3. Kept(t)'
    BY <1>1, <1>4 DEF Kept, Relies, LeaseTypeOK
  <2> QED BY <2>2, <2>3 DEF Kept
<1> QED BY <1>5, <1>6, <1>7, <1>8, <1>9, <1>10, OthersConsistent

\* The statement is over and changed nothing in the row; a lease being read
\* back is forgotten.
LEMMA ReturnsKeeps ==
  ASSUME LInv, NEW t \in Jobs, TakeRefused(t) \/ NotKept(t) \/ Interrupted(t)
  PROVE  LInv'
<1> USE DEF LInv
<1> DEFINE old == [job |-> t, fence |-> statement[t].fence]
<1>1. /\ statement' = [statement EXCEPT ![t] = NoStatement]
      /\ UNCHANGED <<clock, until, fence, trust>> /\ Home[t] \in Nodes
      /\ held \in [Nodes -> SUBSET Entries]
  BY LeaseAssumption DEF TakeRefused, NotKept, Interrupted, Returns, LeaseTypeOK
<1>2. \/ held' = held
      \/ /\ held' = [held EXCEPT ![Home[t]] = held[Home[t]] \ {old}]
         /\ statement[t].kind = "holder" /\ trust[t].fence = 0
  BY DEF TakeRefused, NotKept, Interrupted, Forgotten, Without, Consistent
<1>3. LeaseTypeOK'
  BY <1>1, <1>2 DEF LeaseTypeOK, NoStatement, Kinds
<1>4. Timely'
  BY <1>1 DEF LeaseTypeOK, Timely, NoStatement
<1>5. HeldOK'
  BY <1>1, <1>2, HeldShrinks
<1>6. Consistent(t)'
  <2>1. statement'[t].kind = "none"
    BY <1>1 DEF LeaseTypeOK, NoStatement
  <2>2. trust[t].fence # 0 => held' = held /\ LastHeld(t, trust[t].fence)
    BY <1>2 DEF Consistent
  <2>3. trust'[t].fence # 0 => LastHeld(t, trust[t].fence)'
    BY <1>1, <2>2 DEF LastHeld
  <2> QED BY <2>1, <2>3 DEF Consistent, Taking
<1>7. OthersAlone(t)
  <2>1. \A u \in Jobs \ {t} : statement'[u] = statement[u] /\ trust'[u] = trust[u]
    BY <1>1 DEF LeaseTypeOK
  <2>2. \A n \in Nodes : /\ held'[n] \subseteq held[n] /\ held[n] \subseteq Entries
                        /\ \A e \in held[n] : e.job # t => e \in held'[n]
    BY <1>1, <1>2
  <2> QED BY <1>1, <2>1, <2>2 DEF OthersAlone
<1>8. \A u \in Jobs : Kept(u)'
  BY <1>1, RowKept DEF LeaseTypeOK
<1> QED BY <1>3, <1>4, <1>5, <1>6, <1>7, <1>8, OthersConsistent

LEMMA ConfirmedKeeps ==
  ASSUME LInv, NEW t \in Jobs, Confirmed(t)
  PROVE  LInv'
<1> USE DEF LInv, Confirmed, Returns, Trusts
<1>1. LeaseTypeOK'
  BY DEF LeaseTypeOK, NoStatement, Kinds
<1>2. Timely'
  BY DEF LeaseTypeOK, Timely, NoStatement
<1>3. HeldOK'
  BY HeldShrinks
<1>4. Consistent(t)'
  BY DEF LeaseTypeOK, NoStatement, Consistent, LastHeld, Taking
<1>5. OthersAlone(t)
  BY DEF OthersAlone, LeaseTypeOK
<1>6. \A u \in Jobs : Kept(u)'
  <2>1. \A u \in Jobs \ {t} : Kept(u)'
    BY RowKept DEF LeaseTypeOK
  <2>2. Kept(t)'
    BY DEF Kept, LeaseTypeOK
  <2> QED BY <2>1, <2>2
<1> QED BY <1>1, <1>2, <1>3, <1>4, <1>5, <1>6, OthersConsistent

LEMMA ExtendPreparedKeeps ==
  ASSUME LInv, NEW t \in Jobs, ExtendPrepared(t)
  PROVE  LInv'
<1> USE DEF LInv, ExtendPrepared, Prepares
<1>1. Entry(t).fence = trust[t].fence
  BY EntryIsTrusted
<1>2. statement' = [statement EXCEPT ![t] = [kind |-> "extend", now |-> clock, fence |-> trust[t].fence]]
  BY <1>1
<1>3. LeaseTypeOK'
  BY <1>2 DEF LeaseTypeOK, Kinds
<1>4. Timely'
  BY <1>2 DEF LeaseTypeOK, Timely
<1>5. HeldOK'
  BY HeldShrinks
<1>6. Consistent(t)'
  <2>1. /\ statement'[t] = [kind |-> "extend", now |-> clock, fence |-> trust[t].fence]
        /\ trust[t].until <= clock + Ttl /\ LastHeld(t, trust[t].fence)
    BY <1>2 DEF LeaseTypeOK, Timely, Consistent
  <2>2. LastHeld(t, trust[t].fence)'
    BY <2>1 DEF LastHeld
  <2> QED BY <2>1, <2>2 DEF Consistent, Taking
<1>7. OthersAlone(t)
  BY <1>2 DEF OthersAlone, LeaseTypeOK
<1>8. \A u \in Jobs : Kept(u)'
  BY RowKept DEF LeaseTypeOK
<1> QED BY <1>3, <1>4, <1>5, <1>6, <1>7, <1>8, OthersConsistent

\* An extension moves the end of the lease its job trusts, and of no other.
LEMMA ExtendsKeeps ==
  ASSUME LInv, NEW t \in Jobs, Extends(t)
  PROVE  LInv'
<1> USE DEF LInv
<1>1. /\ statement[t].kind = "extend" /\ fence = statement[t].fence
      /\ statement[t].fence = trust[t].fence /\ trust[t].fence # 0
      /\ trust[t].until <= statement[t].now + Ttl
      /\ until' = statement[t].now + Ttl /\ UNCHANGED <<clock, fence, held>>
      /\ statement' = [statement EXCEPT ![t] = NoStatement]
      /\ statement[t].now \in Nat /\ statement[t].now <= clock /\ clock \in Nat /\ Ttl \in Nat
  BY LeaseAssumption DEF Extends, Mine, Returns, Consistent, LeaseTypeOK, Timely
<1>2. trust' = trust \/ trust' = [trust EXCEPT ![t] = [fence |-> trust[t].fence, until |-> until']]
  BY <1>1 DEF Extends, Trusts
<1>3. /\ trust'[t].fence = trust[t].fence /\ trust'[t].until <= until'
      /\ \A u \in Jobs \ {t} : trust'[u] = trust[u] /\ statement'[u] = statement[u]
      /\ statement'[t] = NoStatement
  BY <1>1, <1>2 DEF LeaseTypeOK
<1>4. LeaseTypeOK'
  <2>1. trust' \in [Jobs -> [fence : Nat, until : Nat]]
    BY <1>1, <1>2 DEF LeaseTypeOK
  <2>2. statement' \in [Jobs -> [kind : Kinds, now : Nat, fence : Nat]] /\ until' \in Nat
    BY <1>1 DEF LeaseTypeOK, NoStatement, Kinds
  <2> QED BY <1>1, <2>1, <2>2 DEF LeaseTypeOK
<1>5. Timely'
  <2>1. until' <= clock' + Ttl /\ trust'[t].until <= clock' + Ttl
    BY <1>1, <1>3, <1>4 DEF LeaseTypeOK
  <2> QED BY <1>1, <1>3, <2>1 DEF Timely, NoStatement
<1>6. HeldOK'
  BY <1>1, HeldShrinks
<1>7. Consistent(t)'
  <2>1. LastHeld(t, trust[t].fence)
    BY <1>1 DEF Consistent
  <2>2. LastHeld(t, trust[t].fence)'
    BY <1>1, <1>3, <2>1 DEF LastHeld
  <2> QED BY <1>3, <2>2 DEF NoStatement, Consistent, Taking
<1>8. OthersAlone(t)
  BY <1>1, <1>3 DEF OthersAlone, LeaseTypeOK
<1>9. \A u \in Jobs : Kept(u)'
  <2>1. Kept(t)'
    BY <1>1, <1>3 DEF Kept
  <2>2. ASSUME NEW u \in Jobs, u # t PROVE ~Relies(u)'
    <3>1. ~Relies(u)
      BY <1>1, <2>2, OneTrusts DEF Kept, Relies
    <3> QED BY <1>1, <1>3, <2>2, <3>1 DEF Relies
  <2> QED BY <2>1, <2>2 DEF Kept
<1> QED BY <1>4, <1>5, <1>6, <1>7, <1>8, <1>9, OthersConsistent

\* A job that is told its lease is lost, or ends, relies on it no more.
LEMMA DistrustKeeps ==
  ASSUME LInv, NEW t \in Jobs, ExtendRefused(t) \/ Abandons(t)
  PROVE  LInv'
<1> USE DEF LInv
<1>1. /\ UNCHANGED <<clock, until, fence, held>>
      /\ statement' = [statement EXCEPT ![t] = NoStatement]
      /\ \E f \in {0, trust[t].fence} : trust' = [trust EXCEPT ![t] = [fence |-> f, until |-> 0]]
  BY DEF ExtendRefused, Abandons, Returns, Trusts, LeaseTypeOK
<1>2. LeaseTypeOK'
  BY <1>1 DEF LeaseTypeOK, NoStatement, Kinds
<1>3. Timely'
  BY <1>1, LeaseAssumption DEF LeaseTypeOK, Timely, NoStatement
<1>4. HeldOK'
  BY <1>1, HeldShrinks
<1>5. Consistent(t)'
  <2>1. statement'[t].kind = "none" /\ trust'[t].fence \in {0, trust[t].fence}
    BY <1>1 DEF LeaseTypeOK, NoStatement
  <2>2. trust[t].fence # 0 => LastHeld(t, trust[t].fence)
    BY DEF Consistent
  <2>3. trust'[t].fence # 0 => LastHeld(t, trust[t].fence)'
    BY <1>1, <2>1, <2>2 DEF LastHeld
  <2> QED BY <2>1, <2>3 DEF Consistent, Taking
<1>6. OthersAlone(t)
  BY <1>1 DEF OthersAlone, LeaseTypeOK
<1>7. \A u \in Jobs : Kept(u)'
  <2>1. \A u \in Jobs \ {t} : Kept(u)'
    BY <1>1, RowKept DEF LeaseTypeOK
  <2>2. Kept(t)'
    BY <1>1 DEF Kept, Relies, LeaseTypeOK
  <2> QED BY <2>1, <2>2
<1> QED BY <1>2, <1>3, <1>4, <1>5, <1>6, <1>7, OthersConsistent

\* What is to be released is held no more, by anybody.
LEMMA ReleasePreparedKeeps ==
  ASSUME LInv, NEW t \in Jobs, ReleasePrepared(t)
  PROVE  LInv'
<1> USE DEF LInv
<1> DEFINE own == [job |-> t, fence |-> trust[t].fence]
<1>1. /\ Entry(t) = own /\ trust[t].fence # 0 /\ own \in held[Home[t]] /\ Home[t] \in Nodes
      /\ UNCHANGED <<clock, until, fence>> /\ held \in [Nodes -> SUBSET Entries]
  BY EntryIsTrusted, LeaseAssumption DEF ReleasePrepared, Consistent, LastHeld, LeaseTypeOK
<1>2. /\ held' = [held EXCEPT ![Home[t]] = held[Home[t]] \ {own}]
      /\ statement' = [statement EXCEPT ![t] = [kind |-> "release", now |-> clock, fence |-> own.fence]]
      /\ trust' = [trust EXCEPT ![t] = [fence |-> 0, until |-> 0]]
  BY <1>1 DEF ReleasePrepared, Without, Prepares, Trusts
<1>3. own.fence \in Nat /\ own.fence <= fence
  BY <1>1 DEF HeldOK, LeaseTypeOK
<1>4. LeaseTypeOK'
  BY <1>1, <1>2, <1>3 DEF LeaseTypeOK, Kinds
<1>5. Timely'
  BY <1>1, <1>2, LeaseAssumption DEF LeaseTypeOK, Timely
<1>6. HeldOK'
  BY <1>1, <1>2, HeldShrinks
<1>7. Consistent(t)'
  <2>1. ASSUME NEW n \in Nodes, NEW e \in held'[n] PROVE e.fence # own.fence
    <3>1. e \in held[n] /\ (e = own => n # Home[t])
      BY <1>1, <1>2
    <3>2. e = own => n = Home[t]
      BY <3>1 DEF HeldOK
    <3> QED BY <1>1, <3>1, <3>2 DEF HeldOK
  <2>2. /\ trust'[t].fence = 0 /\ statement'[t].kind = "release"
        /\ statement'[t].fence = own.fence
    BY <1>2 DEF LeaseTypeOK
  <2> QED BY <1>1, <1>3, <2>1, <2>2 DEF Consistent, Taking
<1>8. OthersAlone(t)
  BY <1>1, <1>2 DEF OthersAlone, LeaseTypeOK
<1>9. \A u \in Jobs : Kept(u)'
  <2>1. \A u \in Jobs \ {t} : Kept(u)'
    BY <1>1, <1>2, RowKept DEF LeaseTypeOK
  <2>2. Kept(t)'
    BY <1>1, <1>2 DEF Kept, Relies, LeaseTypeOK
  <2> QED BY <2>1, <2>2
<1> QED BY <1>4, <1>5, <1>6, <1>7, <1>8, <1>9, OthersConsistent

\* A release ends the lease nobody holds, however late it comes.
LEMMA ReleasesKeeps ==
  ASSUME LInv, NEW t \in Jobs, Releases(t)
  PROVE  LInv'
<1> USE DEF LInv
<1>1. /\ UNCHANGED <<clock, fence, held, trust>> /\ statement[t].kind = "release"
      /\ statement' = [statement EXCEPT ![t] = NoStatement]
      /\ until' = until \/ (fence = statement[t].fence /\ until' = statement[t].now)
      /\ clock \in Nat /\ until \in Nat /\ statement[t].now \in Nat /\ statement[t].now <= clock
      /\ Ttl \in Nat
  BY LeaseAssumption DEF Releases, Returns, Mine, LeaseTypeOK, Timely
<1>2. LeaseTypeOK'
  BY <1>1 DEF LeaseTypeOK, NoStatement, Kinds
<1>3. Timely'
  BY <1>1 DEF LeaseTypeOK, Timely, NoStatement
<1>4. HeldOK'
  BY <1>1, HeldShrinks
<1>5. Consistent(t)'
  BY <1>1 DEF LeaseTypeOK, NoStatement, Consistent, LastHeld, Taking
<1>6. OthersAlone(t)
  BY <1>1 DEF OthersAlone, LeaseTypeOK
<1>7. ASSUME NEW u \in Jobs PROVE Kept(u)'
  <2>1. CASE until' = until
    BY <1>1, <2>1, RowKept DEF LeaseTypeOK
  <2>2. CASE fence = statement[t].fence
    <3>1. \A n \in Nodes : \A e \in held[n] : e.fence # fence
      BY <1>1, <2>2 DEF Consistent
    <3>2. trust[u].fence # fence \/ trust[u].fence = 0
      <4>1. trust[u].fence # 0 => [job |-> u, fence |-> trust[u].fence] \in held[Home[u]]
        BY DEF Consistent, LastHeld
      <4> QED BY <3>1, <4>1, LeaseAssumption
    <3>3. ~Relies(u)
      BY <3>2 DEF Kept, Relies
    <3> QED BY <1>1, <3>3 DEF Kept, Relies
  <2> QED BY <1>1, <2>1, <2>2
<1> QED BY <1>2, <1>3, <1>4, <1>5, <1>6, <1>7, OthersConsistent

\* stop ends a lease none of the node's jobs trusts, and nobody else can.
LEMMA StopReleasesKeeps ==
  ASSUME LInv, NEW n \in Nodes, StopReleases(n)
  PROVE  LInv'
<1> USE DEF LInv
<1>1. PICK e \in held[n] :
        /\ held' = [held EXCEPT ![n] = held[n] \ {e}]
        /\ until' = IF fence = e.fence /\ until > clock THEN clock ELSE until
  BY DEF StopReleases, Without
<1>2. /\ UNCHANGED <<clock, fence, statement, trust>> /\ held \in [Nodes -> SUBSET Entries]
      /\ \A t \in Jobs : Home[t] = n => statement[t].kind = "none" /\ trust[t].fence = 0
      /\ clock \in Nat /\ until \in Nat /\ Ttl \in Nat
  BY LeaseAssumption DEF StopReleases, Of, NoStatement, LeaseTypeOK
<1>3. LeaseTypeOK'
  BY <1>1, <1>2 DEF LeaseTypeOK
<1>4. Timely'
  BY <1>1, <1>2 DEF LeaseTypeOK, Timely
<1>5. HeldOK'
  BY <1>1, <1>2, HeldShrinks
<1>6. ASSUME NEW t \in Jobs PROVE Consistent(t)'
  <2>1. \A m \in Nodes : held'[m] \subseteq held[m]
    BY <1>1, <1>2
  <2>2. CASE Home[t] = n
    BY <1>2, <2>2 DEF Consistent, Taking
  <2>3. CASE Home[t] # n
    <3>1. held'[Home[t]] = held[Home[t]]
      BY <1>1, <1>2, <2>3, LeaseAssumption
    <3>2. Consistent(t)
      OBVIOUS
    <3> QED BY <1>2, <2>1, <3>1, <3>2 DEF Consistent, LastHeld, Taking
  <2> QED BY <2>2, <2>3
<1>7. ASSUME NEW t \in Jobs PROVE Kept(t)'
  <2>1. CASE until' = until
    BY <1>2, <2>1, RowKept DEF LeaseTypeOK
  <2>2. CASE fence = e.fence
    <3>1. trust[t].fence # 0 => trust[t].fence # fence
      <4> SUFFICES ASSUME trust[t].fence # 0, trust[t].fence = fence PROVE FALSE
        OBVIOUS
      <4>1. [job |-> t, fence |-> fence] \in held[Home[t]] /\ Home[t] \in Nodes
        BY LeaseAssumption DEF Consistent, LastHeld
      <4>2. e = [job |-> t, fence |-> fence]
        BY <2>2, <4>1 DEF HeldOK
      <4>3. Home[t] = n
        BY <4>2 DEF HeldOK
      <4> QED BY <4>3, <1>2
    <3>2. ~Relies(t)
      BY <3>1 DEF Kept, Relies
    <3> QED BY <1>2, <3>2 DEF Kept, Relies
  <2> QED BY <1>1, <2>1, <2>2
<1> QED BY <1>3, <1>4, <1>5, <1>6, <1>7

LEMMA NodeCrashKeeps ==
  ASSUME LInv, NEW n \in Nodes, NodeCrash(n)
  PROVE  LInv'
<1> USE DEF LInv
<1>1. /\ UNCHANGED <<clock, until, fence>> /\ held' = [held EXCEPT ![n] = {}]
      /\ held \in [Nodes -> SUBSET Entries]
      /\ \A t \in Jobs : IF Home[t] = n THEN statement'[t] = NoStatement /\ trust'[t] = NoLease
                         ELSE statement'[t] = statement[t] /\ trust'[t] = trust[t]
  BY DEF NodeCrash, LeaseTypeOK
<1>2. LeaseTypeOK'
  BY DEF NodeCrash, LeaseTypeOK, NoStatement, NoLease, Kinds
<1>3. Timely'
  BY <1>1, LeaseAssumption DEF LeaseTypeOK, Timely, NoStatement, NoLease
<1>4. HeldOK'
  BY <1>1, HeldShrinks
<1>5. ASSUME NEW t \in Jobs PROVE Consistent(t)'
  <2>1. \A m \in Nodes : held'[m] \subseteq held[m]
    BY <1>1
  <2>2. CASE Home[t] = n
    BY <1>1, <2>2 DEF Consistent, Taking, NoStatement, NoLease
  <2>3. CASE Home[t] # n
    <3>1. held'[Home[t]] = held[Home[t]] /\ statement'[t] = statement[t] /\ trust'[t] = trust[t]
      BY <1>1, <2>3, LeaseAssumption
    <3>2. Consistent(t)
      OBVIOUS
    <3> QED BY <1>1, <2>1, <3>1, <3>2 DEF Consistent, LastHeld, Taking
  <2> QED BY <2>2, <2>3
<1>6. ASSUME NEW t \in Jobs PROVE Kept(t)'
  <2>1. CASE Home[t] = n
    BY <1>1, <2>1 DEF Kept, Relies, NoLease
  <2>2. CASE Home[t] # n
    BY <1>1, <2>2, RowKept DEF LeaseTypeOK
  <2> QED BY <2>1, <2>2
<1> QED BY <1>2, <1>3, <1>4, <1>5, <1>6

LEMMA TickKeeps ==
  ASSUME LInv, LeaseTick
  PROVE  LInv'
<1> USE DEF LInv, LeaseTick
<1>1. LeaseTypeOK' /\ clock' \in Nat /\ clock <= clock'
  BY DEF LeaseTypeOK
<1>2. Timely'
  BY <1>1, LeaseAssumption DEF LeaseTypeOK, Timely
<1>3. HeldOK'
  BY HeldShrinks
<1>4. \A t \in Jobs : Consistent(t)'
  BY DEF Consistent, LastHeld, Taking
<1>5. \A t \in Jobs : Kept(t)'
  BY <1>1, RowKept
<1> QED BY <1>1, <1>2, <1>3, <1>4, <1>5

LEMMA LeaseStepKeepsLInv == LInv /\ [LeaseNext]_leaseVars => LInv'
<1> SUFFICES ASSUME LInv, [LeaseNext]_leaseVars PROVE LInv'
  OBVIOUS
<1>1. ASSUME NEW n \in Nodes, StopReleases(n) \/ NodeCrash(n) PROVE LInv'
  BY <1>1, StopReleasesKeeps, NodeCrashKeeps
<1>2. ASSUME NEW t \in Jobs,
             TakePrepared(t) \/ Takes(t) \/ TakeRefused(t) \/ TakesUnheard(t) \/ Confirmed(t) \/ NotKept(t)
      PROVE  LInv'
  BY <1>2, TakePreparedKeeps, TakesKeeps, ReturnsKeeps, ConfirmedKeeps
<1>3. ASSUME NEW t \in Jobs,
             \/ ExtendPrepared(t) \/ Extends(t) \/ ExtendRefused(t) \/ ReleasePrepared(t)
             \/ Releases(t) \/ Interrupted(t) \/ Abandons(t)
      PROVE  LInv'
  BY <1>3, ExtendPreparedKeeps, ExtendsKeeps, DistrustKeeps, ReleasePreparedKeeps, ReleasesKeeps, ReturnsKeeps
<1>4. CASE UNCHANGED leaseVars
  <2>1. UNCHANGED <<clock, until, fence, held, statement, trust>>
    BY <1>4 DEF leaseVars
  <2>2. LeaseTypeOK' /\ Timely' /\ HeldOK'
    BY <2>1 DEF LInv, LeaseTypeOK, Timely, HeldOK
  <2>3. \A t \in Jobs : Consistent(t)' /\ Kept(t)'
    BY <2>1 DEF LInv, Consistent, LastHeld, Taking, Kept, Relies
  <2> QED BY <2>2, <2>3 DEF LInv
<1> QED BY <1>1, <1>2, <1>3, <1>4, TickKeeps DEF LeaseNext

-------------------------------------------------------------------------------
(* The theorems. *)

LEMMA LInvAlways == LeaseSpec => []LInv
  BY InitLInv, LeaseStepKeepsLInv, PTL DEF LeaseSpec

\* The row, the acquisitions and the statements are what LeaseLock makes them.
THEOREM LeaseTypes == LeaseSpec => []LeaseTypeOK
  BY LInvAlways, PTL DEF LInv

\* At most one job relies on the lease, and the row holds it for that job at
\* least as long, for any jobs, nodes and ttl, whatever statement runs late, is
\* cancelled or crashes (_take, extend, release and stop).
THEOREM TheLeaseIsKept == LeaseSpec => []LeaseKept
<1>1. LInv => LeaseKept
  <2> SUFFICES ASSUME LInv, NEW t \in Jobs, Relies(t)
               PROVE  /\ fence = trust[t].fence /\ until >= trust[t].until
                      /\ \A u \in Jobs \ {t} : ~Relies(u)
    BY DEF LeaseKept
  <2>1. fence = trust[t].fence /\ until >= trust[t].until
    BY DEF LInv, Kept
  <2>2. ASSUME NEW u \in Jobs, Relies(u) PROVE u = t
    BY <2>1, <2>2, OneTrusts DEF LInv, Kept, Relies
  <2> QED BY <2>1, <2>2
<1> QED BY <1>1, LInvAlways, PTL

-------------------------------------------------------------------------------
(* The unit of work. *)

InFlight == {"writing", "opening", "release", "rollback"}
Ending == {"releasing", "release", "released", "unreleased", "rolling", "rollback", "rolled", "unrolled"}
Running == status \in {"ACTIVE", "COMPLETING"}

\* Who has the guard, and where the tasks are.
Guarded ==
  /\ \A t \in Tasks : pc[t] \in InFlight <=> guard = t
  /\ ~Running => guard = Free
  /\ \A t \in Tasks : pc[t] = "opening" => opened < MaxScopes
Placed ==
  /\ status = "COMPLETING" => pc[Root] = "completing"
  /\ pc[Root] # "new"
  /\ \A t \in Tasks : /\ pc[t] \in Ending => frames[t] # <<>>
                      /\ pc[t] \in {"new", "done", "completing"} => frames[t] = <<>>

\* What was opened so far bounds the scopes, and a task's are in the order it
\* opened them.
Numbered ==
  /\ depth <= opened /\ \A i \in DOMAIN levels : i <= opened
  /\ \A e \in savepoints : e.id <= opened
  /\ \A t \in Tasks :
       /\ \A s \in heldBy[t] \cup within[t] : s <= opened
       /\ \A i \in DOMAIN frames[t] : frames[t][i].id <= opened /\ frames[t][i].depth <= opened
       /\ \A i, j \in DOMAIN frames[t] : i < j => frames[t][i].id < frames[t][j].id
WritesNumbered ==
  \A i \in DOMAIN levels : \A w \in levels[i] : \A s \in w.under : s <= opened

\* A savepoint has one owner; a task holds another's only from before its own.
Owned ==
  /\ \A e, f \in savepoints : e.id = f.id => e = f
  /\ \A t \in Tasks, e \in savepoints :
       e.id \in heldBy[t] /\ e.owner # t =>
         t # Root /\ \A i \in DOMAIN frames[t] : e.id < frames[t][i].id

\* Until it completed, as long as it may commit.
Live == Running /\ MayCommit

\* A task in the last of its scopes, whose savepoint ended.
Resuming(t, i) == pc[t] \in {"released", "rolled"} /\ i = Len(frames[t])

\* The open scopes are those of the savepoints, which the connection has.
Opens ==
  /\ \A e \in savepoints :
       /\ e.id \in DOMAIN levels
       /\ \E i \in DOMAIN frames[e.owner] : frames[e.owner][i].id = e.id
  /\ \A t \in Tasks : \A i \in DOMAIN frames[t] :
       IF Resuming(t, i) THEN frames[t][i].id \notin DOMAIN levels
       ELSE [id |-> frames[t][i].id, owner |-> t] \in savepoints

\* A task that holds a savepoint is in its scope, and holds those below.
Holds ==
  \A t \in Tasks, e \in savepoints : e.id \in heldBy[t] =>
    /\ e.id \in Under(t)
    /\ \A f \in savepoints : f.id < e.id => f.id \in heldBy[t]

\* An operation runs in savepoints its task holds, an ending one on top.
OnTop ==
  \A t \in Tasks, e \in savepoints :
    /\ pc[t] \in InFlight => e.id \in heldBy[t]
    /\ pc[t] \in {"release", "rollback"} => e.id <= Scope(t).id

\* A write is under the open savepoints up to the one it was made in.
Inside ==
  \A j \in DOMAIN levels : \A w \in levels[j] :
    /\ \A e \in savepoints : e.id \in w.under <=> e.id <= j
    /\ \A t \in Tasks : pc[t] = "rolled" => Scope(t).id \notin w.under

LiveOK == Live => Opens /\ Holds /\ OnTop /\ Inside

\* No scope that is open is one that the writes are under.
NoneOpen(writes) ==
  \A t \in Tasks, w \in writes : \A i \in DOMAIN frames[t] :
    frames[t][i].id \in w.under => pc[t] = "released" /\ i = Len(frames[t])

\* The unit that commits, or did.
CommitOK ==
  /\ Running => committed = {}
  /\ NoneOpen(committed)
  /\ status = "COMPLETING" /\ ending = "commit" =>
       /\ NoneOpen(Everything)
       /\ \A t \in Tasks :
            /\ pc[t] \notin {"release", "rollback"}
            /\ pc[t] = "writing" =>
                 \A u \in Tasks : \A i \in DOMAIN frames[u] : frames[u][i].id \notin DOMAIN levels

UShape == UowTypeOK /\ Guarded /\ Placed /\ Numbered /\ WritesNumbered /\ Owned
UInv == UShape /\ LiveOK /\ CommitOK

-------------------------------------------------------------------------------
(* The innermost of what is open, and the scopes a task is in. *)

LEMMA Bounds == MaxScopes \in Nat /\ Free \notin Tasks /\ Root \in Tasks /\ Children \subseteq Tasks /\ Root \notin Children
  BY UowAssumption DEF Tasks

LEMMA Limit == MaxScopes \in Nat
  BY UowAssumption

LEMMA Smallest ==
  ASSUME NEW S \in SUBSET Nat, S # {}
  PROVE  \E x \in S : \A y \in S : x <= y
<1> DEFINE R == OpToRel(<, Nat)
<1>1. \A x, y \in Nat : <<y, x>> \in R <=> y < x
  BY Zenon DEF OpToRel
<1>2. IsWellFoundedOn(R, Nat)
  BY NatLessThanWellFounded, Zenon
<1> HIDE DEF R
<1>3. PICK x \in S : \A y \in S : <<y, x>> \notin R
  BY <1>2, WFMin, Zenon
<1>4. \A y \in S : ~(y < x)
  BY <1>1, <1>3, Zenon
<1> QED BY <1>4

LEMMA Greatest ==
  ASSUME NEW n \in Nat, NEW S \in SUBSET (0 .. n), S # {}
  PROVE  \E x \in S : \A y \in S : y <= x
<1> DEFINE T == {n - x : x \in S}
<1>1. T \subseteq Nat /\ T # {}
  <2>1. \A x \in S : n - x \in Nat
    OBVIOUS
  <2> QED BY <2>1
<1>2. PICK m \in T : \A k \in T : m <= k
  BY <1>1, Smallest
<1>3. PICK x \in S : m = n - x
  OBVIOUS
<1>4. ASSUME NEW y \in S PROVE y <= x
  <2>1. m <= n - y
    BY <1>2
  <2> QED BY <2>1, <1>3
<1> QED BY <1>4

LEMMA TopIs ==
  ASSUME NEW n \in Nat, NEW S \in SUBSET (0 .. n), S # {}
  PROVE  Max(S) \in S /\ \A y \in S : y <= Max(S)
<1>1. \E x \in S : \A y \in S : x >= y
  BY Greatest
<1> QED BY <1>1 DEF Max

LEMMA ScopeIs ==
  ASSUME UowTypeOK, NEW t \in Tasks, frames[t] # <<>>
  PROVE  /\ Len(frames[t]) \in Nat \ {0} /\ Len(frames[t]) \in DOMAIN frames[t]
         /\ Scope(t) = frames[t][Len(frames[t])]
         /\ Scope(t).id \in Scopes /\ Scope(t).depth \in Scopes
<1> DEFINE F == [id : Scopes, depth : Scopes]
<1>1. frames[t] \in Seq(F)
  BY DEF UowTypeOK
<1> HIDE DEF F
<1>2. Len(frames[t]) \in Nat \ {0} /\ Len(frames[t]) \in DOMAIN frames[t]
  BY <1>1
<1>3. Scope(t) = frames[t][Len(frames[t])]
  BY DEF Scope, Last
<1>4. frames[t][Len(frames[t])] \in F
  BY <1>1, <1>2
<1> QED BY <1>2, <1>3, <1>4 DEF F

\* The frames of t are without its last, those of the others are as they were.
LeftBy(t) ==
  /\ frames' \in [Tasks -> Seq([id : Scopes, depth : Scopes])]
  /\ Len(frames'[t]) = Len(frames[t]) - 1
  /\ \A u \in Tasks :
       /\ u # t => frames'[u] = frames[u]
       /\ DOMAIN frames'[u] \subseteq DOMAIN frames[u]
       /\ \A i \in DOMAIN frames'[u] :
            /\ frames'[u][i] = frames[u][i]
            /\ u = t => i # Len(frames[t])
       /\ \A i \in DOMAIN frames[u] : i \in DOMAIN frames'[u] \/ (u = t /\ i = Len(frames[t]))

LEMMA LeavesIs ==
  ASSUME UowTypeOK, NEW t \in Tasks, frames[t] # <<>>, Leaves(t)
  PROVE  LeftBy(t)
<1> DEFINE F == [id : Scopes, depth : Scopes]
<1>1. frames \in [Tasks -> Seq(F)] /\ frames[t] \in Seq(F)
  BY DEF UowTypeOK
<1>2. Front(frames[t]) = SubSeq(frames[t], 1, Len(frames[t]) - 1)
  BY DEF Front
<1>3. Len(frames[t]) \in Nat \ {0}
  BY ScopeIs
<1> HIDE DEF F
<1>4. /\ Front(frames[t]) \in Seq(F) /\ Len(Front(frames[t])) = Len(frames[t]) - 1
      /\ \A i \in 1 .. Len(frames[t]) - 1 : Front(frames[t])[i] = frames[t][i]
  <2>1. SubSeq(frames[t], 1, Len(frames[t]) - 1) = [i \in 1 .. Len(frames[t]) - 1 |-> frames[t][i]]
    BY <1>1, <1>3
  <2>2. \A i \in 1 .. Len(frames[t]) - 1 : frames[t][i] \in F
    BY <1>1, <1>3
  <2> QED BY <1>2, <1>3, <2>1, <2>2
<1>5. DOMAIN Front(frames[t]) = 1 .. Len(frames[t]) - 1 /\ DOMAIN frames[t] = 1 .. Len(frames[t])
  BY <1>1, <1>4
<1>6. frames' = [frames EXCEPT ![t] = Front(frames[t])]
  BY DEF Leaves
<1>7. frames' \in [Tasks -> Seq(F)]
  BY <1>1, <1>4, <1>6
<1>8. frames'[t] = Front(frames[t]) /\ \A u \in Tasks : u # t => frames'[u] = frames[u]
  BY <1>1, <1>6
<1>9. ASSUME NEW u \in Tasks
      PROVE  /\ DOMAIN frames'[u] \subseteq DOMAIN frames[u]
             /\ \A i \in DOMAIN frames'[u] :
                  /\ frames'[u][i] = frames[u][i]
                  /\ u = t => i # Len(frames[t])
             /\ \A i \in DOMAIN frames[u] : i \in DOMAIN frames'[u] \/ (u = t /\ i = Len(frames[t]))
  BY <1>3, <1>4, <1>5, <1>8
<1> QED BY <1>4, <1>7, <1>8, <1>9 DEF LeftBy, F

-------------------------------------------------------------------------------
(* What keeps the numbers, and what cannot be taken back. *)

LEMMA NumbersKept ==
  ASSUME UShape, depth' \in 0 .. opened, UNCHANGED <<levels, frames, heldBy, within, opened>>,
         savepoints' \subseteq savepoints
  PROVE  Numbered' /\ WritesNumbered' /\ Owned'
<1>1. Numbered'
  BY DEF UShape, Numbered
<1>2. WritesNumbered'
  BY DEF UShape, WritesNumbered
<1>3. Owned'
  BY DEF UShape, Owned
<1> QED BY <1>1, <1>2, <1>3

LEMMA NumbersLeft ==
  ASSUME UShape, depth' \in 0 .. opened, UNCHANGED <<levels, heldBy, within, opened>>,
         savepoints' \subseteq savepoints, NEW t \in Tasks, LeftBy(t)
  PROVE  Numbered' /\ WritesNumbered' /\ Owned'
<1>1. Numbered'
  BY DEF UShape, Numbered, LeftBy
<1>2. WritesNumbered'
  BY DEF UShape, WritesNumbered
<1>3. Owned'
  BY DEF UShape, Owned, LeftBy
<1> QED BY <1>1, <1>2, <1>3

LEMMA MarkedIs ==
  ASSUME UowTypeOK, NEW d \in 0 .. MaxScopes
  PROVE  Marked(d) \in 0 .. Unmarked /\ (mark = 0 => Marked(d) = 0)
<1>1. mark \in 0 .. MaxScopes + 1
  BY DEF UowTypeOK, Unmarked
<1> QED BY <1>1, Bounds DEF Marked, Unmarked

LEMMA ForgivenIs ==
  ASSUME UowTypeOK, NEW d \in Scopes
  PROVE  Forgiven(d) \in 0 .. Unmarked /\ (mark = 0 => Forgiven(d) = 0)
<1>1. mark \in 0 .. MaxScopes + 1
  BY DEF UowTypeOK, Unmarked
<1> QED BY <1>1, Bounds DEF Forgiven, Unmarked, MarkedWithin, RollbackOnly, Scopes

-------------------------------------------------------------------------------
(* Every step keeps the shape of the state. *)

\* A step that opens nothing and runs nothing on the connection.
Plain ==
  /\ UNCHANGED <<levels, committed, heldBy, within, opened>>
  /\ savepoints' \subseteq savepoints
  /\ depth' \in 0 .. opened /\ mark' \in 0 .. Unmarked
  /\ poisoned' \in BOOLEAN /\ unforgiven' \in BOOLEAN
  /\ status' \in {"ACTIVE", "COMPLETING", "COMMITTED", "ROLLED_BACK", "UNKNOWN"}
  /\ ending' \in {"", "commit", "rollback"}
  /\ guard' \in Tasks \cup {Free} /\ pc' \in [Tasks -> Where]

\* What of the state's types the steps rely on.
LEMMA TypesAre ==
  ASSUME UShape
  PROVE  /\ status \in {"ACTIVE", "COMPLETING", "COMMITTED", "ROLLED_BACK", "UNKNOWN"}
         /\ ending \in {"", "commit", "rollback"} /\ mark \in 0 .. Unmarked
         /\ depth \in 0 .. MaxScopes /\ depth \in 0 .. opened /\ opened \in 0 .. MaxScopes
         /\ poisoned \in BOOLEAN /\ unforgiven \in BOOLEAN
         /\ guard \in Tasks \cup {Free} /\ pc \in [Tasks -> Where]
<1>1. UowTypeOK /\ depth <= opened
  BY DEF UShape, Numbered
<1>2. depth \in 0 .. MaxScopes /\ opened \in 0 .. MaxScopes
  BY <1>1 DEF UowTypeOK
<1>3. depth \in 0 .. opened
  BY <1>1, <1>2, Bounds
<1> QED BY <1>1, <1>2, <1>3 DEF UowTypeOK

LEMMA PlainKeeps ==
  ASSUME UShape, Plain, UNCHANGED frames
  PROVE  UowTypeOK' /\ Numbered' /\ WritesNumbered' /\ Owned'
<1>1. UowTypeOK'
  <2>1. /\ status' \in {"ACTIVE", "COMPLETING", "COMMITTED", "ROLLED_BACK", "UNKNOWN"}
        /\ ending' \in {"", "commit", "rollback"}
        /\ mark' \in 0 .. Unmarked /\ poisoned' \in BOOLEAN /\ unforgiven' \in BOOLEAN
        /\ guard' \in Tasks \cup {Free} /\ pc' \in [Tasks -> Where]
    BY DEF Plain
  <2>2. depth' \in 0 .. MaxScopes /\ opened' \in 0 .. MaxScopes
    <3>1. depth' \in 0 .. opened /\ opened' = opened
      BY DEF Plain
    <3>2. opened \in 0 .. MaxScopes
      BY TypesAre
    <3> QED BY <3>1, <3>2, Bounds
  <2>3. savepoints' \subseteq [id : Scopes, owner : Tasks]
    BY DEF UShape, UowTypeOK, Plain
  <2>4. /\ levels' \in [DOMAIN levels' -> SUBSET Writes] /\ 0 \in DOMAIN levels'
        /\ DOMAIN levels' \subseteq 0 .. MaxScopes /\ committed' \subseteq Writes
    BY DEF UShape, UowTypeOK, Plain
  <2>5. /\ frames' \in [Tasks -> Seq([id : Scopes, depth : Scopes])]
        /\ heldBy' \in [Tasks -> SUBSET Scopes] /\ within' \in [Tasks -> SUBSET Scopes]
    BY DEF UShape, UowTypeOK, Plain
  <2> QED BY <2>1, <2>2, <2>3, <2>4, <2>5 DEF UowTypeOK
<1> QED BY <1>1, NumbersKept DEF Plain

LEMMA PlainLeaves ==
  ASSUME UShape, Plain, NEW t \in Tasks, LeftBy(t)
  PROVE  UowTypeOK' /\ Numbered' /\ WritesNumbered' /\ Owned'
<1>1. UowTypeOK'
  <2>1. /\ status' \in {"ACTIVE", "COMPLETING", "COMMITTED", "ROLLED_BACK", "UNKNOWN"}
        /\ ending' \in {"", "commit", "rollback"}
        /\ mark' \in 0 .. Unmarked /\ poisoned' \in BOOLEAN /\ unforgiven' \in BOOLEAN
        /\ guard' \in Tasks \cup {Free} /\ pc' \in [Tasks -> Where]
    BY DEF Plain
  <2>2. depth' \in 0 .. MaxScopes /\ opened' \in 0 .. MaxScopes
    <3>1. depth' \in 0 .. opened /\ opened' = opened
      BY DEF Plain
    <3>2. opened \in 0 .. MaxScopes
      BY TypesAre
    <3> QED BY <3>1, <3>2, Bounds
  <2>3. savepoints' \subseteq [id : Scopes, owner : Tasks]
    BY DEF UShape, UowTypeOK, Plain
  <2>4. /\ levels' \in [DOMAIN levels' -> SUBSET Writes] /\ 0 \in DOMAIN levels'
        /\ DOMAIN levels' \subseteq 0 .. MaxScopes /\ committed' \subseteq Writes
    BY DEF UShape, UowTypeOK, Plain
  <2>5. /\ frames' \in [Tasks -> Seq([id : Scopes, depth : Scopes])]
        /\ heldBy' \in [Tasks -> SUBSET Scopes] /\ within' \in [Tasks -> SUBSET Scopes]
    BY DEF UShape, UowTypeOK, Plain, LeftBy
  <2> QED BY <2>1, <2>2, <2>3, <2>4, <2>5 DEF UowTypeOK
<1> QED BY <1>1, NumbersLeft DEF Plain

LEMMA GoesIs ==
  ASSUME UShape, NEW t \in Tasks, NEW where, pc' = [pc EXCEPT ![t] = where]
  PROVE  \A u \in Tasks : pc'[u] = IF u = t THEN where ELSE pc[u]
<1>1. pc \in [Tasks -> Where]
  BY TypesAre
<1> QED BY <1>1

LEMMA DepthIs ==
  ASSUME UShape, NEW t \in Tasks, frames[t] # <<>>
  PROVE  /\ Scope(t).depth \in Scopes /\ Scope(t).depth <= opened /\ Scope(t).id <= opened
         /\ Scope(t).depth - 1 \in 0 .. opened /\ Scope(t).depth - 1 \in 0 .. MaxScopes
<1>1. Scope(t).depth \in Scopes /\ Scope(t).depth <= opened /\ Scope(t).id <= opened
  BY ScopeIs DEF UShape, Numbered
<1>2. opened \in 0 .. MaxScopes
  BY TypesAre
<1> QED BY <1>1, <1>2, Bounds DEF Scopes

LEMMA ClosedIs == Closed({}) \subseteq savepoints /\ \A ids : Closed(ids) \subseteq savepoints
  BY DEF Closed

LEMMA TaskEndsShape ==
  ASSUME UShape, NEW t \in Tasks, TaskEnds(t)
  PROVE  UShape'
<1>1. UNCHANGED frames
  BY DEF TaskEnds, unitState, connection, ghosts, Goes
<1>2. Plain
  BY TypesAre, MarkedIs, ForgivenIs, ClosedIs, Bounds DEF Plain, Where, UShape, TaskEnds, unitState, connection, ghosts, Goes
<1>3. Guarded'
  BY TypesAre, Bounds DEF UShape, Guarded, InFlight, Running, TaskEnds, unitState, connection, ghosts, Goes
<1>4. Placed'
  BY <1>1, TypesAre, Bounds DEF UShape, Placed, Ending, TaskEnds, unitState, connection, ghosts, Goes
<1> QED BY <1>1, <1>2, <1>3, <1>4, PlainKeeps DEF UShape

LEMMA StatementFailsShape ==
  ASSUME UShape, NEW t \in Tasks, StatementFails(t)
  PROVE  UShape'
<1>1. UNCHANGED frames
  BY DEF StatementFails, connection, ghosts, Goes
<1>2. Plain
  BY TypesAre, MarkedIs, ForgivenIs, ClosedIs, Bounds DEF Plain, Where, UShape, StatementFails, connection, ghosts, Goes
<1>3. Guarded'
  BY TypesAre, Bounds DEF UShape, Guarded, InFlight, Running, StatementFails, connection, ghosts, Goes
<1>4. Placed'
  BY <1>1, TypesAre, Bounds DEF UShape, Placed, Ending, StatementFails, connection, ghosts, Goes
<1> QED BY <1>1, <1>2, <1>3, <1>4, PlainKeeps DEF UShape

LEMMA OperationCancelledShape ==
  ASSUME UShape, NEW t \in Tasks, OperationCancelled(t)
  PROVE  UShape'
<1>1. UNCHANGED frames
  BY DEF OperationCancelled, connection, ghosts, Goes
<1>2. Plain
  BY TypesAre, MarkedIs, ForgivenIs, ClosedIs, Bounds DEF Plain, Where, UShape, OperationCancelled, connection, ghosts, Goes
<1>3. Guarded'
  BY TypesAre, Bounds DEF UShape, Guarded, InFlight, Running, OperationCancelled, connection, ghosts, Goes
<1>4. Placed'
  BY <1>1, TypesAre, Bounds DEF UShape, Placed, Ending, OperationCancelled, connection, ghosts, Goes
<1> QED BY <1>1, <1>2, <1>3, <1>4, PlainKeeps DEF UShape

LEMMA ParticipantFailsShape ==
  ASSUME UShape, NEW t \in Tasks, ParticipantFails(t)
  PROVE  UShape'
<1>1. UNCHANGED frames
  BY DEF ParticipantFails, connection
<1>2. Plain
  BY TypesAre, MarkedIs, ForgivenIs, ClosedIs, Bounds DEF Plain, Where, UShape, ParticipantFails, connection
<1>3. Guarded'
  BY TypesAre, Bounds DEF UShape, Guarded, InFlight, Running, ParticipantFails, connection
<1>4. Placed'
  BY <1>1, TypesAre, Bounds DEF UShape, Placed, Ending, ParticipantFails, connection
<1> QED BY <1>1, <1>2, <1>3, <1>4, PlainKeeps DEF UShape

LEMMA WriteBeginsShape ==
  ASSUME UShape, NEW t \in Tasks, WriteBegins(t)
  PROVE  UShape'
<1>1. UNCHANGED frames
  BY DEF WriteBegins, OperationBegins, Usable, unitState, connection, ghosts, Goes
<1>2. Plain
  BY TypesAre, MarkedIs, ForgivenIs, ClosedIs, Bounds DEF Plain, Where, UShape, WriteBegins, OperationBegins, Usable, unitState, connection, ghosts, Goes
<1>3. Guarded'
  BY TypesAre, Bounds DEF UShape, Guarded, InFlight, Running, WriteBegins, OperationBegins, Usable, unitState, connection, ghosts, Goes
<1>4. Placed'
  BY <1>1, TypesAre, Bounds DEF UShape, Placed, Ending, WriteBegins, OperationBegins, Usable, unitState, connection, ghosts, Goes
<1> QED BY <1>1, <1>2, <1>3, <1>4, PlainKeeps DEF UShape

LEMMA NestedBeginsShape ==
  ASSUME UShape, NEW t \in Tasks, NestedBegins(t)
  PROVE  UShape'
<1>1. UNCHANGED frames
  BY DEF NestedBegins, OperationBegins, Usable, unitState, connection, ghosts, Goes
<1>2. Plain
  BY TypesAre, MarkedIs, ForgivenIs, ClosedIs, Bounds DEF Plain, Where, UShape, NestedBegins, OperationBegins, Usable, unitState, connection, ghosts, Goes
<1>3. Guarded'
  BY TypesAre, Bounds DEF UShape, Guarded, InFlight, Running, NestedBegins, OperationBegins, Usable, unitState, connection, ghosts, Goes
<1>4. Placed'
  BY <1>1, TypesAre, Bounds DEF UShape, Placed, Ending, NestedBegins, OperationBegins, Usable, unitState, connection, ghosts, Goes
<1> QED BY <1>1, <1>2, <1>3, <1>4, PlainKeeps DEF UShape

LEMMA ReleaseBeginsShape ==
  ASSUME UShape, NEW t \in Tasks, ReleaseBegins(t)
  PROVE  UShape'
<1>1. UNCHANGED frames
  BY DEF ReleaseBegins, OperationBegins, Usable, unitState, connection, ghosts, Goes
<1>2. Plain
  BY TypesAre, MarkedIs, ForgivenIs, ClosedIs, Bounds DEF Plain, Where, UShape, ReleaseBegins, OperationBegins, Usable, unitState, connection, ghosts, Goes
<1>3. Guarded'
  BY TypesAre, Bounds DEF UShape, Guarded, InFlight, Running, ReleaseBegins, OperationBegins, Usable, unitState, connection, ghosts, Goes
<1>4. Placed'
  BY <1>1, TypesAre, Bounds DEF UShape, Placed, Ending, ReleaseBegins, OperationBegins, Usable, unitState, connection, ghosts, Goes
<1> QED BY <1>1, <1>2, <1>3, <1>4, PlainKeeps DEF UShape

LEMMA RollbackBeginsShape ==
  ASSUME UShape, NEW t \in Tasks, RollbackBegins(t)
  PROVE  UShape'
<1>1. UNCHANGED frames
  BY DEF RollbackBegins, OperationBegins, Usable, unitState, connection, ghosts, Goes
<1>2. Plain
  BY TypesAre, MarkedIs, ForgivenIs, ClosedIs, Bounds DEF Plain, Where, UShape, RollbackBegins, OperationBegins, Usable, unitState, connection, ghosts, Goes
<1>3. Guarded'
  BY TypesAre, Bounds DEF UShape, Guarded, InFlight, Running, RollbackBegins, OperationBegins, Usable, unitState, connection, ghosts, Goes
<1>4. Placed'
  BY <1>1, TypesAre, Bounds DEF UShape, Placed, Ending, RollbackBegins, OperationBegins, Usable, unitState, connection, ghosts, Goes
<1> QED BY <1>1, <1>2, <1>3, <1>4, PlainKeeps DEF UShape

LEMMA NestedReturnsShape ==
  ASSUME UShape, NEW t \in Tasks, NestedReturns(t)
  PROVE  UShape'
<1>1. UNCHANGED frames
  BY DEF NestedReturns, ScopeEnding, unitState, connection, ghosts, Goes
<1>2. Plain
  BY TypesAre, MarkedIs, ForgivenIs, ClosedIs, Bounds DEF Plain, Where, UShape, NestedReturns, ScopeEnding, unitState, connection, ghosts, Goes
<1>3. Guarded'
  BY TypesAre, Bounds DEF UShape, Guarded, InFlight, Running, NestedReturns, ScopeEnding, unitState, connection, ghosts, Goes
<1>4. Placed'
  BY <1>1, TypesAre, Bounds DEF UShape, Placed, Ending, NestedReturns, ScopeEnding, unitState, connection, ghosts, Goes
<1> QED BY <1>1, <1>2, <1>3, <1>4, PlainKeeps DEF UShape

LEMMA NestedFailsShape ==
  ASSUME UShape, NEW t \in Tasks, NestedFails(t)
  PROVE  UShape'
<1>0. frames[t] # <<>>
  BY DEF NestedFails, ScopeEnding, connection, ghosts, Goes
<1>1. UNCHANGED frames
  BY DEF NestedFails, ScopeEnding, connection, ghosts, Goes
<1>2. Plain
  BY <1>0, DepthIs, TypesAre, MarkedIs, ForgivenIs, ClosedIs, Bounds DEF Plain, Where, UShape, NestedFails, ScopeEnding, connection, ghosts, Goes
<1>3. Guarded'
  BY TypesAre, Bounds DEF UShape, Guarded, InFlight, Running, NestedFails, ScopeEnding, connection, ghosts, Goes
<1>4. Placed'
  BY <1>1, TypesAre, Bounds DEF UShape, Placed, Ending, NestedFails, ScopeEnding, connection, ghosts, Goes
<1> QED BY <1>1, <1>2, <1>3, <1>4, PlainKeeps DEF UShape

LEMMA EndingRefusedShape ==
  ASSUME UShape, NEW t \in Tasks, EndingRefused(t)
  PROVE  UShape'
<1>1. UNCHANGED frames
  BY DEF EndingRefused, unitState, connection, ghosts, Goes
<1>2. Plain
  BY TypesAre, MarkedIs, ForgivenIs, ClosedIs, Bounds DEF Plain, Where, UShape, EndingRefused, unitState, connection, ghosts, Goes
<1>3. Guarded'
  BY TypesAre, Bounds DEF UShape, Guarded, InFlight, Running, EndingRefused, unitState, connection, ghosts, Goes
<1>4. Placed'
  BY <1>1, TypesAre, Bounds DEF UShape, Placed, Ending, EndingRefused, unitState, connection, ghosts, Goes
<1> QED BY <1>1, <1>2, <1>3, <1>4, PlainKeeps DEF UShape

LEMMA BoundaryReturnsShape ==
  ASSUME UShape, BoundaryReturns
  PROVE  UShape'
<1>1. UNCHANGED frames
  BY DEF BoundaryReturns, BoundaryEnds, Completed, connection, ghosts, Goes
<1>2. Plain
  <2>1. 0 \in 0 .. Unmarked
    BY Bounds DEF Unmarked
  <2> QED BY <2>1, TypesAre, MarkedIs, ForgivenIs, ClosedIs, Bounds DEF Plain, Where, UShape, BoundaryReturns, BoundaryEnds, Completed, connection, ghosts, Goes
<1>3. Guarded'
  BY TypesAre, Bounds DEF UShape, Guarded, InFlight, Running, BoundaryReturns, BoundaryEnds, Completed, connection, ghosts, Goes
<1>4. Placed'
  BY <1>1, TypesAre, Bounds DEF UShape, Placed, Ending, BoundaryReturns, BoundaryEnds, Completed, connection, ghosts, Goes
<1> QED BY <1>1, <1>2, <1>3, <1>4, PlainKeeps DEF UShape

LEMMA BoundaryFailsShape ==
  ASSUME UShape, BoundaryFails
  PROVE  UShape'
<1>1. UNCHANGED frames
  BY DEF BoundaryFails, BoundaryEnds, Completed, connection, ghosts, Goes
<1>2. Plain
  BY TypesAre, MarkedIs, ForgivenIs, ClosedIs, Bounds DEF Plain, Where, UShape, BoundaryFails, BoundaryEnds, Completed, connection, ghosts, Goes
<1>3. Guarded'
  BY TypesAre, Bounds DEF UShape, Guarded, InFlight, Running, BoundaryFails, BoundaryEnds, Completed, connection, ghosts, Goes
<1>4. Placed'
  BY <1>1, TypesAre, Bounds DEF UShape, Placed, Ending, BoundaryFails, BoundaryEnds, Completed, connection, ghosts, Goes
<1> QED BY <1>1, <1>2, <1>3, <1>4, PlainKeeps DEF UShape

LEMMA EndsPoisonedShape ==
  ASSUME UShape, NEW t \in Tasks, EndsPoisoned(t)
  PROVE  UShape' /\ LeftBy(t)
<1>0. frames[t] # <<>>
  BY DEF UShape, Placed, Ending, EndsPoisoned, ScopeEnding, connection, ghosts
<1>1. LeftBy(t)
  BY <1>0, LeavesIs DEF UShape, EndsPoisoned, ScopeEnding, connection, ghosts
<1>2. Plain
  BY <1>0, DepthIs, TypesAre, MarkedIs, ForgivenIs, ClosedIs, Bounds DEF Plain, Where, UShape, EndsPoisoned, ScopeEnding, connection, ghosts
<1>3. Guarded'
  BY TypesAre, Bounds DEF UShape, Guarded, InFlight, Running, EndsPoisoned, ScopeEnding, connection, ghosts
<1>4. Placed'
  BY <1>1, TypesAre, Bounds DEF UShape, Placed, Ending, LeftBy, EndsPoisoned, ScopeEnding, connection, ghosts
<1> QED BY <1>1, <1>2, <1>3, <1>4, PlainLeaves DEF UShape

LEMMA EndRefusedShape ==
  ASSUME UShape, NEW t \in Tasks, EndRefused(t)
  PROVE  UShape' /\ LeftBy(t)
<1>0. frames[t] # <<>>
  BY DEF UShape, Placed, Ending, EndRefused, ScopeEnding, connection, ghosts
<1>1. LeftBy(t)
  BY <1>0, LeavesIs DEF UShape, EndRefused, ScopeEnding, connection, ghosts
<1>2. Plain
  <2>1. 0 \in 0 .. Unmarked
    BY Bounds DEF Unmarked
  <2>2. depth' \in 0 .. opened
    BY <1>0, DepthIs, TypesAre DEF EndRefused
  <2> QED BY <2>1, <2>2, TypesAre, MarkedIs, ForgivenIs, ClosedIs, Bounds DEF Plain, Where, UShape, EndRefused, ScopeEnding, connection, ghosts
<1>3. Guarded'
  BY TypesAre, Bounds DEF UShape, Guarded, InFlight, Running, EndRefused, ScopeEnding, connection, ghosts
<1>4. Placed'
  BY <1>1, TypesAre, Bounds DEF UShape, Placed, Ending, LeftBy, EndRefused, ScopeEnding, connection, ghosts
<1> QED BY <1>1, <1>2, <1>3, <1>4, PlainLeaves DEF UShape

LEMMA AfterReleaseShape ==
  ASSUME UShape, NEW t \in Tasks, AfterRelease(t)
  PROVE  UShape' /\ LeftBy(t)
<1>0. frames[t] # <<>>
  BY DEF UShape, Placed, Ending, AfterRelease, ScopeLeft, connection, ghosts, Goes
<1>1. LeftBy(t)
  BY <1>0, LeavesIs DEF UShape, AfterRelease, ScopeLeft, connection, ghosts, Goes
<1>2. Plain
  BY <1>0, DepthIs, TypesAre, MarkedIs, ForgivenIs, ClosedIs, Bounds DEF Plain, Where, UShape, AfterRelease, ScopeLeft, connection, ghosts, Goes
<1>3. Guarded'
  BY TypesAre, Bounds DEF UShape, Guarded, InFlight, Running, AfterRelease, ScopeLeft, connection, ghosts, Goes
<1>4. Placed'
  BY <1>1, TypesAre, Bounds DEF UShape, Placed, Ending, LeftBy, AfterRelease, ScopeLeft, connection, ghosts, Goes
<1> QED BY <1>1, <1>2, <1>3, <1>4, PlainLeaves DEF UShape

LEMMA AfterRollbackShape ==
  ASSUME UShape, NEW t \in Tasks, AfterRollback(t)
  PROVE  UShape' /\ LeftBy(t)
<1>0. frames[t] # <<>>
  BY DEF UShape, Placed, Ending, AfterRollback, ScopeLeft, connection, ghosts, Goes
<1>1. LeftBy(t)
  BY <1>0, LeavesIs DEF UShape, AfterRollback, ScopeLeft, connection, ghosts, Goes
<1>2. Plain
  BY <1>0, DepthIs, TypesAre, MarkedIs, ForgivenIs, ClosedIs, Bounds DEF Plain, Where, UShape, AfterRollback, ScopeLeft, connection, ghosts, Goes
<1>3. Guarded'
  BY TypesAre, Bounds DEF UShape, Guarded, InFlight, Running, AfterRollback, ScopeLeft, connection, ghosts, Goes
<1>4. Placed'
  BY <1>1, TypesAre, Bounds DEF UShape, Placed, Ending, LeftBy, AfterRollback, ScopeLeft, connection, ghosts, Goes
<1> QED BY <1>1, <1>2, <1>3, <1>4, PlainLeaves DEF UShape

LEMMA AfterRefusedRollbackShape ==
  ASSUME UShape, NEW t \in Tasks, AfterRefusedRollback(t)
  PROVE  UShape' /\ LeftBy(t)
<1>0. frames[t] # <<>>
  BY DEF UShape, Placed, Ending, AfterRefusedRollback, ScopeLeft, connection, ghosts, Goes
<1>1. LeftBy(t)
  BY <1>0, LeavesIs DEF UShape, AfterRefusedRollback, ScopeLeft, connection, ghosts, Goes
<1>2. Plain
  BY <1>0, DepthIs, TypesAre, MarkedIs, ForgivenIs, ClosedIs, Bounds DEF Plain, Where, UShape, AfterRefusedRollback, ScopeLeft, connection, ghosts, Goes
<1>3. Guarded'
  BY TypesAre, Bounds DEF UShape, Guarded, InFlight, Running, AfterRefusedRollback, ScopeLeft, connection, ghosts, Goes
<1>4. Placed'
  BY <1>1, TypesAre, Bounds DEF UShape, Placed, Ending, LeftBy, AfterRefusedRollback, ScopeLeft, connection, ghosts, Goes
<1> QED BY <1>1, <1>2, <1>3, <1>4, PlainLeaves DEF UShape

-------------------------------------------------------------------------------
(* The steps that run on the connection, start a task or end the unit. *)

LEMMA InnermostLevel ==
  ASSUME UShape
  PROVE  Max(DOMAIN levels) \in DOMAIN levels /\ \A j \in DOMAIN levels : j <= Max(DOMAIN levels)
<1>1. DOMAIN levels \in SUBSET (0 .. MaxScopes) /\ DOMAIN levels # {}
  BY DEF UShape, UowTypeOK
<1> HIDE DEF UShape
<1> QED BY <1>1, TopIs, Bounds

LEMMA UnderIs ==
  ASSUME UShape, NEW t \in Tasks
  PROVE  Under(t) \subseteq Scopes /\ \A s \in Under(t) : s <= opened
<1> DEFINE F == [id : Scopes, depth : Scopes]
<1>1. frames[t] \in Seq(F) /\ within[t] \subseteq Scopes
  BY DEF UShape, UowTypeOK
<1> HIDE DEF F
<1>2. \A i \in DOMAIN frames[t] : frames[t][i] \in F
  BY <1>1
<1>3. \A i \in DOMAIN frames[t] : frames[t][i].id \in Scopes
  BY <1>2 DEF F
<1>4. \A i \in DOMAIN frames[t] : frames[t][i].id <= opened
  BY DEF UShape, Numbered
<1>5. \A s \in within[t] : s <= opened
  BY DEF UShape, Numbered
<1> QED BY <1>1, <1>3, <1>4, <1>5 DEF Under

LEMMA WriteIs ==
  ASSUME UShape, NEW t \in Tasks
  PROVE  /\ Write(t) \in Writes /\ Write(t).under = Under(t) \cap DOMAIN levels
         /\ \A s \in Write(t).under : s <= opened
  BY UnderIs DEF Write, Writes

\* The levels below the scope t ends, and what WritesFrom gathers.
LEMMA BelowIs ==
  ASSUME UShape, NEW t \in Tasks, frames[t] # <<>>
  PROVE  /\ Scope(t).id \in Scopes
         /\ DOMAIN Below(Scope(t).id) = {i \in DOMAIN levels : i < Scope(t).id}
         /\ \A i \in DOMAIN Below(Scope(t).id) : Below(Scope(t).id)[i] = levels[i]
         /\ Below(Scope(t).id) \in [DOMAIN Below(Scope(t).id) -> SUBSET Writes]
         /\ 0 \in DOMAIN Below(Scope(t).id)
         /\ Max(DOMAIN Below(Scope(t).id)) \in DOMAIN Below(Scope(t).id)
         /\ \A i \in DOMAIN Below(Scope(t).id) : i <= Max(DOMAIN Below(Scope(t).id))
         /\ WritesFrom(Scope(t).id) \subseteq Writes
         /\ \A w : w \in WritesFrom(Scope(t).id) <=>
                     \E j \in DOMAIN levels : j >= Scope(t).id /\ w \in levels[j]
<1> DEFINE s == Scope(t).id
           b == Below(s)
<1>1. s \in Scopes
  BY ScopeIs DEF UShape
<1>2. /\ levels \in [DOMAIN levels -> SUBSET Writes] /\ 0 \in DOMAIN levels
      /\ DOMAIN levels \subseteq 0 .. MaxScopes
  BY DEF UShape, UowTypeOK
<1> HIDE DEF s
<1>3. b = [i \in DOMAIN levels \ From(s) |-> levels[i]]
  BY DEF Below, Restrict
<1>4. DOMAIN levels \ From(s) = {i \in DOMAIN levels : i < s}
  BY <1>1, <1>2, Bounds DEF From, Scopes
<1>5. /\ DOMAIN b = {i \in DOMAIN levels : i < s} /\ \A i \in DOMAIN b : b[i] = levels[i]
      /\ b \in [DOMAIN b -> SUBSET Writes]
  <2> HIDE DEF b
  <2>1. DOMAIN b = {i \in DOMAIN levels : i < s} /\ \A i \in DOMAIN b : b[i] = levels[i]
    BY <1>3, <1>4
  <2> QED BY <2>1, <1>2, <1>3, <1>4
<1> HIDE DEF b
<1>6. 0 \in DOMAIN b
  BY <1>1, <1>2, <1>5, Bounds DEF Scopes
<1>7. DOMAIN b \in SUBSET (0 .. MaxScopes) /\ DOMAIN b # {}
  BY <1>2, <1>5, <1>6
<1>8. Max(DOMAIN b) \in DOMAIN b /\ \A i \in DOMAIN b : i <= Max(DOMAIN b)
  BY <1>7, TopIs, Bounds
<1>9. \A w : w \in WritesFrom(s) <=> \E j \in DOMAIN levels : j >= s /\ w \in levels[j]
  BY DEF WritesFrom, From
<1>10. WritesFrom(s) \subseteq Writes
  BY <1>2, <1>9
<1> QED BY <1>1, <1>5, <1>6, <1>8, <1>9, <1>10 DEF s, b

\* What a release makes of the levels.
Merged(t) ==
  LET s == Scope(t).id
      m == Max({i \in DOMAIN levels : i < s})
  IN  /\ levels' \in [DOMAIN levels' -> SUBSET Writes]
      /\ DOMAIN levels' = {i \in DOMAIN levels : i < s}
      /\ m \in DOMAIN levels' /\ \A i \in DOMAIN levels' : i <= m
      /\ \A i \in DOMAIN levels' :
           levels'[i] = IF i = m THEN levels[i] \cup WritesFrom(s) ELSE levels[i]

LEMMA ReleasesIs ==
  ASSUME UShape, NEW t \in Tasks, frames[t] # <<>>, ReleaseRuns(t)
  PROVE  Merged(t)
<1> DEFINE s == Scope(t).id
           b == Below(s)
           m == Max(DOMAIN b)
<1>1. /\ DOMAIN b = {i \in DOMAIN levels : i < s} /\ \A i \in DOMAIN b : b[i] = levels[i]
      /\ b \in [DOMAIN b -> SUBSET Writes]
      /\ m \in DOMAIN b /\ \A i \in DOMAIN b : i <= m
      /\ WritesFrom(s) \subseteq Writes
  BY BelowIs
<1>2. levels' = [b EXCEPT ![m] = @ \cup WritesFrom(s)]
  BY DEF ReleaseRuns
<1>3. m = Max({i \in DOMAIN levels : i < s})
  BY <1>1
<1> HIDE DEF s, b, m
<1>4. /\ DOMAIN levels' = DOMAIN b
      /\ \A i \in DOMAIN b : levels'[i] = IF i = m THEN b[i] \cup WritesFrom(s) ELSE b[i]
      /\ levels' \in [DOMAIN levels' -> SUBSET Writes]
  BY <1>1, <1>2
<1>5. \A i \in DOMAIN levels' : levels'[i] = IF i = m THEN levels[i] \cup WritesFrom(s) ELSE levels[i]
  BY <1>1, <1>4
<1> QED BY <1>1, <1>3, <1>4, <1>5 DEF Merged, s

LEMMA ReleaseFailsIs ==
  ASSUME UShape, NEW t \in Tasks, frames[t] # <<>>, ReleaseFails(t)
  PROVE  /\ levels' \in [DOMAIN levels' -> SUBSET Writes]
         /\ DOMAIN levels' = {i \in DOMAIN levels : i < Scope(t).id} \cup {Scope(t).id}
         /\ levels'[Scope(t).id] = {}
         /\ \A i \in DOMAIN levels : i < Scope(t).id => levels'[i] = levels[i]
<1> DEFINE s == Scope(t).id
           b == Below(s)
<1>1. /\ DOMAIN b = {i \in DOMAIN levels : i < s} /\ \A i \in DOMAIN b : b[i] = levels[i]
      /\ b \in [DOMAIN b -> SUBSET Writes]
      /\ s \in Scopes
  BY BelowIs
<1>2. levels' = Atop(b, s)
  BY DEF ReleaseFails
<1>3. ~(s < s)
  BY <1>1, Bounds DEF Scopes
<1> HIDE DEF s, b
<1>4. levels' = [i \in DOMAIN b \cup {s} |-> IF i = s THEN {} ELSE b[i]]
  BY <1>2 DEF Atop
<1>5. s \notin DOMAIN b
  BY <1>1, <1>3
<1>6. /\ DOMAIN levels' = DOMAIN b \cup {s} /\ levels'[s] = {}
      /\ \A i \in DOMAIN b : levels'[i] = b[i]
  BY <1>4, <1>5
<1>7. levels' \in [DOMAIN levels' -> SUBSET Writes]
  BY <1>1, <1>4
<1> QED BY <1>1, <1>6, <1>7 DEF s

LEMMA OpensIs ==
  ASSUME UShape, NEW t \in Tasks, NestedOpens(t)
  PROVE  /\ opened' = opened + 1 /\ opened' \in Scopes /\ depth' \in Scopes /\ depth' <= opened'
         /\ levels' \in [DOMAIN levels' -> SUBSET Writes]
         /\ DOMAIN levels' = DOMAIN levels \cup {opened'} /\ levels'[opened'] = {}
         /\ \A i \in DOMAIN levels : levels'[i] = levels[i] /\ i < opened'
         /\ frames' \in [Tasks -> Seq([id : Scopes, depth : Scopes])]
         /\ \A u \in Tasks : u # t => frames'[u] = frames[u]
         /\ Len(frames'[t]) = Len(frames[t]) + 1 /\ Len(frames[t]) \in Nat
         /\ DOMAIN frames'[t] = DOMAIN frames[t] \cup {Len(frames[t]) + 1}
         /\ frames'[t][Len(frames[t]) + 1] = [id |-> opened', depth |-> depth']
         /\ \A i \in DOMAIN frames[t] : frames'[t][i] = frames[t][i] /\ i # Len(frames[t]) + 1
<1>1. opened < MaxScopes /\ opened \in 0 .. MaxScopes /\ depth \in 0 .. opened
  BY TypesAre DEF UShape, Guarded, NestedOpens
<1>2. opened' = opened + 1 /\ depth' = depth + 1
  BY DEF NestedOpens
<1>3. opened' = opened + 1 /\ opened' \in Scopes /\ depth' \in Scopes /\ depth' <= opened'
  BY <1>1, <1>2, Bounds DEF Scopes
<1>4. /\ levels \in [DOMAIN levels -> SUBSET Writes] /\ DOMAIN levels \subseteq 0 .. MaxScopes
      /\ \A i \in DOMAIN levels : i <= opened
  BY DEF UShape, UowTypeOK, Numbered
<1>5. \A i \in DOMAIN levels : i < opened'
  BY <1>1, <1>2, <1>4, Bounds
<1>6. opened' \notin DOMAIN levels
  BY <1>1, <1>2, <1>5, Bounds
<1>7. levels' = Atop(levels, opened')
  BY DEF NestedOpens
<1> DEFINE o == opened'
<1> HIDE DEF o
<1>8. levels' = [i \in DOMAIN levels \cup {o} |-> IF i = o THEN {} ELSE levels[i]]
  BY <1>7 DEF Atop, o
<1>9. /\ levels' \in [DOMAIN levels' -> SUBSET Writes]
      /\ DOMAIN levels' = DOMAIN levels \cup {o} /\ levels'[o] = {}
      /\ \A i \in DOMAIN levels : levels'[i] = levels[i]
  <2>1. o \notin DOMAIN levels
    BY <1>6 DEF o
  <2> QED BY <1>4, <1>8, <2>1
<1> DEFINE F == [id : Scopes, depth : Scopes]
           f == [id |-> opened', depth |-> depth']
<1>10. frames \in [Tasks -> Seq(F)] /\ frames[t] \in Seq(F)
  BY DEF UShape, UowTypeOK
<1>11. f \in F
  BY <1>3
<1>12. frames' = [frames EXCEPT ![t] = Append(@, f)]
  BY DEF NestedOpens
<1> HIDE DEF F, f
<1>13. /\ Append(frames[t], f) \in Seq(F) /\ Len(Append(frames[t], f)) = Len(frames[t]) + 1
       /\ Append(frames[t], f)[Len(frames[t]) + 1] = f
       /\ \A i \in DOMAIN frames[t] : Append(frames[t], f)[i] = frames[t][i]
  BY <1>10, <1>11
<1>14. /\ DOMAIN frames[t] = 1 .. Len(frames[t]) /\ Len(frames[t]) \in Nat
       /\ DOMAIN Append(frames[t], f) = 1 .. Len(frames[t]) + 1
  BY <1>10, <1>13
<1>15. DOMAIN Append(frames[t], f) = DOMAIN frames[t] \cup {Len(frames[t]) + 1}
  BY <1>14
<1>16. \A i \in DOMAIN frames[t] : i # Len(frames[t]) + 1
  BY <1>14
<1>17. frames' \in [Tasks -> Seq(F)]
  BY <1>10, <1>12, <1>13
<1>18. frames'[t] = Append(frames[t], f) /\ \A u \in Tasks : u # t => frames'[u] = frames[u]
  BY <1>10, <1>12
<1> QED BY <1>3, <1>5, <1>9, <1>13, <1>14, <1>15, <1>16, <1>17, <1>18 DEF F, f, o

LEMMA StartsShape ==
  ASSUME UShape, NEW t \in Tasks, NEW c \in Children, Starts(t, c)
  PROVE  UShape'
<1>1. c \in Tasks /\ c # Root /\ c # t /\ frames[c] = <<>>
  BY Bounds DEF Starts, UShape, Placed
<1>2. /\ heldBy' = [heldBy EXCEPT ![c] = heldBy[t]] /\ within' = [within EXCEPT ![c] = Under(t)]
      /\ pc' = [pc EXCEPT ![c] = "body"] /\ pc[t] = "body" /\ pc[c] = "new"
      /\ UNCHANGED <<unitState, guard, connection, opened, frames, unforgiven>>
  BY DEF Starts, Goes
<1>3. /\ heldBy \in [Tasks -> SUBSET Scopes] /\ within \in [Tasks -> SUBSET Scopes]
      /\ pc \in [Tasks -> Where]
  BY DEF UShape, UowTypeOK
<1>4. /\ heldBy'[c] = heldBy[t] /\ within'[c] = Under(t) /\ pc'[c] = "body"
      /\ \A u \in Tasks : u # c => heldBy'[u] = heldBy[u] /\ within'[u] = within[u] /\ pc'[u] = pc[u]
  BY <1>1, <1>2, <1>3
<1>5. UowTypeOK'
  <2>1. /\ heldBy' \in [Tasks -> SUBSET Scopes] /\ within' \in [Tasks -> SUBSET Scopes]
        /\ pc' \in [Tasks -> Where]
    BY <1>1, <1>2, <1>3, UnderIs DEF Where
  <2> QED BY <2>1, <1>2 DEF UShape, UowTypeOK, unitState, connection
<1>6. Guarded'
  BY <1>1, <1>2, <1>4 DEF UShape, Guarded, InFlight, Running, unitState
<1>7. Placed'
  BY <1>1, <1>2, <1>4 DEF UShape, Placed, Ending, unitState
<1>8. Numbered'
  <2>1. ASSUME NEW u \in Tasks, NEW s \in heldBy'[u] \cup within'[u] PROVE s <= opened
    BY <1>4, <2>1, UnderIs DEF UShape, Numbered
  <2> QED BY <1>2, <2>1 DEF UShape, Numbered, unitState, connection
<1>9. WritesNumbered'
  BY <1>2 DEF UShape, WritesNumbered, connection
<1>10. Owned'
  <2>1. ASSUME NEW u \in Tasks, NEW e \in savepoints, e.id \in heldBy'[u], e.owner # u
        PROVE  u # Root /\ \A i \in DOMAIN frames[u] : e.id < frames[u][i].id
    <3>1. CASE u = c
      BY <3>1, <1>1
    <3>2. CASE u # c
      BY <3>2, <2>1, <1>4 DEF UShape, Owned
    <3> QED BY <3>1, <3>2
  <2> QED BY <1>2, <2>1 DEF UShape, Owned, unitState
<1> QED BY <1>5, <1>6, <1>7, <1>8, <1>9, <1>10 DEF UShape

LEMMA WriteRunsShape ==
  ASSUME UShape, NEW t \in Tasks, WriteRuns(t)
  PROVE  /\ UShape'
         /\ DOMAIN levels' = DOMAIN levels
         /\ \A j \in DOMAIN levels :
              levels'[j] = IF j = Max(DOMAIN levels) THEN levels[j] \cup {Write(t)} ELSE levels[j]
<1> DEFINE m == Max(DOMAIN levels)
           x == Write(t)
<1>1. m \in DOMAIN levels /\ levels \in [DOMAIN levels -> SUBSET Writes]
  BY InnermostLevel DEF UShape, UowTypeOK
<1>2. x \in Writes /\ \A s \in x.under : s <= opened
  BY WriteIs
<1>3. levels' = [levels EXCEPT ![m] = @ \cup {x}]
  BY DEF WriteRuns
<1> HIDE DEF m, x
<1>4. /\ levels' \in [DOMAIN levels' -> SUBSET Writes] /\ DOMAIN levels' = DOMAIN levels
      /\ \A j \in DOMAIN levels : levels'[j] = IF j = m THEN levels[j] \cup {x} ELSE levels[j]
  BY <1>1, <1>2, <1>3
<1>5. /\ pc[t] = "writing" /\ guard' = Free /\ pc' = [pc EXCEPT ![t] = "body"]
      /\ UNCHANGED <<unitState, committed, opened, frames, heldBy, ghosts>>
  BY DEF WriteRuns, Goes
<1>6. UowTypeOK'
  <2>1. pc' \in [Tasks -> Where] /\ guard' \in Tasks \cup {Free}
    BY <1>5, TypesAre DEF Where
  <2> QED BY <2>1, <1>4, <1>5 DEF UShape, UowTypeOK, unitState, ghosts
<1>7. Guarded'
  BY <1>5, TypesAre, Bounds DEF UShape, Guarded, InFlight, Running, unitState
<1>8. Placed'
  BY <1>5, TypesAre, Bounds DEF UShape, Placed, Ending, unitState
<1>9. Numbered'
  BY <1>4, <1>5 DEF UShape, Numbered, unitState, ghosts
<1>10. WritesNumbered'
  BY <1>2, <1>4, <1>5 DEF UShape, WritesNumbered
<1>11. Owned'
  BY <1>5 DEF UShape, Owned, unitState
<1> QED BY <1>4, <1>6, <1>7, <1>8, <1>9, <1>10, <1>11 DEF UShape, m, x

LEMMA NestedOpensShape ==
  ASSUME UShape, NEW t \in Tasks, NestedOpens(t)
  PROVE  UShape'
<1>1. /\ pc[t] = "opening" /\ guard' = Free /\ pc' = [pc EXCEPT ![t] = "body"]
      /\ savepoints' = savepoints \cup {[id |-> opened', owner |-> t]}
      /\ heldBy' = [heldBy EXCEPT ![t] = @ \cup {opened'}]
      /\ UNCHANGED <<status, ending, mark, poisoned, committed, within, unforgiven>>
  BY DEF NestedOpens, Goes, ghosts
<1> DEFINE o == opened'
<1>2. /\ o = opened + 1 /\ o \in Scopes /\ depth' \in Scopes /\ depth' <= o
      /\ opened \in 0 .. MaxScopes
  BY OpensIs, TypesAre
<1>3. /\ heldBy \in [Tasks -> SUBSET Scopes] /\ savepoints \subseteq [id : Scopes, owner : Tasks]
  BY DEF UShape, UowTypeOK
<1>4. /\ heldBy'[t] = heldBy[t] \cup {o}
      /\ \A u \in Tasks : u # t => heldBy'[u] = heldBy[u]
      /\ heldBy' \in [Tasks -> SUBSET Scopes]
  BY <1>1, <1>2, <1>3
<1>5. UowTypeOK'
  <2>1. pc' \in [Tasks -> Where] /\ guard' \in Tasks \cup {Free}
    BY <1>1, TypesAre DEF Where
  <2>2. savepoints' \subseteq [id : Scopes, owner : Tasks]
    BY <1>1, <1>2, <1>3
  <2>3. /\ levels' \in [DOMAIN levels' -> SUBSET Writes] /\ DOMAIN levels' = DOMAIN levels \cup {o}
    BY OpensIs
  <2>4. 0 \in DOMAIN levels /\ DOMAIN levels \subseteq 0 .. MaxScopes
    BY DEF UShape, UowTypeOK
  <2>5. /\ 0 \in DOMAIN levels' /\ DOMAIN levels' \subseteq 0 .. MaxScopes
        /\ depth' \in 0 .. MaxScopes /\ opened' \in 0 .. MaxScopes
    BY <2>3, <2>4, <1>2, Bounds DEF Scopes
  <2>6. frames' \in [Tasks -> Seq([id : Scopes, depth : Scopes])]
    BY OpensIs
  <2>7. /\ status' \in {"ACTIVE", "COMPLETING", "COMMITTED", "ROLLED_BACK", "UNKNOWN"}
        /\ ending' \in {"", "commit", "rollback"} /\ mark' \in 0 .. Unmarked
        /\ poisoned' \in BOOLEAN /\ unforgiven' \in BOOLEAN
    BY <1>1, TypesAre
  <2>8. committed' \subseteq Writes /\ within' \in [Tasks -> SUBSET Scopes]
    BY <1>1 DEF UShape, UowTypeOK
  <2> QED BY <2>1, <2>2, <2>3, <2>5, <2>6, <2>7, <2>8, <1>4 DEF UowTypeOK
<1>6. Guarded'
  BY <1>1, TypesAre, Bounds DEF UShape, Guarded, InFlight, Running
<1> HIDE DEF o
<1>7. /\ \A u \in Tasks : u # t => frames'[u] = frames[u]
      /\ Len(frames[t]) \in Nat
      /\ DOMAIN frames'[t] = DOMAIN frames[t] \cup {Len(frames[t]) + 1}
      /\ DOMAIN frames[t] = 1 .. Len(frames[t])
      /\ frames'[t][Len(frames[t]) + 1] = [id |-> o, depth |-> depth']
      /\ \A i \in DOMAIN frames[t] : frames'[t][i] = frames[t][i] /\ i # Len(frames[t]) + 1
  <2> DEFINE F == [id : Scopes, depth : Scopes]
  <2>1. frames[t] \in Seq(F)
    BY DEF UShape, UowTypeOK
  <2> HIDE DEF F
  <2>2. DOMAIN frames[t] = 1 .. Len(frames[t])
    BY <2>1
  <2> QED BY <2>2, OpensIs DEF o
<1>8. Placed'
  <2>1. ASSUME NEW u \in Tasks
        PROVE  /\ pc'[u] \in Ending => frames'[u] # <<>>
               /\ pc'[u] \in {"new", "done", "completing"} => frames'[u] = <<>>
    BY <1>1, <1>7, TypesAre DEF UShape, Placed, Ending
  <2>2. pc'[Root] = pc[Root] \/ (pc[Root] = "opening" /\ pc'[Root] = "body")
    <3>1. \A u \in Tasks : pc'[u] = IF u = t THEN "body" ELSE pc[u]
      BY <1>1, GoesIs
    <3>2. pc[t] = "opening" /\ Root \in Tasks
      BY <1>1, Bounds
    <3> QED BY <3>1, <3>2
  <2>3. /\ status' = "COMPLETING" => pc'[Root] = "completing"
        /\ pc'[Root] # "new"
    BY <2>2, <1>1 DEF UShape, Placed
  <2> QED BY <2>1, <2>3 DEF Placed, Ending
<1>9. Numbered'
  <2>1. depth' <= o /\ \A i \in DOMAIN levels' : i <= o
    <3>1. DOMAIN levels' = DOMAIN levels \cup {o} /\ \A i \in DOMAIN levels : i < o
      BY OpensIs DEF o
    <3>2. DOMAIN levels \subseteq 0 .. MaxScopes
      BY DEF UShape, UowTypeOK
    <3> QED BY <3>1, <3>2, <1>2, Bounds DEF Scopes
  <2>2. ASSUME NEW e \in savepoints' PROVE e.id <= o
    BY <1>1, <1>2, <1>3 DEF UShape, Numbered, o, Scopes
  <2>3. ASSUME NEW u \in Tasks, NEW s \in heldBy'[u] \cup within'[u] PROVE s <= o
    <3>1. s = o \/ s \in heldBy[u] \cup within[u]
      BY <1>1, <1>4
    <3>2. s \in Scopes
      BY <3>1, <1>2 DEF UShape, UowTypeOK
    <3> QED BY <3>1, <3>2, <1>2, Bounds DEF UShape, Numbered, Scopes
  <2>4. ASSUME NEW u \in Tasks, NEW i \in DOMAIN frames[u]
        PROVE  /\ frames[u][i].id \in Scopes /\ frames[u][i].depth \in Scopes
               /\ frames[u][i].id <= opened /\ frames[u][i].depth <= opened
               /\ frames[u][i].id < o /\ frames[u][i].depth <= o
    <3> DEFINE F == [id : Scopes, depth : Scopes]
    <3>1. frames[u] \in Seq(F)
      BY DEF UShape, UowTypeOK
    <3> HIDE DEF F
    <3>2. frames[u][i] \in F
      BY <3>1
    <3>3. frames[u][i].id \in Scopes /\ frames[u][i].depth \in Scopes
      BY <3>2 DEF F
    <3>4. frames[u][i].id <= opened /\ frames[u][i].depth <= opened
      BY DEF UShape, Numbered
    <3> QED BY <3>3, <3>4, <1>2, Bounds DEF Scopes
  <2>5. ASSUME NEW u \in Tasks, NEW i \in DOMAIN frames'[u]
        PROVE  frames'[u][i].id <= o /\ frames'[u][i].depth <= o
    <3>1. CASE u = t /\ i = Len(frames[t]) + 1
      BY <3>1, <1>2, <1>7, <2>1, Bounds DEF Scopes
    <3>2. CASE ~(u = t /\ i = Len(frames[t]) + 1)
      <4>1. i \in DOMAIN frames[u] /\ frames'[u][i] = frames[u][i]
        BY <3>2, <1>7
      <4>2. frames[u][i].id < o /\ frames[u][i].depth <= o /\ frames[u][i].id \in Scopes
        BY <4>1, <2>4
      <4> QED BY <4>1, <4>2, <1>2, Bounds DEF Scopes
    <3> QED BY <3>1, <3>2
  <2>6. ASSUME NEW u \in Tasks, NEW i \in DOMAIN frames'[u], NEW j \in DOMAIN frames'[u], i < j
        PROVE  frames'[u][i].id < frames'[u][j].id
    <3>1. CASE u # t
      BY <3>1, <2>6, <1>7 DEF UShape, Numbered
    <3>2. CASE u = t /\ j = Len(frames[t]) + 1
      BY <3>2, <2>6, <1>7, <2>4
    <3>3. CASE u = t /\ j # Len(frames[t]) + 1
      <4>1. i \in DOMAIN frames[t] /\ j \in DOMAIN frames[t]
        BY <3>3, <2>6, <1>7
      <4> QED BY <4>1, <3>3, <2>6, <1>7 DEF UShape, Numbered
    <3> QED BY <3>1, <3>2, <3>3
  <2> QED BY <2>1, <2>2, <2>3, <2>5, <2>6 DEF Numbered, o
<1>10. WritesNumbered'
  <2>1. ASSUME NEW i \in DOMAIN levels', NEW w \in levels'[i], NEW s \in w.under PROVE s <= o
    <3>1. i \in DOMAIN levels /\ w \in levels[i]
      BY <2>1, OpensIs
    <3>2. s \in Scopes /\ s <= opened
      <4>1. w \in Writes
        BY <3>1 DEF UShape, UowTypeOK
      <4> QED BY <4>1, <3>1 DEF UShape, WritesNumbered, Writes
    <3> QED BY <3>2, <1>2, Bounds DEF Scopes
  <2> QED BY <2>1 DEF WritesNumbered, o
<1>11. Owned'
  <2>1. ASSUME NEW e \in savepoints PROVE e.id \in Scopes /\ e.id < o /\ e.id # o
    BY <1>2, <1>3, Bounds DEF UShape, Numbered, Scopes
  <2>2. ASSUME NEW e \in savepoints', NEW f \in savepoints', e.id = f.id PROVE e = f
    <3>1. /\ e \in savepoints \/ e = [id |-> o, owner |-> t]
          /\ f \in savepoints \/ f = [id |-> o, owner |-> t]
      BY <1>1 DEF o
    <3>2. e \in savepoints /\ f \in savepoints => e = f
      BY <2>2 DEF UShape, Owned
    <3>3. [id |-> o, owner |-> t].id = o
      OBVIOUS
    <3> QED BY <3>1, <3>2, <3>3, <2>1, <2>2
  <2>3. ASSUME NEW u \in Tasks, NEW e \in savepoints', e.id \in heldBy'[u], e.owner # u
        PROVE  u # Root /\ \A i \in DOMAIN frames'[u] : e.id < frames'[u][i].id
    <3>1. CASE e \in savepoints
      <4>1. e.id < o /\ e.id \in heldBy[u]
        <5>1. e.id # o /\ e.id < o
          BY <2>1, <3>1
        <5> QED BY <5>1, <2>3, <1>4
      <4>2. u # Root /\ \A i \in DOMAIN frames[u] : e.id < frames[u][i].id
        BY <4>1, <2>3, <3>1 DEF UShape, Owned
      <4>3. ASSUME NEW i \in DOMAIN frames'[u] PROVE e.id < frames'[u][i].id
        <5>1. CASE u = t /\ i = Len(frames[t]) + 1
          BY <5>1, <4>1, <1>7
        <5>2. CASE ~(u = t /\ i = Len(frames[t]) + 1)
          BY <5>2, <4>2, <1>7
        <5> QED BY <5>1, <5>2
      <4> QED BY <4>2, <4>3
    <3>2. CASE e \notin savepoints
      <4>1. e.id = o /\ e.owner = t /\ o \in heldBy[u] /\ u # t
        BY <2>3, <3>2, <1>1, <1>4 DEF o
      <4>2. o <= opened
        BY <4>1 DEF UShape, Numbered
      <4> QED BY <4>2, <1>2, Bounds
    <3> QED BY <3>1, <3>2
  <2> QED BY <2>2, <2>3 DEF Owned
<1> QED BY <1>5, <1>6, <1>8, <1>9, <1>10, <1>11 DEF UShape

\* What a task does of its release that failed.
LEMMA AfterFailedReleaseIs ==
  ASSUME NEW t \in Tasks, AfterFailedRelease(t)
  PROVE  /\ pc[t] = "unreleased" /\ depth' = Scope(t).depth - 1
         /\ UNCHANGED <<status, ending, poisoned, guard, levels, committed, opened, heldBy, within, unforgiven>>
         /\ \/ /\ Completed /\ Leaves(t) /\ Goes(t, "body") /\ UNCHANGED mark
               /\ savepoints' = Closed({Scope(t).id})
            \/ /\ ~Completed /\ poisoned /\ Leaves(t) /\ Goes(t, "body") /\ mark' = Marked(depth')
               /\ UNCHANGED savepoints
            \/ /\ ~Completed /\ ~poisoned /\ Goes(t, "rolling") /\ UNCHANGED <<mark, savepoints, frames>>
<1>1. CASE Completed
  BY <1>1 DEF AfterFailedRelease, ScopeLeft, connection, ghosts
<1>2. CASE ~Completed /\ poisoned
  BY <1>2 DEF AfterFailedRelease, connection, ghosts
<1>3. CASE ~Completed /\ ~poisoned
  BY <1>3 DEF AfterFailedRelease, connection, ghosts
<1> QED BY <1>1, <1>2, <1>3

LEMMA AfterFailedReleaseShape ==
  ASSUME UShape, NEW t \in Tasks, AfterFailedRelease(t)
  PROVE  /\ UShape'
         /\ LeftBy(t) \/ (UNCHANGED <<frames, savepoints>> /\ pc'[t] = "rolling")
<1>0. frames[t] # <<>>
  BY DEF UShape, Placed, Ending, AfterFailedRelease
<1>1. /\ pc[t] = "unreleased" /\ depth' = Scope(t).depth - 1
      /\ UNCHANGED <<status, ending, poisoned, guard, levels, committed, opened, heldBy, within, unforgiven>>
  BY AfterFailedReleaseIs
<1>2. depth' \in 0 .. opened /\ depth' \in 0 .. MaxScopes
  BY <1>0, <1>1, DepthIs
<1>3. mark' = mark \/ mark' = Marked(depth')
  BY AfterFailedReleaseIs
<1>4. mark' \in 0 .. Unmarked
  BY <1>2, <1>3, MarkedIs, TypesAre DEF UShape
<1>5. savepoints' \subseteq savepoints
  BY AfterFailedReleaseIs, ClosedIs
<1>6. \/ Leaves(t) /\ pc' = [pc EXCEPT ![t] = "body"]
      \/ UNCHANGED <<frames, savepoints>> /\ pc' = [pc EXCEPT ![t] = "rolling"]
  BY AfterFailedReleaseIs DEF Goes
<1>7. Plain
  BY <1>1, <1>2, <1>4, <1>5, <1>6, TypesAre DEF Plain, Where
<1>8. Guarded'
  BY <1>1, <1>6, TypesAre, Bounds DEF UShape, Guarded, InFlight, Running
<1>9. CASE Leaves(t) /\ pc' = [pc EXCEPT ![t] = "body"]
  <2>1. LeftBy(t)
    BY <1>0, <1>9, LeavesIs DEF UShape
  <2>2. Placed'
    <3>1. \A u \in Tasks : pc'[u] = IF u = t THEN "body" ELSE pc[u]
      BY <1>9, GoesIs
    <3>2. status' = status /\ \A u \in Tasks : u # t => frames'[u] = frames[u]
      BY <2>1, <1>1 DEF LeftBy
    <3>3. /\ status = "COMPLETING" => pc[Root] = "completing"
          /\ pc[Root] # "new" /\ pc[t] = "unreleased" /\ Root \in Tasks
          /\ \A u \in Tasks : /\ pc[u] \in Ending => frames[u] # <<>>
                              /\ pc[u] \in {"new", "done", "completing"} => frames[u] = <<>>
      BY <1>1, Bounds DEF UShape, Placed
    <3>4. ASSUME NEW u \in Tasks
          PROVE  /\ pc'[u] \in Ending => frames'[u] # <<>>
                 /\ pc'[u] \in {"new", "done", "completing"} => frames'[u] = <<>>
      BY <3>1, <3>2, <3>3 DEF Ending
    <3>5. (status' = "COMPLETING" => pc'[Root] = "completing") /\ pc'[Root] # "new"
      BY <3>1, <3>2, <3>3
    <3> QED BY <3>4, <3>5 DEF Placed, Ending
  <2> QED BY <2>1, <2>2, <1>7, <1>8, PlainLeaves DEF UShape
<1>10. CASE UNCHANGED <<frames, savepoints>> /\ pc' = [pc EXCEPT ![t] = "rolling"]
  <2>1. Placed'
    BY <1>0, <1>1, <1>10, TypesAre, Bounds DEF UShape, Placed, Ending
  <2>2. pc'[t] = "rolling"
    BY <1>10, TypesAre
  <2> QED BY <2>1, <2>2, <1>7, <1>8, <1>10, PlainKeeps DEF UShape
<1> QED BY <1>6, <1>9, <1>10

\* A step that ends savepoints on the connection, under the guard of t.
Ends(t, where) ==
  /\ pc[t] \in {"release", "rollback"} /\ guard' = Free
  /\ where \in {"released", "unreleased", "rolled"} /\ pc' = [pc EXCEPT ![t] = where]
  /\ mark' \in 0 .. Unmarked
  /\ savepoints' \subseteq savepoints
  /\ UNCHANGED <<status, ending, depth, poisoned, committed, opened, frames, heldBy, within, unforgiven>>

LEMMA EndsShape ==
  ASSUME UShape, NEW t \in Tasks, NEW where, Ends(t, where),
         levels' \in [DOMAIN levels' -> SUBSET Writes], 0 \in DOMAIN levels',
         \A j \in DOMAIN levels' : j \in 0 .. MaxScopes /\ j <= opened,
         \A j \in DOMAIN levels' : \A v \in levels'[j] : \E i \in DOMAIN levels : v \in levels[i]
  PROVE  UShape'
<1>1. UowTypeOK'
  <2>1. pc' \in [Tasks -> Where] /\ guard' \in Tasks \cup {Free}
    BY TypesAre DEF Ends, Where
  <2>2. savepoints' \subseteq [id : Scopes, owner : Tasks] /\ DOMAIN levels' \subseteq 0 .. MaxScopes
    BY DEF Ends, UShape, UowTypeOK
  <2>3. mark' \in 0 .. Unmarked
    BY DEF Ends
  <2> QED BY <2>1, <2>2, <2>3 DEF UShape, UowTypeOK, Ends
<1>2. Guarded'
  BY TypesAre, Bounds DEF UShape, Guarded, InFlight, Running, Ends
<1>3. Placed'
  BY TypesAre, Bounds DEF UShape, Placed, Ending, Ends
<1>4. Numbered'
  BY DEF UShape, Numbered, Ends
<1>5. WritesNumbered'
  BY DEF UShape, WritesNumbered, Ends
<1>6. Owned'
  BY DEF UShape, Owned, Ends
<1> QED BY <1>1, <1>2, <1>3, <1>4, <1>5, <1>6 DEF UShape

LEMMA ReleaseRunsShape ==
  ASSUME UShape, NEW t \in Tasks, ReleaseRuns(t)
  PROVE  UShape' /\ frames[t] # <<>> /\ Merged(t)
<1>1. frames[t] # <<>>
  BY DEF UShape, Placed, Ending, ReleaseRuns
<1>2. Merged(t)
  BY <1>1, ReleasesIs
<1>3. Ends(t, "released")
  BY TypesAre, ClosedIs DEF Ends, ReleaseRuns, Goes, ghosts
<1> DEFINE s == Scope(t).id
           m == Max({i \in DOMAIN levels : i < s})
<1>4. /\ DOMAIN levels' = {i \in DOMAIN levels : i < s}
      /\ \A i \in DOMAIN levels' :
           levels'[i] = IF i = m THEN levels[i] \cup WritesFrom(s) ELSE levels[i]
      /\ levels' \in [DOMAIN levels' -> SUBSET Writes]
  BY <1>2 DEF Merged
<1>5. /\ DOMAIN Below(s) = {i \in DOMAIN levels : i < s} /\ 0 \in DOMAIN Below(s)
      /\ \A w : w \in WritesFrom(s) <=> \E j \in DOMAIN levels : j >= s /\ w \in levels[j]
  BY <1>1, BelowIs
<1> HIDE DEF s, m
<1>6. /\ 0 \in DOMAIN levels' /\ DOMAIN levels' \subseteq DOMAIN levels
      /\ \A j \in DOMAIN levels' : j \in 0 .. MaxScopes /\ j <= opened
  BY <1>4, <1>5 DEF UShape, UowTypeOK, Numbered
<1>7. ASSUME NEW j \in DOMAIN levels', NEW v \in levels'[j]
      PROVE  \E i \in DOMAIN levels : v \in levels[i]
  BY <1>4, <1>5, <1>6, <1>7
<1> QED BY <1>1, <1>2, <1>3, <1>4, <1>6, <1>7, EndsShape

LEMMA ReleaseFailsShape ==
  ASSUME UShape, NEW t \in Tasks, ReleaseFails(t)
  PROVE  UShape' /\ frames[t] # <<>>
<1>1. frames[t] # <<>>
  BY DEF UShape, Placed, Ending, ReleaseFails
<1>2. Ends(t, "unreleased")
  <2>1. mark' \in 0 .. Unmarked
    BY TypesAre, MarkedIs DEF ReleaseFails, UShape
  <2> QED BY <2>1, ClosedIs DEF Ends, ReleaseFails, Goes, ghosts
<1> DEFINE s == Scope(t).id
<1>3. /\ levels' \in [DOMAIN levels' -> SUBSET Writes]
      /\ DOMAIN levels' = {i \in DOMAIN levels : i < s} \cup {s}
      /\ levels'[s] = {}
      /\ \A i \in DOMAIN levels : i < s => levels'[i] = levels[i]
  BY <1>1, ReleaseFailsIs
<1>4. DOMAIN Below(s) = {i \in DOMAIN levels : i < s} /\ 0 \in DOMAIN Below(s)
  BY <1>1, BelowIs
<1>5. s \in Scopes /\ s <= opened
  <2>1. Len(frames[t]) \in DOMAIN frames[t] /\ s = frames[t][Len(frames[t])].id /\ s \in Scopes
    BY <1>1, ScopeIs DEF UShape
  <2> QED BY <2>1 DEF UShape, Numbered
<1> HIDE DEF s
<1>6. /\ 0 \in DOMAIN levels'
      /\ \A j \in DOMAIN levels' : j \in 0 .. MaxScopes /\ j <= opened
  <2>1. \A j \in DOMAIN levels : j \in 0 .. MaxScopes /\ j <= opened
    BY DEF UShape, UowTypeOK, Numbered
  <2>2. s \in 0 .. MaxScopes
    BY <1>5, Limit DEF Scopes
  <2> QED BY <2>1, <2>2, <1>3, <1>4, <1>5
<1>7. ASSUME NEW j \in DOMAIN levels', NEW v \in levels'[j]
      PROVE  \E i \in DOMAIN levels : v \in levels[i]
  BY <1>3, <1>7
<1> QED BY <1>1, <1>2, <1>3, <1>6, <1>7, EndsShape

LEMMA RolledBackShape ==
  ASSUME UShape, NEW t \in Tasks, RolledBack(t)
  PROVE  /\ UShape' /\ frames[t] # <<>>
         /\ DOMAIN levels' = {i \in DOMAIN levels : i < Scope(t).id}
         /\ \A i \in DOMAIN levels' : levels'[i] = levels[i]
<1>1. frames[t] # <<>>
  BY DEF UShape, Placed, Ending, RolledBack
<1>2. Ends(t, "rolled")
  BY TypesAre, ClosedIs DEF Ends, RolledBack, Goes, ghosts
<1> DEFINE b == Below(Scope(t).id)
<1>3. /\ DOMAIN b = {i \in DOMAIN levels : i < Scope(t).id} /\ 0 \in DOMAIN b
      /\ \A i \in DOMAIN b : b[i] = levels[i]
      /\ b \in [DOMAIN b -> SUBSET Writes]
  BY <1>1, BelowIs
<1>4. levels' = b
  BY DEF RolledBack
<1> HIDE DEF b
<1>5. /\ 0 \in DOMAIN levels' /\ DOMAIN levels' \subseteq DOMAIN levels
      /\ \A j \in DOMAIN levels' : j \in 0 .. MaxScopes /\ j <= opened
  BY <1>3, <1>4 DEF UShape, UowTypeOK, Numbered
<1>6. ASSUME NEW j \in DOMAIN levels', NEW v \in levels'[j]
      PROVE  \E i \in DOMAIN levels : v \in levels[i]
  BY <1>3, <1>4, <1>6
<1>7. levels' \in [DOMAIN levels' -> SUBSET Writes]
  BY <1>3, <1>4
<1> QED BY <1>1, <1>2, <1>3, <1>4, <1>5, <1>6, <1>7, EndsShape

LEMMA NoSavepointIs ==
  /\ NoSavepoint \in [DOMAIN NoSavepoint -> SUBSET Writes]
  /\ DOMAIN NoSavepoint = {0} /\ NoSavepoint[0] = {}
  BY DEF NoSavepoint

LEMMA EverythingIs ==
  ASSUME UowTypeOK
  PROVE  Everything \subseteq Writes
  BY DEF UowTypeOK, Everything

LEMMA UnitEndsShape ==
  ASSUME UShape, NEW how \in {"COMMITTED", "ROLLED_BACK", "UNKNOWN"},
         NEW writes \in SUBSET Writes, UnitEnds(how, writes)
  PROVE  UShape'
<1>1. /\ status = "COMPLETING" /\ guard = Free /\ status' = how /\ committed' = writes
      /\ levels' = NoSavepoint /\ savepoints' = {} /\ pc' = [pc EXCEPT ![Root] = "done"]
      /\ UNCHANGED <<ending, mark, depth, poisoned, guard, opened, frames, heldBy, within, unforgiven>>
  BY DEF UnitEnds, Goes, ghosts
<1>2. pc[Root] = "completing" /\ Root \in Tasks /\ pc \in [Tasks -> Where]
  BY <1>1, TypesAre, Bounds DEF UShape, Placed
<1>3. UowTypeOK'
  <2>1. pc' \in [Tasks -> Where]
    BY <1>1, <1>2 DEF Where
  <2>2. /\ levels' \in [DOMAIN levels' -> SUBSET Writes] /\ 0 \in DOMAIN levels'
        /\ DOMAIN levels' \subseteq 0 .. MaxScopes
    BY <1>1, NoSavepointIs, Bounds
  <2> QED BY <2>1, <2>2, <1>1 DEF UShape, UowTypeOK
<1>4. Guarded'
  BY <1>1, <1>2, Bounds DEF UShape, Guarded, InFlight
<1>5. Placed'
  BY <1>1, <1>2 DEF UShape, Placed, Ending
<1>6. Numbered'
  <2>1. \A i \in DOMAIN levels' : i <= opened
    <3>1. opened \in 0 .. MaxScopes
      BY TypesAre
    <3> QED BY <3>1, <1>1, NoSavepointIs, Limit
  <2> QED BY <2>1, <1>1 DEF UShape, Numbered
<1>7. WritesNumbered'
  BY <1>1, NoSavepointIs DEF WritesNumbered
<1>8. Owned'
  BY <1>1 DEF Owned
<1> QED BY <1>3, <1>4, <1>5, <1>6, <1>7, <1>8 DEF UShape

LEMMA InitShape == UowInit => UShape
<1> SUFFICES ASSUME UowInit PROVE UShape
  OBVIOUS
<1>1. /\ pc = [t \in Tasks |-> IF t = Root THEN "body" ELSE "new"]
      /\ frames = [t \in Tasks |-> <<>>] /\ heldBy = [t \in Tasks |-> {}]
      /\ within = [t \in Tasks |-> {}] /\ savepoints = {} /\ levels = NoSavepoint
      /\ status = "ACTIVE" /\ ending = "" /\ mark = Unmarked /\ depth = 0 /\ poisoned = FALSE
      /\ guard = Free /\ committed = {} /\ opened = 0 /\ unforgiven = FALSE
  BY DEF UowInit
<1>2. UowTypeOK
  <2>1. pc \in [Tasks -> Where]
    BY <1>1 DEF Where
  <2>2. frames \in [Tasks -> Seq([id : Scopes, depth : Scopes])]
    <3>1. <<>> \in Seq([id : Scopes, depth : Scopes])
      BY EmptySeq
    <3> QED BY <3>1, <1>1
  <2>3. levels \in [DOMAIN levels -> SUBSET Writes] /\ 0 \in DOMAIN levels /\ DOMAIN levels \subseteq 0 .. MaxScopes
    <3>1. levels = NoSavepoint
      BY <1>1
    <3>2. {0} \subseteq 0 .. MaxScopes
      BY Limit
    <3> QED BY <3>1, <3>2, NoSavepointIs
  <2>4. mark \in 0 .. Unmarked /\ depth \in 0 .. MaxScopes /\ opened \in 0 .. MaxScopes
    <3>1. mark = Unmarked /\ depth = 0 /\ opened = 0
      BY <1>1
    <3> QED BY <3>1, Limit DEF Unmarked
  <2>5. heldBy \in [Tasks -> SUBSET Scopes] /\ within \in [Tasks -> SUBSET Scopes]
    BY <1>1
  <2> QED BY <2>1, <2>2, <2>3, <2>4, <2>5, <1>1 DEF UowTypeOK
<1>3. Guarded
  BY <1>1, Bounds DEF Guarded, InFlight, Running
<1>4. Placed
  BY <1>1, Bounds DEF Placed, Ending
<1>5. Numbered /\ WritesNumbered /\ Owned
  <2>1. \A t \in Tasks : frames[t] = <<>> /\ DOMAIN frames[t] = {} /\ heldBy[t] = {} /\ within[t] = {}
    <3>1. DOMAIN <<>> = {}
      OBVIOUS
    <3>2. \A t \in Tasks : frames[t] = <<>> /\ heldBy[t] = {} /\ within[t] = {}
      BY <1>1
    <3> QED BY <3>1, <3>2
  <2>2. DOMAIN levels = {0} /\ levels[0] = {}
    BY <1>1, NoSavepointIs
  <2>3. depth <= opened /\ 0 <= opened
    <3>1. depth = 0 /\ opened = 0
      BY <1>1
    <3> QED BY <3>1
  <2>4. savepoints = {}
    BY <1>1
  <2> QED BY <2>1, <2>2, <2>3, <2>4 DEF Numbered, WritesNumbered, Owned
<1> QED BY <1>2, <1>3, <1>4, <1>5 DEF UShape

-------------------------------------------------------------------------------
(* Every step keeps what is true of the unit as long as it may commit. *)

LEMMA LastFrame ==
  ASSUME UShape, NEW t \in Tasks, frames[t] # <<>>
  PROVE  /\ Len(frames[t]) \in DOMAIN frames[t]
         /\ Scope(t).id = frames[t][Len(frames[t])].id
         /\ Scope(t).id \in Scopes
         /\ \A i \in DOMAIN frames[t] : i # Len(frames[t]) => frames[t][i].id < Scope(t).id
<1>1. /\ Len(frames[t]) \in DOMAIN frames[t] /\ Scope(t) = frames[t][Len(frames[t])]
      /\ Scope(t).id \in Scopes
  BY ScopeIs DEF UShape
<1>2. DOMAIN frames[t] = 1 .. Len(frames[t])
  <2> DEFINE F == [id : Scopes, depth : Scopes]
  <2>1. frames[t] \in Seq(F)
    BY DEF UShape, UowTypeOK
  <2> HIDE DEF F
  <2> QED BY <2>1
<1>3. ASSUME NEW i \in DOMAIN frames[t], i # Len(frames[t]) PROVE frames[t][i].id < Scope(t).id
  <2>1. i < Len(frames[t])
    BY <1>2, <1>3, <1>1
  <2> QED BY <2>1, <1>1 DEF UShape, Numbered
<1> QED BY <1>1, <1>3

LEMMA SavepointIs ==
  ASSUME UShape, NEW e \in savepoints
  PROVE  e.id \in Scopes /\ e.owner \in Tasks /\ e = [id |-> e.id, owner |-> e.owner] /\ e.id <= opened
<1>1. savepoints \subseteq [id : Scopes, owner : Tasks] /\ e.id <= opened
  BY DEF UShape, UowTypeOK, Numbered
<1> QED BY <1>1

\* A live savepoint's owner has not ended.
LEMMA OwnersLive ==
  ASSUME UShape, Opens, NEW e \in savepoints
  PROVE  frames[e.owner] # <<>> /\ pc[e.owner] \notin {"new", "done", "completing"}
<1>1. e.owner \in Tasks
  BY SavepointIs
<1>2. PICK i \in DOMAIN frames[e.owner] : frames[e.owner][i].id = e.id
  BY DEF Opens
<1>3. DOMAIN <<>> = {}
  OBVIOUS
<1>4. frames[e.owner] # <<>>
  BY <1>2, <1>3
<1> QED BY <1>1, <1>4 DEF UShape, Placed

LEMMA QuietLive ==
  ASSUME UShape, LiveOK, NEW t \in Tasks, NEW where, pc' = [pc EXCEPT ![t] = where],
         where \notin {"released", "rolled"}, where \notin InFlight,
         pc[t] \notin {"released", "rolled"},
         UNCHANGED <<savepoints, levels, frames, heldBy, within>>, Live' => Live
  PROVE  LiveOK'
<1> SUFFICES ASSUME Live' PROVE (Opens /\ Holds /\ OnTop /\ Inside)'
  BY DEF LiveOK
<1>0. Opens /\ Holds /\ OnTop /\ Inside
  BY DEF LiveOK
<1>1. \A u \in Tasks : pc'[u] = IF u = t THEN where ELSE pc[u]
  BY GoesIs
<1>2. \A u \in Tasks : \A i \in DOMAIN frames[u] : Resuming(u, i)' <=> Resuming(u, i)
  BY <1>1 DEF Resuming
<1>3. Opens'
  BY <1>0, <1>2 DEF Opens
<1>4. Holds'
  BY <1>0 DEF Holds, Under
<1>5. OnTop'
  BY <1>0, <1>1 DEF OnTop, Scope, InFlight
<1>6. Inside'
  BY <1>0, <1>1 DEF Inside, Scope
<1> QED BY <1>3, <1>4, <1>5, <1>6

\* Whoever may use the unit holds every savepoint on it.
LEMMA UsersHold ==
  ASSUME UShape, Opens, Holds, NEW t \in Tasks, Usable(t), NEW e \in savepoints
  PROVE  e.id \in heldBy[t]
<1> DEFINE S == {f.id : f \in savepoints}
<1>1. S \in SUBSET (0 .. MaxScopes) /\ S # {}
  BY SavepointIs, Limit DEF Scopes
<1>2. Max(S) \in S /\ \A x \in S : x <= Max(S)
  <2> HIDE DEF S
  <2> QED BY <1>1, TopIs, Limit
<1>3. PICK f \in savepoints : f.id = Max(S)
  BY <1>2
<1>4. \A g \in savepoints : g.id <= f.id
  BY <1>2, <1>3
<1>5. ~Foreign(f, t)
  BY <1>4 DEF Usable, Innermost
<1>6. f.id \in heldBy[t]
  BY <1>5, OwnersLive DEF Foreign
<1>7. e.id \in Scopes /\ f.id \in Scopes /\ e.id <= f.id
  BY <1>4, SavepointIs
<1>8. CASE e.id = f.id
  BY <1>6, <1>8
<1>9. CASE e.id # f.id
  <2>1. e.id < f.id
    BY <1>7, <1>9, Limit DEF Scopes
  <2> QED BY <2>1, <1>6 DEF Holds
<1> QED BY <1>8, <1>9

LEMMA BeginsLive ==
  ASSUME UShape, LiveOK, NEW t \in Tasks, NEW from, NEW to \in InFlight, OperationBegins(t, from, to),
         from \notin {"released", "rolled"}, to \in {"release", "rollback"} => from \in Ending
  PROVE  LiveOK'
<1> SUFFICES ASSUME Live' PROVE (Opens /\ Holds /\ OnTop /\ Inside)'
  BY DEF LiveOK
<1>0. /\ pc[t] = from /\ Usable(t) /\ pc' = [pc EXCEPT ![t] = to]
      /\ UNCHANGED <<status, ending, mark, poisoned, savepoints, levels, frames, heldBy, within>>
  BY DEF OperationBegins, Goes, unitState, connection, ghosts
<1>00. Opens /\ Holds /\ OnTop /\ Inside
  BY <1>0 DEF LiveOK, Live, Running, MayCommit
<1>1. \A u \in Tasks : pc'[u] = IF u = t THEN to ELSE pc[u]
  BY <1>0, GoesIs
<1>2. \A u \in Tasks : \A i \in DOMAIN frames[u] : Resuming(u, i)' <=> Resuming(u, i)
  BY <1>0, <1>1 DEF Resuming, InFlight
<1>3. Opens'
  BY <1>0, <1>00, <1>2 DEF Opens
<1>4. Holds'
  BY <1>0, <1>00 DEF Holds, Under
<1>5. OnTop'
  <2>1. ASSUME NEW u \in Tasks, NEW e \in savepoints, pc'[u] \in InFlight PROVE e.id \in heldBy[u]
    BY <1>0, <1>00, <1>1, <2>1, UsersHold DEF OnTop
  <2>2. ASSUME NEW u \in Tasks, NEW e \in savepoints, pc'[u] \in {"release", "rollback"}
        PROVE  e.id <= Scope(u).id
    <3>1. CASE u # t
      BY <3>1, <2>2, <1>00, <1>1 DEF OnTop
    <3>2. CASE u = t
      <4>1. frames[t] # <<>>
        BY <3>2, <2>2, <1>0, <1>1 DEF UShape, Placed
      <4>2. /\ Len(frames[t]) \in DOMAIN frames[t]
            /\ Scope(t).id = frames[t][Len(frames[t])].id /\ Scope(t).id \in Scopes
            /\ \A i \in DOMAIN frames[t] : i # Len(frames[t]) => frames[t][i].id < Scope(t).id
        BY <4>1, LastFrame
      <4>3. e.id \in heldBy[t] /\ e.id \in Scopes
        BY <1>0, <1>00, UsersHold, SavepointIs
      <4>4. CASE e.owner = t
        <5>1. PICK i \in DOMAIN frames[t] : frames[t][i].id = e.id
          BY <4>4, <1>00 DEF Opens
        <5> QED BY <5>1, <4>2, <4>3, <3>2, Limit DEF Scopes
      <4>5. CASE e.owner # t
        <5>1. e.id < Scope(t).id
          BY <4>2, <4>3, <4>5 DEF UShape, Owned
        <5> QED BY <5>1, <4>2, <4>3, <3>2, Limit DEF Scopes
      <4> QED BY <4>4, <4>5
    <3> QED BY <3>1, <3>2
  <2>3. \A u \in Tasks : Scope(u)' = Scope(u)
    BY <1>0 DEF Scope
  <2> QED BY <2>1, <2>2, <2>3, <1>0 DEF OnTop, InFlight
<1>6. Inside'
  BY <1>0, <1>00, <1>1 DEF Inside, Scope, InFlight
<1> QED BY <1>3, <1>4, <1>5, <1>6

LEMMA StartsLive ==
  ASSUME UShape, LiveOK, NEW t \in Tasks, NEW c \in Children, Starts(t, c)
  PROVE  LiveOK'
<1> SUFFICES ASSUME Live' PROVE (Opens /\ Holds /\ OnTop /\ Inside)'
  BY DEF LiveOK
<1>0. /\ heldBy' = [heldBy EXCEPT ![c] = heldBy[t]] /\ within' = [within EXCEPT ![c] = Under(t)]
      /\ pc' = [pc EXCEPT ![c] = "body"] /\ pc[t] = "body" /\ pc[c] = "new"
      /\ UNCHANGED <<status, ending, mark, poisoned, savepoints, levels, frames>>
  BY DEF Starts, Goes, unitState, connection
<1>1. c \in Tasks /\ frames[c] = <<>> /\ DOMAIN frames[c] = {}
  <2>1. DOMAIN <<>> = {}
    OBVIOUS
  <2>2. c \in Tasks /\ frames[c] = <<>>
    BY <1>0, Bounds DEF UShape, Placed
  <2> QED BY <2>1, <2>2
<1>2. Opens /\ Holds /\ OnTop /\ Inside
  BY <1>0 DEF LiveOK, Live, Running, MayCommit
<1>3. /\ \A u \in Tasks : pc'[u] = IF u = c THEN "body" ELSE pc[u]
      /\ \A u \in Tasks : heldBy'[u] = IF u = c THEN heldBy[t] ELSE heldBy[u]
      /\ \A u \in Tasks : within'[u] = IF u = c THEN Under(t) ELSE within[u]
  <2>1. heldBy \in [Tasks -> SUBSET Scopes] /\ within \in [Tasks -> SUBSET Scopes] /\ pc \in [Tasks -> Where]
    BY DEF UShape, UowTypeOK
  <2> QED BY <2>1, <1>0, <1>1
<1>4. \A u \in Tasks : Under(u)' = IF u = c THEN Under(t) ELSE Under(u)
  <2>1. frames' = frames
    BY <1>0
  <2>2. Under(c)' = Under(t)
    <3>1. Under(c)' = within'[c]
      BY <2>1, <1>1 DEF Under
    <3> QED BY <3>1, <1>1, <1>3
  <2>3. ASSUME NEW u \in Tasks, u # c PROVE Under(u)' = Under(u)
    <3>1. within'[u] = within[u]
      BY <1>3, <2>3
    <3> QED BY <3>1, <2>1 DEF Under
  <2> QED BY <2>2, <2>3
<1>5. \A u \in Tasks : \A i \in DOMAIN frames[u] : Resuming(u, i)' <=> Resuming(u, i)
  BY <1>0, <1>3 DEF Resuming
<1>6. Opens'
  BY <1>0, <1>2, <1>5 DEF Opens
<1>7. Holds'
  BY <1>0, <1>2, <1>3, <1>4 DEF Holds
<1>8. OnTop'
  BY <1>0, <1>2, <1>3 DEF OnTop, Scope, InFlight
<1>9. Inside'
  BY <1>0, <1>2, <1>3 DEF Inside, Scope
<1> QED BY <1>6, <1>7, <1>8, <1>9

LEMMA WriteRunsLive ==
  ASSUME UShape, LiveOK, NEW t \in Tasks, WriteRuns(t)
  PROVE  LiveOK'
<1> SUFFICES ASSUME Live' PROVE (Opens /\ Holds /\ OnTop /\ Inside)'
  BY DEF LiveOK
<1>0. /\ pc[t] = "writing" /\ pc' = [pc EXCEPT ![t] = "body"]
      /\ UNCHANGED <<status, ending, mark, poisoned, savepoints, frames, heldBy, within>>
  BY DEF WriteRuns, Goes, unitState, ghosts
<1>1. Opens /\ Holds /\ OnTop /\ Inside
  BY <1>0 DEF LiveOK, Live, Running, MayCommit
<1>2. /\ DOMAIN levels' = DOMAIN levels
      /\ \A j \in DOMAIN levels :
           levels'[j] = IF j = Max(DOMAIN levels) THEN levels[j] \cup {Write(t)} ELSE levels[j]
  BY WriteRunsShape
<1>3. \A u \in Tasks : pc'[u] = IF u = t THEN "body" ELSE pc[u]
  BY <1>0, GoesIs
<1>4. \A u \in Tasks : \A i \in DOMAIN frames[u] : Resuming(u, i)' <=> Resuming(u, i)
  BY <1>0, <1>3 DEF Resuming
<1>5. Opens'
  BY <1>0, <1>1, <1>2, <1>4 DEF Opens
<1>6. Holds'
  BY <1>0, <1>1 DEF Holds, Under
<1>7. OnTop'
  BY <1>0, <1>1, <1>3 DEF OnTop, Scope, InFlight
<1>8. Inside'
  <2>1. /\ Write(t).under = Under(t) \cap DOMAIN levels
        /\ \A j \in DOMAIN levels : j <= Max(DOMAIN levels)
    BY WriteIs, InnermostLevel
  <2>2. ASSUME NEW e \in savepoints PROVE e.id \in Write(t).under /\ e.id <= Max(DOMAIN levels)
    <3>1. e.id \in heldBy[t]
      BY <1>0, <1>1 DEF OnTop, InFlight
    <3>2. e.id \in Under(t) /\ e.id \in DOMAIN levels
      BY <3>1, <1>1 DEF Holds, Opens
    <3> QED BY <2>1, <3>2
  <2>3. ASSUME NEW u \in Tasks, pc[u] = "rolled" PROVE Scope(u).id \notin Write(t).under
    <3>1. frames[u] # <<>>
      BY <2>3 DEF UShape, Placed, Ending
    <3>2. Scope(u).id \notin DOMAIN levels
      BY <3>1, <2>3, <1>1, LastFrame DEF Opens, Resuming
    <3> QED BY <3>2, <2>1
  <2>4. ASSUME NEW j \in DOMAIN levels, NEW w \in levels'[j]
        PROVE  /\ \A e \in savepoints : e.id \in w.under <=> e.id <= j
               /\ \A u \in Tasks : pc[u] = "rolled" => Scope(u).id \notin w.under
    <3>1. CASE w \in levels[j]
      BY <3>1, <1>1 DEF Inside
    <3>2. CASE w = Write(t) /\ j = Max(DOMAIN levels)
      BY <3>2, <2>2, <2>3
    <3> QED BY <2>4, <3>1, <3>2, <1>2
  <2>5. \A u \in Tasks : Scope(u)' = Scope(u)
    BY <1>0 DEF Scope
  <2> QED BY <2>4, <2>5, <1>0, <1>2, <1>3 DEF Inside
<1> QED BY <1>5, <1>6, <1>7, <1>8

LEMMA NestedOpensLive ==
  ASSUME UShape, LiveOK, NEW t \in Tasks, NestedOpens(t)
  PROVE  LiveOK'
<1> SUFFICES ASSUME Live' PROVE (Opens /\ Holds /\ OnTop /\ Inside)'
  BY DEF LiveOK
<1> DEFINE o == opened'
           n == [id |-> o, owner |-> t]
<1>0. /\ pc[t] = "opening" /\ pc' = [pc EXCEPT ![t] = "body"]
      /\ savepoints' = savepoints \cup {n}
      /\ heldBy' = [heldBy EXCEPT ![t] = @ \cup {o}]
      /\ UNCHANGED <<status, ending, mark, poisoned, within>>
  BY DEF NestedOpens, Goes, ghosts
<1>1. Opens /\ Holds /\ OnTop /\ Inside
  BY <1>0 DEF LiveOK, Live, Running, MayCommit
<1>2. /\ o = opened + 1 /\ o \in Scopes
      /\ DOMAIN levels' = DOMAIN levels \cup {o} /\ levels'[o] = {}
      /\ \A i \in DOMAIN levels : levels'[i] = levels[i] /\ i < o
      /\ \A u \in Tasks : u # t => frames'[u] = frames[u]
      /\ Len(frames'[t]) = Len(frames[t]) + 1 /\ Len(frames[t]) \in Nat
      /\ DOMAIN frames'[t] = DOMAIN frames[t] \cup {Len(frames[t]) + 1}
      /\ frames'[t][Len(frames[t]) + 1].id = o
      /\ \A i \in DOMAIN frames[t] : frames'[t][i] = frames[t][i] /\ i # Len(frames[t]) + 1
  <2>1. frames'[t][Len(frames[t]) + 1] = [id |-> opened', depth |-> depth']
    BY OpensIs
  <2>2. frames'[t][Len(frames[t]) + 1].id = o
    BY <2>1
  <2> QED BY <2>2, OpensIs
<1>3. n.id = o /\ n.owner = t
  OBVIOUS
<1>4. /\ \A u \in Tasks : pc'[u] = IF u = t THEN "body" ELSE pc[u]
      /\ heldBy'[t] = heldBy[t] \cup {o} /\ \A u \in Tasks : u # t => heldBy'[u] = heldBy[u]
  <2>1. heldBy \in [Tasks -> SUBSET Scopes]
    BY DEF UShape, UowTypeOK
  <2>2. \A u \in Tasks : pc'[u] = IF u = t THEN "body" ELSE pc[u]
    BY <1>0, GoesIs
  <2> QED BY <2>1, <2>2, <1>0
\* The number is new.
<1>5. /\ \A e \in savepoints : e.id < o /\ e.id # o /\ ~(o < e.id)
      /\ \A u \in Tasks : o \notin heldBy[u]
      /\ \A i \in DOMAIN levels : \A w \in levels[i] : o \notin w.under
  <2>1. opened \in 0 .. MaxScopes
    BY TypesAre
  <2>2. ASSUME NEW e \in savepoints PROVE e.id < o /\ e.id # o /\ ~(o < e.id)
    BY <2>1, <1>2, SavepointIs, Limit DEF Scopes
  <2>3. ~(o <= opened)
    BY <2>1, <1>2, Limit
  <2>4. \A u \in Tasks : o \notin heldBy[u]
    BY <2>3 DEF UShape, Numbered
  <2>5. \A i \in DOMAIN levels : \A w \in levels[i] : o \notin w.under
    BY <2>3 DEF UShape, WritesNumbered
  <2> QED BY <2>2, <2>4, <2>5
<1> HIDE DEF o, n
<1>6. Opens'
  <2>1. ASSUME NEW e \in savepoints'
        PROVE  e.id \in DOMAIN levels' /\ \E i \in DOMAIN frames'[e.owner] : frames'[e.owner][i].id = e.id
    <3>1. CASE e = n
      BY <3>1, <1>2, <1>3
    <3>2. CASE e \in savepoints
      <4>1. e.id \in DOMAIN levels /\ e.owner \in Tasks
        BY <3>2, <1>1, SavepointIs DEF Opens
      <4>2. PICK i \in DOMAIN frames[e.owner] : frames[e.owner][i].id = e.id
        BY <3>2, <1>1 DEF Opens
      <4>3. i \in DOMAIN frames'[e.owner] /\ frames'[e.owner][i] = frames[e.owner][i]
        BY <4>1, <1>2
      <4> QED BY <4>1, <4>2, <4>3, <1>2
    <3> QED BY <3>1, <3>2, <1>0
  <2>2. ASSUME NEW u \in Tasks, NEW i \in DOMAIN frames'[u]
        PROVE  IF Resuming(u, i)' THEN frames'[u][i].id \notin DOMAIN levels'
               ELSE [id |-> frames'[u][i].id, owner |-> u] \in savepoints'
    <3>1. CASE u = t /\ i = Len(frames[t]) + 1
      <4>1. ~Resuming(u, i)'
        BY <3>1, <1>4 DEF Resuming
      <4>2. [id |-> frames'[u][i].id, owner |-> u] = n
        BY <3>1, <1>2 DEF n
      <4> QED BY <4>1, <4>2, <1>0
    <3>2. CASE u = t /\ i # Len(frames[t]) + 1
      <4>1. i \in DOMAIN frames[t] /\ frames'[u][i] = frames[u][i] /\ ~Resuming(u, i)' /\ ~Resuming(u, i)
        BY <3>2, <1>0, <1>2, <1>4 DEF Resuming
      <4>2. [id |-> frames[u][i].id, owner |-> u] \in savepoints
        BY <4>1, <3>2, <1>1 DEF Opens
      <4> QED BY <4>1, <4>2, <1>0
    <3>3. CASE u # t
      <4>1. i \in DOMAIN frames[u] /\ frames'[u] = frames[u] /\ (Resuming(u, i)' <=> Resuming(u, i))
        BY <3>3, <1>2, <1>4 DEF Resuming
      <4>2. frames[u][i].id # o
        <5>1. frames[u][i].id <= opened
          BY <4>1 DEF UShape, Numbered
        <5>2. opened \in 0 .. MaxScopes
          BY TypesAre
        <5> QED BY <5>1, <5>2, <1>2, Limit
      <4>3. IF Resuming(u, i) THEN frames[u][i].id \notin DOMAIN levels
            ELSE [id |-> frames[u][i].id, owner |-> u] \in savepoints
        BY <4>1, <1>1 DEF Opens
      <4> QED BY <4>1, <4>2, <4>3, <1>0, <1>2
    <3> QED BY <3>1, <3>2, <3>3
  <2> QED BY <2>1, <2>2 DEF Opens
<1>7. Holds'
  <2>1. \A u \in Tasks : Under(u) \subseteq Under(u)'
    <3>1. ASSUME NEW u \in Tasks, NEW i \in DOMAIN frames[u]
          PROVE  i \in DOMAIN frames'[u] /\ frames'[u][i] = frames[u][i]
      BY <1>2
    <3> QED BY <3>1, <1>0 DEF Under
  <2>2. o \in Under(t)'
    BY <1>2 DEF Under
  <2>3. ASSUME NEW u \in Tasks, NEW e \in savepoints', e.id \in heldBy'[u]
        PROVE  /\ e.id \in Under(u)'
               /\ \A f \in savepoints' : f.id < e.id => f.id \in heldBy'[u]
    <3>1. CASE e = n
      <4>1. u = t
        BY <2>3, <3>1, <1>3, <1>4, <1>5
      <4>2. \A f \in savepoints : f.id \in heldBy[t]
        BY <1>0, <1>1 DEF OnTop, InFlight
      <4>3. e.id \in Under(u)'
        BY <4>1, <3>1, <2>2, <1>3
      <4>4. ASSUME NEW f \in savepoints' PROVE f.id \in heldBy'[t]
        BY <4>2, <1>0, <1>3, <1>4
      <4> QED BY <4>1, <4>3, <4>4
    <3>2. CASE e \in savepoints
      <4>1. e.id \in heldBy[u]
        BY <2>3, <3>2, <1>4, <1>5
      <4>2. e.id \in Under(u)'
        BY <4>1, <3>2, <2>1, <1>1 DEF Holds
      <4>3. ASSUME NEW f \in savepoints', f.id < e.id PROVE f.id \in heldBy'[u]
        <5>1. f # n
          BY <4>3, <3>2, <1>3, <1>5
        <5>2. f.id \in heldBy[u]
          BY <5>1, <4>1, <4>3, <3>2, <1>0, <1>1 DEF Holds
        <5> QED BY <5>2, <1>4
      <4> QED BY <4>2, <4>3
    <3> QED BY <3>1, <3>2, <1>0
  <2> QED BY <2>3 DEF Holds
<1>8. OnTop'
  <2>1. ASSUME NEW u \in Tasks, pc'[u] \in InFlight PROVE FALSE
    <3>1. guard = t
      BY <1>0 DEF UShape, Guarded, InFlight
    <3>2. u # t
      BY <2>1, <1>4 DEF InFlight
    <3>3. pc[u] \in InFlight
      BY <2>1, <3>2, <1>4
    <3> QED BY <3>1, <3>2, <3>3 DEF UShape, Guarded
  <2> QED BY <2>1 DEF OnTop, InFlight
<1>9. Inside'
  <2>1. ASSUME NEW j \in DOMAIN levels', NEW w \in levels'[j]
        PROVE  /\ \A e \in savepoints' : e.id \in w.under <=> e.id <= j
               /\ \A u \in Tasks : pc'[u] = "rolled" => Scope(u)'.id \notin w.under
    <3>1. j \in DOMAIN levels /\ w \in levels[j] /\ j < o
      BY <2>1, <1>2
    <3>2. j \in Nat
      <4>1. DOMAIN levels \subseteq 0 .. MaxScopes
        BY DEF UShape, UowTypeOK
      <4> QED BY <4>1, <3>1, Limit
    <3>3. ASSUME NEW e \in savepoints' PROVE e.id \in w.under <=> e.id <= j
      <4>1. CASE e = n
        BY <4>1, <3>1, <3>2, <1>2, <1>3, <1>5, Limit DEF Scopes
      <4>2. CASE e \in savepoints
        BY <4>2, <3>1, <1>1 DEF Inside
      <4> QED BY <4>1, <4>2, <1>0
    <3>4. ASSUME NEW u \in Tasks, pc'[u] = "rolled" PROVE Scope(u)'.id \notin w.under
      <4>1. u # t /\ pc[u] = "rolled"
        BY <3>4, <1>4
      <4>2. Scope(u)' = Scope(u)
        BY <4>1, <1>2 DEF Scope
      <4> QED BY <4>1, <4>2, <3>1, <1>1 DEF Inside
    <3> QED BY <3>3, <3>4
  <2> QED BY <2>1 DEF Inside
<1> QED BY <1>6, <1>7, <1>8, <1>9

LEMMA ScopeLeftLive ==
  ASSUME UShape, LiveOK, NEW t \in Tasks, LeftBy(t), ScopeLeft(t), frames[t] # <<>>,
         pc[t] \in {"released", "rolled", "unreleased", "unrolled"}, Live' => Live
  PROVE  LiveOK'
<1> SUFFICES ASSUME Live' PROVE (Opens /\ Holds /\ OnTop /\ Inside)'
  BY DEF LiveOK
<1> DEFINE s == Scope(t).id
           l == Len(frames[t])
<1>0. /\ pc' = [pc EXCEPT ![t] = "body"] /\ savepoints' = {e \in savepoints : e.id # s}
      /\ UNCHANGED <<levels, heldBy, within>>
  BY DEF ScopeLeft, Goes, connection, ghosts, Closed
<1>1. Opens /\ Holds /\ OnTop /\ Inside
  BY DEF LiveOK
<1>2. \A u \in Tasks : pc'[u] = IF u = t THEN "body" ELSE pc[u]
  BY <1>0, GoesIs
<1>3. /\ \A u \in Tasks :
           /\ u # t => frames'[u] = frames[u]
           /\ DOMAIN frames'[u] \subseteq DOMAIN frames[u]
           /\ \A i \in DOMAIN frames'[u] : frames'[u][i] = frames[u][i] /\ (u = t => i # l)
           /\ \A i \in DOMAIN frames[u] : i \in DOMAIN frames'[u] \/ (u = t /\ i = l)
  BY DEF LeftBy
<1>4. /\ l \in DOMAIN frames[t] /\ s = frames[t][l].id /\ s \in Scopes
      /\ \A i \in DOMAIN frames[t] : i # l => frames[t][i].id < s
  BY LastFrame
<1> HIDE DEF s, l
<1>5. \A u \in Tasks : u # t => Scope(u)' = Scope(u)
  BY <1>3 DEF Scope
\* Nobody else is in the scope.
<1>6. ASSUME NEW u \in Tasks, NEW i \in DOMAIN frames'[u],
             [id |-> frames[u][i].id, owner |-> u] \in savepoints
      PROVE  frames[u][i].id # s
  <2>1. CASE u = t
    BY <2>1, <1>3, <1>4, Limit DEF Scopes
  <2>2. CASE u # t /\ Resuming(t, l)
    <3>1. s \notin DOMAIN levels
      BY <2>2, <1>1, <1>4 DEF Opens
    <3> QED BY <3>1, <1>1, <1>6 DEF Opens
  <2>3. CASE u # t /\ ~Resuming(t, l)
    <3>1. [id |-> s, owner |-> t] \in savepoints
      BY <2>3, <1>1, <1>4 DEF Opens
    <3>2. [id |-> frames[u][i].id, owner |-> u] # [id |-> s, owner |-> t]
      BY <2>3
    <3> QED BY <3>1, <3>2, <1>6 DEF UShape, Owned
  <2> QED BY <2>1, <2>2, <2>3
<1>7. Opens'
  <2>1. ASSUME NEW e \in savepoints'
        PROVE  e.id \in DOMAIN levels' /\ \E i \in DOMAIN frames'[e.owner] : frames'[e.owner][i].id = e.id
    <3>1. e \in savepoints /\ e.id # s /\ e.owner \in Tasks /\ e.id \in DOMAIN levels
      BY <1>0, <1>1, SavepointIs DEF Opens
    <3>2. PICK i \in DOMAIN frames[e.owner] : frames[e.owner][i].id = e.id
      BY <3>1, <1>1 DEF Opens
    <3>3. i \in DOMAIN frames'[e.owner]
      BY <3>1, <3>2, <1>3, <1>4
    <3> QED BY <3>1, <3>2, <3>3, <1>0, <1>3
  <2>2. ASSUME NEW u \in Tasks, NEW i \in DOMAIN frames'[u]
        PROVE  IF Resuming(u, i)' THEN frames'[u][i].id \notin DOMAIN levels'
               ELSE [id |-> frames'[u][i].id, owner |-> u] \in savepoints'
    <3>1. i \in DOMAIN frames[u] /\ frames'[u][i] = frames[u][i]
      BY <1>3
    <3>2. Resuming(u, i)' <=> Resuming(u, i)
      <4>1. CASE u = t
        BY <4>1, <1>2, <1>3 DEF Resuming, l
      <4>2. CASE u # t
        BY <4>2, <1>2, <1>3 DEF Resuming
      <4> QED BY <4>1, <4>2
    <3>3. IF Resuming(u, i) THEN frames[u][i].id \notin DOMAIN levels
          ELSE [id |-> frames[u][i].id, owner |-> u] \in savepoints
      BY <3>1, <1>1 DEF Opens
    <3>4. [id |-> frames[u][i].id, owner |-> u].id = frames[u][i].id
      OBVIOUS
    <3> QED BY <3>1, <3>2, <3>3, <3>4, <1>0, <1>6
  <2> QED BY <2>1, <2>2 DEF Opens
<1>8. Holds'
  <2>1. ASSUME NEW u \in Tasks, NEW x \in Under(u), x # s PROVE x \in Under(u)'
    <3>1. CASE x \in within[u]
      BY <3>1, <1>0 DEF Under
    <3>2. CASE x \notin within[u]
      <4>1. PICK i \in DOMAIN frames[u] : x = frames[u][i].id
        BY <3>2 DEF Under
      <4>2. i \in DOMAIN frames'[u] /\ frames'[u][i] = frames[u][i]
        BY <4>1, <2>1, <1>3, <1>4
      <4> QED BY <4>1, <4>2 DEF Under
    <3> QED BY <3>1, <3>2
  <2>2. ASSUME NEW u \in Tasks, NEW e \in savepoints', e.id \in heldBy[u]
        PROVE  e.id \in Under(u)' /\ \A f \in savepoints' : f.id < e.id => f.id \in heldBy[u]
    BY <2>1, <2>2, <1>0, <1>1 DEF Holds
  <2> QED BY <2>2, <1>0 DEF Holds
<1>9. OnTop'
  <2>1. ASSUME NEW u \in Tasks, pc'[u] \in InFlight PROVE u # t /\ pc'[u] = pc[u] /\ Scope(u)' = Scope(u)
    BY <2>1, <1>2, <1>5 DEF InFlight
  <2> QED BY <2>1, <1>0, <1>1 DEF OnTop, InFlight
<1>10. Inside'
  <2>1. ASSUME NEW u \in Tasks, pc'[u] = "rolled" PROVE pc[u] = "rolled" /\ Scope(u)' = Scope(u)
    BY <2>1, <1>2, <1>5
  <2> QED BY <2>1, <1>0, <1>1 DEF Inside
<1> QED BY <1>7, <1>8, <1>9, <1>10

\* Below the scope that ends are all the savepoints that stay.
LEMMA OnTopEnds ==
  ASSUME UShape, Opens, OnTop, NEW t \in Tasks, pc[t] \in {"release", "rollback"}
  PROVE  /\ frames[t] # <<>> /\ Scope(t).id \in DOMAIN levels /\ Scope(t).id \in Scopes
         /\ \E e \in savepoints : e.id = Scope(t).id
         /\ \A e \in savepoints : e.id # Scope(t).id => e.id < Scope(t).id
         /\ Closed(From(Scope(t).id)) = {e \in savepoints : e.id # Scope(t).id}
         /\ Closed(From(Scope(t).id) \ {Scope(t).id}) = savepoints
<1> DEFINE s == Scope(t).id
<1>1. frames[t] # <<>>
  BY DEF UShape, Placed, Ending
<1>2. /\ Len(frames[t]) \in DOMAIN frames[t] /\ s = frames[t][Len(frames[t])].id /\ s \in Scopes
  BY <1>1, LastFrame
<1>3. [id |-> s, owner |-> t] \in savepoints
  BY <1>2 DEF Opens, Resuming
<1>4. s \in DOMAIN levels
  <2>1. [id |-> s, owner |-> t].id = s
    OBVIOUS
  <2> QED BY <2>1, <1>3 DEF Opens
<1> HIDE DEF s
<1>5. ASSUME NEW e \in savepoints PROVE e.id \in Scopes /\ e.id <= s /\ e.id \in DOMAIN levels
  BY SavepointIs DEF OnTop, Opens, s
<1>6. ASSUME NEW e \in savepoints, e.id # s PROVE e.id < s /\ ~(e.id >= s)
  BY <1>2, <1>5, <1>6, Limit DEF Scopes
<1>7. \A e \in savepoints : e.id \in From(s) <=> e.id = s
  <2>1. s \in From(s)
    BY <1>2, <1>4, Limit DEF From, Scopes
  <2> QED BY <2>1, <1>6 DEF From
<1>8. Closed(From(s)) = {e \in savepoints : e.id # s} /\ Closed(From(s) \ {s}) = savepoints
  BY <1>7 DEF Closed
<1> QED BY <1>1, <1>2, <1>3, <1>4, <1>6, <1>8 DEF s

LEMMA EndsLive ==
  ASSUME UShape, Opens, Holds, OnTop, NEW t \in Tasks, NEW where \in {"released", "rolled"},
         pc[t] \in {"release", "rollback"}, pc' = [pc EXCEPT ![t] = where],
         savepoints' = Closed(From(Scope(t).id)),
         DOMAIN levels' = {i \in DOMAIN levels : i < Scope(t).id},
         UNCHANGED <<frames, heldBy, within>>
  PROVE  (Opens /\ Holds /\ OnTop)'
<1> DEFINE s == Scope(t).id
           l == Len(frames[t])
<1>1. /\ frames[t] # <<>> /\ s \in DOMAIN levels /\ s \in Scopes
      /\ \A e \in savepoints : e.id # s => e.id < s
      /\ savepoints' = {e \in savepoints : e.id # s}
  BY OnTopEnds
<1>2. \A u \in Tasks : pc'[u] = IF u = t THEN where ELSE pc[u]
  BY GoesIs
<1>3. \A u \in Tasks : Scope(u)' = Scope(u) /\ Under(u)' = Under(u)
  BY DEF Scope, Under
<1>4. l \in DOMAIN frames[t] /\ s = frames[t][l].id
  BY <1>1, LastFrame
<1>5. DOMAIN levels' = {i \in DOMAIN levels : i < s} /\ ~(s < s)
  BY <1>1, Limit DEF Scopes
<1>6. [id |-> s, owner |-> t] \in savepoints
  BY <1>4 DEF Opens, Resuming, l
<1> HIDE DEF s, l
<1>7. Opens'
  <2>1. ASSUME NEW e \in savepoints' PROVE e.id \in DOMAIN levels'
    BY <1>1, <1>5 DEF Opens
  <2>2. ASSUME NEW e \in savepoints' PROVE \E i \in DOMAIN frames[e.owner] : frames[e.owner][i].id = e.id
    BY <1>1 DEF Opens
  <2>3. ASSUME NEW u \in Tasks, NEW i \in DOMAIN frames[u], Resuming(u, i)'
        PROVE  frames[u][i].id \notin DOMAIN levels'
    <3>1. CASE u = t
      <4>1. i = l
        BY <2>3, <3>1 DEF Resuming, l
      <4> QED BY <4>1, <3>1, <1>4, <1>5
    <3>2. CASE u # t
      <4>1. Resuming(u, i)
        BY <2>3, <3>2, <1>2 DEF Resuming
      <4> QED BY <4>1, <1>5 DEF Opens
    <3> QED BY <3>1, <3>2
  <2>4. ASSUME NEW u \in Tasks, NEW i \in DOMAIN frames[u], ~Resuming(u, i)'
        PROVE  [id |-> frames[u][i].id, owner |-> u] \in savepoints'
    <3>1. ~Resuming(u, i) /\ ~(u = t /\ i = l)
      BY <2>4, <1>2 DEF Resuming, l
    <3>2. [id |-> frames[u][i].id, owner |-> u] \in savepoints
      BY <3>1 DEF Opens
    <3>3. frames[u][i].id # s
      <4>1. CASE u = t
        <5>1. frames[u][i].id < s
          BY <4>1, <3>1, <1>1, LastFrame DEF s, l
        <5> QED BY <5>1, <1>5
      <4>2. CASE u # t
        <5>1. [id |-> frames[u][i].id, owner |-> u] # [id |-> s, owner |-> t]
          BY <4>2
        <5> QED BY <5>1, <3>2, <1>6 DEF UShape, Owned
      <4> QED BY <4>1, <4>2
    <3> QED BY <3>2, <3>3, <1>1
  <2> QED BY <2>1, <2>2, <2>3, <2>4 DEF Opens
<1>8. Holds'
  BY <1>1, <1>3 DEF Holds
<1>9. OnTop'
  <2>1. ASSUME NEW u \in Tasks, pc'[u] \in InFlight PROVE pc'[u] = pc[u]
    BY <2>1, <1>2 DEF InFlight
  <2> QED BY <2>1, <1>1, <1>3 DEF OnTop, InFlight
<1> QED BY <1>7, <1>8, <1>9

LEMMA ReleaseRunsLive ==
  ASSUME UShape, LiveOK, NEW t \in Tasks, ReleaseRuns(t)
  PROVE  LiveOK'
<1> SUFFICES ASSUME Live' PROVE (Opens /\ Holds /\ OnTop /\ Inside)'
  BY DEF LiveOK
<1> DEFINE s == Scope(t).id
           m == Max({i \in DOMAIN levels : i < s})
<1>0. /\ pc[t] = "release" /\ pc' = [pc EXCEPT ![t] = "released"]
      /\ savepoints' = Closed(From(s))
      /\ UNCHANGED <<status, ending, mark, poisoned, frames, heldBy, within>>
  BY DEF ReleaseRuns, Goes, ghosts
<1>1. Opens /\ Holds /\ OnTop /\ Inside
  BY <1>0 DEF LiveOK, Live, Running, MayCommit
<1>2. /\ frames[t] # <<>> /\ s \in DOMAIN levels /\ s \in Scopes
      /\ \A e \in savepoints : e.id # s => e.id < s
      /\ savepoints' = {e \in savepoints : e.id # s}
  BY <1>0, <1>1, OnTopEnds
<1>3. /\ DOMAIN levels' = {i \in DOMAIN levels : i < s}
      /\ m \in DOMAIN levels' /\ \A i \in DOMAIN levels' : i <= m
      /\ \A i \in DOMAIN levels' :
           levels'[i] = IF i = m THEN levels[i] \cup WritesFrom(s) ELSE levels[i]
  BY ReleaseRunsShape DEF Merged
<1>4. \A w : w \in WritesFrom(s) <=> \E j \in DOMAIN levels : j >= s /\ w \in levels[j]
  BY <1>2, BelowIs
<1>5. (Opens /\ Holds /\ OnTop)'
  BY <1>0, <1>1, <1>3, EndsLive
<1>6. \A u \in Tasks : pc'[u] = (IF u = t THEN "released" ELSE pc[u]) /\ Scope(u)' = Scope(u)
  BY <1>0, GoesIs DEF Scope
<1> HIDE DEF s, m
<1>7. Inside'
  <2>1. ASSUME NEW j \in DOMAIN levels', NEW w \in levels'[j]
        PROVE  /\ \A e \in savepoints' : e.id \in w.under <=> e.id <= j
               /\ \A u \in Tasks : pc[u] = "rolled" => Scope(u).id \notin w.under
    <3>1. CASE w \in levels[j]
      BY <3>1, <1>1, <1>2, <1>3 DEF Inside
    <3>2. CASE j = m /\ w \in WritesFrom(s)
      <4>1. PICK k \in DOMAIN levels : k >= s /\ w \in levels[k]
        BY <3>2, <1>4
      <4>2. ASSUME NEW e \in savepoints' PROVE e.id \in w.under /\ e.id <= j
        <5>1. e \in savepoints /\ e.id < s /\ e.id \in Scopes
          BY <1>2, SavepointIs
        <5>2. e.id \in DOMAIN levels'
          BY <5>1, <1>1, <1>3 DEF Opens
        <5>3. k \in 0 .. MaxScopes
          BY DEF UShape, UowTypeOK
        <5>4. e.id <= k
          BY <5>1, <5>3, <4>1, <1>2, Limit DEF Scopes
        <5> QED BY <5>1, <5>2, <5>4, <4>1, <3>2, <1>1, <1>3 DEF Inside
      <4> QED BY <4>1, <4>2, <1>1 DEF Inside
    <3> QED BY <2>1, <3>1, <3>2, <1>3
  <2> QED BY <2>1, <1>6 DEF Inside
<1> QED BY <1>5, <1>7

LEMMA RolledBackLive ==
  ASSUME UShape, LiveOK, NEW t \in Tasks, RolledBack(t)
  PROVE  LiveOK'
<1> SUFFICES ASSUME Live' PROVE (Opens /\ Holds /\ OnTop /\ Inside)'
  BY DEF LiveOK
<1> DEFINE s == Scope(t).id
<1>0. /\ pc[t] = "rollback" /\ pc' = [pc EXCEPT ![t] = "rolled"]
      /\ savepoints' = Closed(From(s))
      /\ UNCHANGED <<status, ending, mark, poisoned, frames, heldBy, within>>
  BY DEF RolledBack, Goes, ghosts
<1>1. Opens /\ Holds /\ OnTop /\ Inside
  BY <1>0 DEF LiveOK, Live, Running, MayCommit
<1>2. /\ s \in Scopes /\ \E e \in savepoints : e.id = s
      /\ savepoints' = {e \in savepoints : e.id # s}
  BY <1>0, <1>1, OnTopEnds
<1>3. /\ DOMAIN levels' = {i \in DOMAIN levels : i < s}
      /\ \A i \in DOMAIN levels' : levels'[i] = levels[i]
  BY RolledBackShape
<1>4. (Opens /\ Holds /\ OnTop)'
  BY <1>0, <1>1, <1>3, EndsLive
<1>5. \A u \in Tasks : pc'[u] = (IF u = t THEN "rolled" ELSE pc[u]) /\ Scope(u)' = Scope(u)
  BY <1>0, GoesIs DEF Scope
<1> HIDE DEF s
<1>6. ASSUME NEW j \in DOMAIN levels', NEW w \in levels'[j]
      PROVE  /\ \A e \in savepoints' : e.id \in w.under <=> e.id <= j
             /\ \A u \in Tasks : pc[u] = "rolled" => Scope(u).id \notin w.under
             /\ s \notin w.under
  <2>1. j \in DOMAIN levels /\ w \in levels[j] /\ j < s
    BY <1>3
  <2>2. j \in 0 .. MaxScopes
    BY <2>1 DEF UShape, UowTypeOK
  <2>3. ~(s <= j)
    BY <2>1, <2>2, <1>2, Limit DEF Scopes
  <2> QED BY <2>1, <2>3, <1>1, <1>2 DEF Inside
<1>7. Inside'
  BY <1>5, <1>6 DEF Inside, s
<1> QED BY <1>4, <1>7

LEMMA ReleaseFailsLive ==
  ASSUME UShape, LiveOK, NEW t \in Tasks, ReleaseFails(t), Live' => Live
  PROVE  LiveOK'
<1> SUFFICES ASSUME Live' PROVE (Opens /\ Holds /\ OnTop /\ Inside)'
  BY DEF LiveOK
<1> DEFINE s == Scope(t).id
<1>0. /\ pc[t] = "release" /\ pc' = [pc EXCEPT ![t] = "unreleased"]
      /\ savepoints' = Closed(From(s) \ {s})
      /\ UNCHANGED <<frames, heldBy, within>>
  BY DEF ReleaseFails, Goes, ghosts
<1>1. Opens /\ Holds /\ OnTop /\ Inside
  BY DEF LiveOK
<1>2. /\ frames[t] # <<>> /\ s \in DOMAIN levels /\ s \in Scopes
      /\ \A e \in savepoints : e.id # s => e.id < s
      /\ savepoints' = savepoints
  BY <1>0, <1>1, OnTopEnds
<1>3. /\ DOMAIN levels' = {i \in DOMAIN levels : i < s} \cup {s} /\ levels'[s] = {}
      /\ \A i \in DOMAIN levels : i < s => levels'[i] = levels[i]
  BY <1>2, ReleaseFailsIs
<1>4. \A u \in Tasks : /\ pc'[u] = (IF u = t THEN "unreleased" ELSE pc[u])
                       /\ Scope(u)' = Scope(u) /\ Under(u)' = Under(u)
  BY <1>0, GoesIs DEF Scope, Under
<1> HIDE DEF s
<1>5. \A u \in Tasks : \A i \in DOMAIN frames[u] : Resuming(u, i)' <=> Resuming(u, i)
  BY <1>0, <1>4 DEF Resuming
<1>6. Opens'
  <2>1. DOMAIN levels' \subseteq DOMAIN levels
    BY <1>2, <1>3
  <2>2. \A e \in savepoints : e.id \in DOMAIN levels'
    BY <1>1, <1>2, <1>3 DEF Opens
  <2> QED BY <2>1, <2>2, <1>0, <1>1, <1>2, <1>5 DEF Opens
<1>7. Holds'
  BY <1>0, <1>1, <1>2, <1>4 DEF Holds
<1>8. OnTop'
  BY <1>1, <1>0, <1>2, <1>4 DEF OnTop, InFlight
<1>9. Inside'
  BY <1>1, <1>2, <1>3, <1>4 DEF Inside
<1> QED BY <1>6, <1>7, <1>8, <1>9

-------------------------------------------------------------------------------
(* Every step keeps what is true of the unit that commits. *)

LEMMA QuietCommit ==
  ASSUME UShape, CommitOK, NEW t \in Tasks, NEW where, pc' = [pc EXCEPT ![t] = where],
         pc[t] # "released", UNCHANGED <<status, ending, levels, frames, committed>>,
         where \in InFlight => status = "ACTIVE"
  PROVE  CommitOK'
<1>1. \A u \in Tasks : pc'[u] = IF u = t THEN where ELSE pc[u]
  BY GoesIs
<1>2. Everything' = Everything
  BY DEF Everything
<1>3. \A writes : NoneOpen(writes) => NoneOpen(writes)'
  BY <1>1 DEF NoneOpen
<1>4. NoneOpen(committed)'
  BY <1>3 DEF CommitOK, NoneOpen
<1>5. ASSUME status = "COMPLETING", ending = "commit"
      PROVE  /\ NoneOpen(Everything)'
             /\ \A u \in Tasks :
                  /\ pc'[u] \notin {"release", "rollback"}
                  /\ pc'[u] = "writing" =>
                       \A v \in Tasks : \A i \in DOMAIN frames[v] : frames[v][i].id \notin DOMAIN levels
  <2>1. NoneOpen(Everything)'
    BY <1>2, <1>3, <1>5 DEF CommitOK, NoneOpen
  <2>2. where \notin InFlight
    BY <1>5
  <2> QED BY <2>1, <2>2, <1>1, <1>5 DEF CommitOK, InFlight
<1>6. Running' <=> Running
  BY DEF Running
<1> QED BY <1>4, <1>5, <1>6 DEF CommitOK

LEMMA LeftCommit ==
  ASSUME UShape, CommitOK, NEW t \in Tasks, LeftBy(t),
         (pc' = pc /\ pc[t] = "body") \/ pc' = [pc EXCEPT ![t] = "body"],
         UNCHANGED <<status, ending, levels, committed>>
  PROVE  CommitOK'
<1>1. \A u \in Tasks : pc'[u] = IF u = t THEN "body" ELSE pc[u]
  BY GoesIs
<1>2. Everything' = Everything
  BY DEF Everything
<1>3. /\ \A u \in Tasks :
           /\ u # t => frames'[u] = frames[u]
           /\ DOMAIN frames'[u] \subseteq DOMAIN frames[u]
           /\ \A i \in DOMAIN frames'[u] : frames'[u][i] = frames[u][i] /\ (u = t => i # Len(frames[t]))
  BY DEF LeftBy
<1>4. ASSUME NEW writes, NoneOpen(writes), NEW u \in Tasks, NEW w \in writes, NEW i \in DOMAIN frames'[u],
             frames'[u][i].id \in w.under
      PROVE  pc'[u] = "released" /\ i = Len(frames'[u])
  <2>1. pc[u] = "released" /\ i = Len(frames[u])
    BY <1>3, <1>4 DEF NoneOpen
  <2>2. u # t
    BY <2>1, <1>3
  <2> QED BY <2>1, <2>2, <1>1, <1>3
<1>5. NoneOpen(committed)'
  BY <1>4 DEF CommitOK, NoneOpen
<1>6. ASSUME status = "COMPLETING", ending = "commit"
      PROVE  /\ NoneOpen(Everything)'
             /\ \A u \in Tasks :
                  /\ pc'[u] \notin {"release", "rollback"}
                  /\ pc'[u] = "writing" =>
                       \A v \in Tasks : \A i \in DOMAIN frames'[v] : frames'[v][i].id \notin DOMAIN levels
  <2>1. NoneOpen(Everything)'
    BY <1>2, <1>4, <1>6 DEF CommitOK, NoneOpen
  <2> QED BY <2>1, <1>1, <1>3, <1>6 DEF CommitOK
<1>7. Running' <=> Running
  BY DEF Running
<1> QED BY <1>5, <1>6, <1>7 DEF CommitOK

LEMMA WriteRunsCommit ==
  ASSUME UShape, CommitOK, NEW t \in Tasks, WriteRuns(t)
  PROVE  CommitOK'
<1>0. /\ pc[t] = "writing" /\ pc' = [pc EXCEPT ![t] = "body"]
      /\ UNCHANGED <<status, ending, frames, committed>>
  BY DEF WriteRuns, Goes, unitState, ghosts
<1>1. \A u \in Tasks : pc'[u] = IF u = t THEN "body" ELSE pc[u]
  BY <1>0, GoesIs
<1>2. /\ DOMAIN levels' = DOMAIN levels
      /\ \A j \in DOMAIN levels :
           levels'[j] = IF j = Max(DOMAIN levels) THEN levels[j] \cup {Write(t)} ELSE levels[j]
  BY WriteRunsShape
<1>3. Write(t).under \subseteq DOMAIN levels
  BY WriteIs
<1>4. ASSUME NEW w \in Everything' PROVE w \in Everything \/ w = Write(t)
  BY <1>2 DEF Everything
<1>5. NoneOpen(committed)'
  BY <1>0, <1>1 DEF CommitOK, NoneOpen
<1>6. ASSUME status = "COMPLETING", ending = "commit"
      PROVE  /\ NoneOpen(Everything)'
             /\ \A u \in Tasks :
                  /\ pc'[u] \notin {"release", "rollback"}
                  /\ pc'[u] = "writing" =>
                       \A v \in Tasks : \A i \in DOMAIN frames[v] : frames[v][i].id \notin DOMAIN levels
  <2>1. \A v \in Tasks : \A i \in DOMAIN frames[v] : frames[v][i].id \notin DOMAIN levels
    BY <1>0, <1>6 DEF CommitOK
  <2>2. ASSUME NEW u \in Tasks, NEW w \in Everything', NEW i \in DOMAIN frames[u], frames[u][i].id \in w.under
        PROVE  pc'[u] = "released" /\ i = Len(frames[u])
    <3>1. w \in Everything
      BY <2>1, <2>2, <1>3, <1>4
    <3>2. pc[u] = "released" /\ i = Len(frames[u])
      BY <3>1, <2>2, <1>6 DEF CommitOK, NoneOpen
    <3> QED BY <3>2, <1>0, <1>1
  <2>3. NoneOpen(Everything)'
    BY <2>2, <1>0 DEF NoneOpen
  <2> QED BY <2>3, <1>1, <1>6 DEF CommitOK
<1>7. Running' <=> Running
  BY <1>0 DEF Running
<1> QED BY <1>0, <1>2, <1>5, <1>6, <1>7 DEF CommitOK

LEMMA NestedOpensCommit ==
  ASSUME UShape, CommitOK, NEW t \in Tasks, NestedOpens(t)
  PROVE  CommitOK'
<1> DEFINE o == opened'
<1>0. /\ pc[t] = "opening" /\ pc' = [pc EXCEPT ![t] = "body"]
      /\ UNCHANGED <<status, ending, committed>>
  BY DEF NestedOpens, Goes, ghosts
<1>1. \A u \in Tasks : pc'[u] = IF u = t THEN "body" ELSE pc[u]
  BY <1>0, GoesIs
<1>2. guard = t /\ Running /\ committed = {}
  <2>1. guard = t
    BY <1>0 DEF UShape, Guarded, InFlight
  <2> QED BY <2>1, Bounds DEF UShape, Guarded, CommitOK
<1>3. /\ o = opened + 1
      /\ DOMAIN levels' = DOMAIN levels \cup {o} /\ levels'[o] = {}
      /\ \A i \in DOMAIN levels : levels'[i] = levels[i]
      /\ \A u \in Tasks : u # t => frames'[u] = frames[u]
      /\ DOMAIN frames'[t] = DOMAIN frames[t] \cup {Len(frames[t]) + 1}
      /\ \A i \in DOMAIN frames[t] : frames'[t][i] = frames[t][i]
  BY OpensIs
<1>4. frames'[t][Len(frames[t]) + 1].id = o
  <2>1. frames'[t][Len(frames[t]) + 1] = [id |-> opened', depth |-> depth']
    BY OpensIs
  <2> QED BY <2>1
<1>5. ~(o <= opened)
  <2>1. opened \in 0 .. MaxScopes
    BY TypesAre
  <2> QED BY <2>1, <1>3, Limit
<1> HIDE DEF o
<1>6. ASSUME NEW w \in Everything' PROVE w \in Everything /\ o \notin w.under
  <2>1. PICK j \in DOMAIN levels' : w \in levels'[j]
    BY DEF Everything
  <2>2. j \in DOMAIN levels /\ w \in levels[j]
    BY <2>1, <1>3
  <2> QED BY <2>2, <1>5 DEF Everything, UShape, WritesNumbered
<1>7. ASSUME status = "COMPLETING", ending = "commit"
      PROVE  /\ NoneOpen(Everything)'
             /\ \A u \in Tasks : pc'[u] \notin {"release", "rollback"} /\ pc'[u] # "writing"
  <2>1. ASSUME NEW u \in Tasks, NEW w \in Everything', NEW i \in DOMAIN frames'[u], frames'[u][i].id \in w.under
        PROVE  pc'[u] = "released" /\ i = Len(frames'[u])
    <3>1. NoneOpen(Everything) /\ w \in Everything
      BY <1>6, <1>7 DEF CommitOK
    <3>2. CASE u # t
      BY <3>1, <3>2, <2>1, <1>1, <1>3 DEF NoneOpen
    <3>3. CASE u = t /\ i = Len(frames[t]) + 1
      BY <3>3, <2>1, <1>4, <1>6
    <3>4. CASE u = t /\ i # Len(frames[t]) + 1
      <4>1. i \in DOMAIN frames[t] /\ frames[t][i].id \in w.under
        BY <3>4, <2>1, <1>3
      <4> QED BY <4>1, <3>1, <3>4, <1>0 DEF NoneOpen
    <3> QED BY <3>2, <3>3, <3>4
  <2>2. NoneOpen(Everything)'
    BY <2>1 DEF NoneOpen
  <2>3. ASSUME NEW u \in Tasks PROVE pc'[u] # "writing"
    <3>1. u # t => pc[u] \notin InFlight
      BY <1>2 DEF UShape, Guarded
    <3> QED BY <3>1, <1>1 DEF InFlight
  <2>4. \A u \in Tasks : pc'[u] \notin {"release", "rollback"}
    BY <1>1, <1>7 DEF CommitOK
  <2> QED BY <2>2, <2>3, <2>4
<1>8. NoneOpen(committed)'
  BY <1>0, <1>2 DEF NoneOpen
<1> QED BY <1>0, <1>2, <1>7, <1>8 DEF CommitOK

LEMMA EndsCommit ==
  ASSUME UShape, CommitOK, NEW t \in Tasks, pc[t] \in {"release", "rollback"},
         UNCHANGED <<status, ending, committed>>
  PROVE  CommitOK'
<1>1. guard = t
  BY DEF UShape, Guarded, InFlight
<1>2. Running /\ committed = {}
  BY <1>1, Bounds DEF UShape, Guarded, CommitOK
<1>3. ~(status = "COMPLETING" /\ ending = "commit")
  BY DEF CommitOK
<1>4. NoneOpen(committed)'
  BY <1>2 DEF NoneOpen
<1> QED BY <1>2, <1>3, <1>4 DEF CommitOK

LEMMA UnitEndsCommit ==
  ASSUME UShape, CommitOK, NEW how \in {"COMMITTED", "ROLLED_BACK", "UNKNOWN"}, NEW writes,
         UnitEnds(how, writes), writes # {} => ending = "commit" /\ writes = Everything
  PROVE  CommitOK'
<1>1. /\ status = "COMPLETING" /\ status' = how /\ committed' = writes /\ pc' = [pc EXCEPT ![Root] = "done"]
      /\ UNCHANGED frames
  BY DEF UnitEnds, Goes, ghosts
<1>2. pc[Root] = "completing"
  BY <1>1 DEF UShape, Placed
<1>3. \A u \in Tasks : pc'[u] = IF u = Root THEN "done" ELSE pc[u]
  <2>1. pc' = [pc EXCEPT ![Root] = "done"] /\ Root \in Tasks
    BY <1>1, Bounds
  <2> QED BY <2>1, GoesIs
<1>4. NoneOpen(writes)
  BY <1>1 DEF CommitOK, NoneOpen
<1>5. NoneOpen(committed)'
  BY <1>1, <1>2, <1>3, <1>4 DEF NoneOpen
<1> QED BY <1>1, <1>5 DEF CommitOK, Running

\* A unit that may commit with no savepoint of another task has none at all.
LEMMA BoundaryCommit ==
  ASSUME UShape, LiveOK, CommitOK, NEW way \in {"commit", "rollback"}, BoundaryEnds(way),
         way = "commit" => MayCommit /\ ~HeldElsewhere
  PROVE  CommitOK'
<1>1. /\ pc[Root] = "body" /\ frames[Root] = <<>> /\ status = "ACTIVE"
      /\ status' = "COMPLETING" /\ ending' = way /\ pc' = [pc EXCEPT ![Root] = "completing"]
      /\ UNCHANGED <<levels, frames, committed>>
  BY DEF BoundaryEnds, Goes, Completed, connection, ghosts
<1>2. \A u \in Tasks : pc'[u] = IF u = Root THEN "completing" ELSE pc[u]
  <2>1. pc' = [pc EXCEPT ![Root] = "completing"] /\ Root \in Tasks
    BY <1>1, Bounds
  <2> QED BY <2>1, GoesIs
<1>3. committed = {} /\ Running
  BY <1>1 DEF CommitOK, Running
<1>4. Everything' = Everything
  BY <1>1 DEF Everything
<1>5. ASSUME way = "commit"
      PROVE  /\ NoneOpen(Everything)'
             /\ \A u \in Tasks :
                  /\ pc'[u] \notin {"release", "rollback"}
                  /\ \A i \in DOMAIN frames[u] : frames[u][i].id \notin DOMAIN levels
  <2>1. Opens /\ Inside
    BY <1>3, <1>5 DEF LiveOK, Live
  <2>2. ASSUME NEW e \in savepoints PROVE FALSE
    <3>1. ~Foreign(e, Root)
      BY <1>5 DEF HeldElsewhere
    <3>2. e.id \in heldBy[Root]
      BY <3>1, <2>1, OwnersLive DEF Foreign
    <3>3. e.owner = Root
      BY <3>2, Bounds DEF UShape, Owned
    <3> QED BY <3>3, <2>1, <1>1, OwnersLive
  <2>3. ASSUME NEW u \in Tasks, NEW i \in DOMAIN frames[u]
        PROVE  Resuming(u, i) /\ frames[u][i].id \notin DOMAIN levels /\ frames[u] # <<>>
    <3>1. DOMAIN <<>> = {}
      OBVIOUS
    <3> QED BY <3>1, <2>1, <2>2 DEF Opens
  <2>4. ASSUME NEW u \in Tasks, NEW w \in Everything, NEW i \in DOMAIN frames[u], frames[u][i].id \in w.under
        PROVE  pc[u] = "released" /\ i = Len(frames[u])
    <3>1. pc[u] \in {"released", "rolled"} /\ i = Len(frames[u])
      BY <2>3 DEF Resuming
    <3>2. Scope(u).id = frames[u][i].id
      BY <3>1, <2>3, LastFrame
    <3>3. pc[u] # "rolled"
      BY <3>2, <2>1, <2>4 DEF Inside, Everything
    <3> QED BY <3>1, <3>3
  <2>5. NoneOpen(Everything)'
    BY <2>4, <1>1, <1>2, <1>4 DEF NoneOpen
  <2>6. ASSUME NEW u \in Tasks PROVE pc'[u] \notin {"release", "rollback"}
    <3>1. pc[u] \notin {"release", "rollback"}
      BY <2>1, <2>2, OnTopEnds, <1>3, <1>5 DEF LiveOK, Live
    <3> QED BY <3>1, <1>2
  <2> QED BY <2>3, <2>5, <2>6
<1>6. NoneOpen(committed)'
  BY <1>1, <1>3 DEF NoneOpen
<1> QED BY <1>1, <1>3, <1>5, <1>6 DEF CommitOK

-------------------------------------------------------------------------------
(* Every step keeps the invariant. *)

\* What a step may not take back.
Stays ==
  /\ \/ status' = status
     \/ status = "ACTIVE" /\ status' = "COMPLETING"
  /\ poisoned => poisoned'
  /\ mark = 0 => mark' = 0

LEMMA StaysLive ==
  ASSUME UShape, UShape', Stays
  PROVE  Live' => Live
  BY DEF Stays, Live, Running, MayCommit, UShape, UowTypeOK

LEMMA MarkStays ==
  ASSUME UShape, NEW d \in 0 .. MaxScopes, mark' = Marked(d)
  PROVE  mark = 0 => mark' = 0
  BY MarkedIs DEF UShape

LEMMA InvIs == UInv => UShape /\ LiveOK /\ CommitOK
  BY DEF UInv

LEMMA WriteBeginsKeeps ==
  ASSUME UInv, NEW t \in Tasks, WriteBegins(t)
  PROVE  UInv'
<1>1. UShape /\ LiveOK /\ CommitOK
  BY InvIs
<1>2. UShape'
  BY <1>1, WriteBeginsShape
<1>3. OperationBegins(t, "body", "writing")
  BY DEF WriteBegins
<1>4. LiveOK'
  BY <1>1, <1>3, BeginsLive DEF InFlight, Ending
<1>5. CommitOK'
  BY <1>1, <1>3, QuietCommit DEF OperationBegins, Usable, unitState, connection, Goes
<1> QED BY <1>2, <1>4, <1>5 DEF UInv

LEMMA NestedBeginsKeeps ==
  ASSUME UInv, NEW t \in Tasks, NestedBegins(t)
  PROVE  UInv'
<1>1. UShape /\ LiveOK /\ CommitOK
  BY InvIs
<1>2. UShape'
  BY <1>1, NestedBeginsShape
<1>3. OperationBegins(t, "body", "opening")
  BY DEF NestedBegins
<1>4. LiveOK'
  BY <1>1, <1>3, BeginsLive DEF InFlight, Ending
<1>5. CommitOK'
  BY <1>1, <1>3, QuietCommit DEF OperationBegins, Usable, unitState, connection, Goes
<1> QED BY <1>2, <1>4, <1>5 DEF UInv

LEMMA ReleaseBeginsKeeps ==
  ASSUME UInv, NEW t \in Tasks, ReleaseBegins(t)
  PROVE  UInv'
<1>1. UShape /\ LiveOK /\ CommitOK
  BY InvIs
<1>2. UShape'
  BY <1>1, ReleaseBeginsShape
<1>3. OperationBegins(t, "releasing", "release")
  BY DEF ReleaseBegins
<1>4. LiveOK'
  BY <1>1, <1>3, BeginsLive DEF InFlight, Ending
<1>5. CommitOK'
  BY <1>1, <1>3, QuietCommit DEF OperationBegins, Usable, unitState, connection, Goes
<1> QED BY <1>2, <1>4, <1>5 DEF UInv

LEMMA RollbackBeginsKeeps ==
  ASSUME UInv, NEW t \in Tasks, RollbackBegins(t)
  PROVE  UInv'
<1>1. UShape /\ LiveOK /\ CommitOK
  BY InvIs
<1>2. UShape'
  BY <1>1, RollbackBeginsShape
<1>3. OperationBegins(t, "rolling", "rollback")
  BY DEF RollbackBegins
<1>4. LiveOK'
  BY <1>1, <1>3, BeginsLive DEF InFlight, Ending
<1>5. CommitOK'
  BY <1>1, <1>3, QuietCommit DEF OperationBegins, Usable, unitState, connection, Goes
<1> QED BY <1>2, <1>4, <1>5 DEF UInv

LEMMA TaskEndsKeeps ==
  ASSUME UInv, NEW t \in Tasks, TaskEnds(t)
  PROVE  UInv'
<1>1. UShape /\ LiveOK /\ CommitOK
  BY InvIs
<1>2. UShape'
  BY <1>1, TaskEndsShape
<1> DEFINE where == "done"
<1>3. /\ pc' = [pc EXCEPT ![t] = where] /\ pc[t] \notin {"released", "rolled"}
      /\ UNCHANGED <<status, ending, savepoints, levels, committed, frames, heldBy, within>>
  BY DEF TaskEnds, unitState, connection, ghosts, Goes
<1>4. Stays
  BY DEF Stays, TaskEnds, unitState, connection, ghosts, Goes
<1>5. Live' => Live
  BY <1>1, <1>2, <1>4, StaysLive
<1>6. where \notin {"released", "rolled"} /\ where \notin InFlight
  BY DEF InFlight
<1> HIDE DEF where
<1>7. LiveOK'
  BY <1>1, <1>3, <1>5, <1>6, QuietLive
<1>8. CommitOK'
  BY <1>1, <1>3, <1>6, QuietCommit
<1> QED BY <1>2, <1>7, <1>8 DEF UInv

LEMMA StatementFailsKeeps ==
  ASSUME UInv, NEW t \in Tasks, StatementFails(t)
  PROVE  UInv'
<1>1. UShape /\ LiveOK /\ CommitOK
  BY InvIs
<1>2. UShape'
  BY <1>1, StatementFailsShape
<1> DEFINE where == "body"
<1>3. /\ pc' = [pc EXCEPT ![t] = where] /\ pc[t] \notin {"released", "rolled"}
      /\ UNCHANGED <<status, ending, savepoints, levels, committed, frames, heldBy, within>>
  BY DEF StatementFails, unitState, connection, ghosts, Goes
<1>4. Stays
  <2>1. mark' = Marked(depth) /\ depth \in 0 .. MaxScopes
    BY <1>1, TypesAre DEF StatementFails
  <2>2. mark = 0 => mark' = 0
    BY <1>1, <2>1, MarkStays
  <2> QED BY <2>2 DEF Stays, StatementFails
<1>5. Live' => Live
  BY <1>1, <1>2, <1>4, StaysLive
<1>6. where \notin {"released", "rolled"} /\ where \notin InFlight
  BY DEF InFlight
<1> HIDE DEF where
<1>7. LiveOK'
  BY <1>1, <1>3, <1>5, <1>6, QuietLive
<1>8. CommitOK'
  BY <1>1, <1>3, <1>6, QuietCommit
<1> QED BY <1>2, <1>7, <1>8 DEF UInv

LEMMA OperationCancelledKeeps ==
  ASSUME UInv, NEW t \in Tasks, OperationCancelled(t)
  PROVE  UInv'
<1>1. UShape /\ LiveOK /\ CommitOK
  BY InvIs
<1>2. UShape'
  BY <1>1, OperationCancelledShape
<1> DEFINE where == "body"
<1>3. /\ pc' = [pc EXCEPT ![t] = where] /\ pc[t] \notin {"released", "rolled"}
      /\ UNCHANGED <<status, ending, savepoints, levels, committed, frames, heldBy, within>>
  BY DEF OperationCancelled, unitState, connection, ghosts, Goes
<1>4. Stays
  BY DEF Stays, OperationCancelled, unitState, connection, ghosts, Goes
<1>5. Live' => Live
  BY <1>1, <1>2, <1>4, StaysLive
<1>6. where \notin {"released", "rolled"} /\ where \notin InFlight
  BY DEF InFlight
<1> HIDE DEF where
<1>7. LiveOK'
  BY <1>1, <1>3, <1>5, <1>6, QuietLive
<1>8. CommitOK'
  BY <1>1, <1>3, <1>6, QuietCommit
<1> QED BY <1>2, <1>7, <1>8 DEF UInv

LEMMA ParticipantFailsKeeps ==
  ASSUME UInv, NEW t \in Tasks, ParticipantFails(t)
  PROVE  UInv'
<1>1. UShape /\ LiveOK /\ CommitOK
  BY InvIs
<1>2. UShape'
  BY <1>1, ParticipantFailsShape
<1> DEFINE where == "body"
<1>3. /\ pc' = [pc EXCEPT ![t] = where] /\ pc[t] \notin {"released", "rolled"}
      /\ UNCHANGED <<status, ending, savepoints, levels, committed, frames, heldBy, within>>
  <2>1. pc \in [Tasks -> Where] /\ pc[t] = "body" /\ pc' = pc
    BY <1>1, TypesAre DEF ParticipantFails
  <2> QED BY <2>1 DEF ParticipantFails, connection
<1>4. Stays
  <2>1. mark' = Marked(depth) /\ depth \in 0 .. MaxScopes
    BY <1>1, TypesAre DEF ParticipantFails
  <2>2. mark = 0 => mark' = 0
    BY <1>1, <2>1, MarkStays
  <2> QED BY <2>2 DEF Stays, ParticipantFails
<1>5. Live' => Live
  BY <1>1, <1>2, <1>4, StaysLive
<1>6. where \notin {"released", "rolled"} /\ where \notin InFlight
  BY DEF InFlight
<1> HIDE DEF where
<1>7. LiveOK'
  BY <1>1, <1>3, <1>5, <1>6, QuietLive
<1>8. CommitOK'
  BY <1>1, <1>3, <1>6, QuietCommit
<1> QED BY <1>2, <1>7, <1>8 DEF UInv

LEMMA NestedReturnsKeeps ==
  ASSUME UInv, NEW t \in Tasks, NestedReturns(t)
  PROVE  UInv'
<1>1. UShape /\ LiveOK /\ CommitOK
  BY InvIs
<1>2. UShape'
  BY <1>1, NestedReturnsShape
<1> DEFINE where == "releasing"
<1>3. /\ pc' = [pc EXCEPT ![t] = where] /\ pc[t] \notin {"released", "rolled"}
      /\ UNCHANGED <<status, ending, savepoints, levels, committed, frames, heldBy, within>>
  BY DEF NestedReturns, ScopeEnding, unitState, connection, ghosts, Goes
<1>4. Stays
  BY DEF Stays, NestedReturns, ScopeEnding, unitState, connection, ghosts, Goes
<1>5. Live' => Live
  BY <1>1, <1>2, <1>4, StaysLive
<1>6. where \notin {"released", "rolled"} /\ where \notin InFlight
  BY DEF InFlight
<1> HIDE DEF where
<1>7. LiveOK'
  BY <1>1, <1>3, <1>5, <1>6, QuietLive
<1>8. CommitOK'
  BY <1>1, <1>3, <1>6, QuietCommit
<1> QED BY <1>2, <1>7, <1>8 DEF UInv

LEMMA NestedFailsKeeps ==
  ASSUME UInv, NEW t \in Tasks, NestedFails(t)
  PROVE  UInv'
<1>1. UShape /\ LiveOK /\ CommitOK
  BY InvIs
<1>2. UShape'
  BY <1>1, NestedFailsShape
<1> DEFINE where == "rolling"
<1>3. /\ pc' = [pc EXCEPT ![t] = where] /\ pc[t] \notin {"released", "rolled"}
      /\ UNCHANGED <<status, ending, savepoints, levels, committed, frames, heldBy, within>>
  BY DEF NestedFails, ScopeEnding, unitState, connection, ghosts, Goes
<1>4. Stays
  BY DEF Stays, NestedFails, ScopeEnding, unitState, connection, ghosts, Goes
<1>5. Live' => Live
  BY <1>1, <1>2, <1>4, StaysLive
<1>6. where \notin {"released", "rolled"} /\ where \notin InFlight
  BY DEF InFlight
<1> HIDE DEF where
<1>7. LiveOK'
  BY <1>1, <1>3, <1>5, <1>6, QuietLive
<1>8. CommitOK'
  BY <1>1, <1>3, <1>6, QuietCommit
<1> QED BY <1>2, <1>7, <1>8 DEF UInv

LEMMA EndingRefusedKeeps ==
  ASSUME UInv, NEW t \in Tasks, EndingRefused(t)
  PROVE  UInv'
<1>1. UShape /\ LiveOK /\ CommitOK
  BY InvIs
<1>2. UShape'
  BY <1>1, EndingRefusedShape
<1> DEFINE where == IF pc[t] = "releasing" THEN "unreleased" ELSE "unrolled"
<1>3. /\ pc' = [pc EXCEPT ![t] = where] /\ pc[t] \notin {"released", "rolled"}
      /\ UNCHANGED <<status, ending, savepoints, levels, committed, frames, heldBy, within>>
  BY DEF EndingRefused, unitState, connection, ghosts, Goes
<1>4. Stays
  BY DEF Stays, EndingRefused, unitState, connection, ghosts, Goes
<1>5. Live' => Live
  BY <1>1, <1>2, <1>4, StaysLive
<1>6. where \notin {"released", "rolled"} /\ where \notin InFlight
  BY DEF InFlight
<1> HIDE DEF where
<1>7. LiveOK'
  BY <1>1, <1>3, <1>5, <1>6, QuietLive
<1>8. CommitOK'
  BY <1>1, <1>3, <1>6, QuietCommit
<1> QED BY <1>2, <1>7, <1>8 DEF UInv

LEMMA BoundaryReturnsKeeps ==
  ASSUME UInv, BoundaryReturns
  PROVE  UInv'
<1>1. UShape /\ LiveOK /\ CommitOK
  BY InvIs
<1>2. UShape'
  BY <1>1, BoundaryReturnsShape
<1> DEFINE way == IF RollbackOnly \/ poisoned \/ HeldElsewhere THEN "rollback" ELSE "commit"
<1>3. BoundaryEnds(way)
  BY DEF BoundaryReturns
<1>4. /\ status = "ACTIVE" /\ status' = "COMPLETING" /\ pc[Root] = "body"
      /\ pc' = [pc EXCEPT ![Root] = "completing"]
      /\ UNCHANGED <<savepoints, levels, frames, heldBy, within>>
  BY <1>3 DEF BoundaryEnds, Completed, connection, ghosts, Goes
<1>5. Live' => Live
  <2>1. (mark = 0 => mark' = 0) /\ (poisoned => poisoned')
    BY DEF BoundaryReturns, RollbackOnly
  <2> QED BY <1>1, <1>2, <1>4, <2>1, StaysLive DEF Stays
<1>6. LiveOK'
  BY <1>1, <1>4, <1>5, QuietLive, Bounds DEF InFlight
<1>7. way \in {"commit", "rollback"} /\ (way = "commit" => MayCommit /\ ~HeldElsewhere)
  BY Limit DEF RollbackOnly, MayCommit, Unmarked
<1> HIDE DEF way
<1>8. CommitOK'
  BY <1>1, <1>3, <1>7, BoundaryCommit
<1> QED BY <1>2, <1>6, <1>8 DEF UInv

LEMMA BoundaryFailsKeeps ==
  ASSUME UInv, BoundaryFails
  PROVE  UInv'
<1>1. UShape /\ LiveOK /\ CommitOK
  BY InvIs
<1>2. UShape'
  BY <1>1, BoundaryFailsShape
<1> DEFINE way == "rollback"
<1>3. BoundaryEnds(way)
  BY DEF BoundaryFails
<1>4. /\ status = "ACTIVE" /\ status' = "COMPLETING" /\ pc[Root] = "body"
      /\ pc' = [pc EXCEPT ![Root] = "completing"]
      /\ UNCHANGED <<savepoints, levels, frames, heldBy, within>>
  BY <1>3 DEF BoundaryEnds, Completed, connection, ghosts, Goes
<1>5. Live' => Live
  <2>1. (mark = 0 => mark' = 0) /\ (poisoned => poisoned')
    BY DEF BoundaryFails, RollbackOnly
  <2> QED BY <1>1, <1>2, <1>4, <2>1, StaysLive DEF Stays
<1>6. LiveOK'
  BY <1>1, <1>4, <1>5, QuietLive, Bounds DEF InFlight
<1>7. way \in {"commit", "rollback"} /\ (way = "commit" => MayCommit /\ ~HeldElsewhere)
  BY Limit DEF RollbackOnly, MayCommit, Unmarked
<1> HIDE DEF way
<1>8. CommitOK'
  BY <1>1, <1>3, <1>7, BoundaryCommit
<1> QED BY <1>2, <1>6, <1>8 DEF UInv

LEMMA EndsPoisonedKeeps ==
  ASSUME UInv, NEW t \in Tasks, EndsPoisoned(t)
  PROVE  UInv'
<1>1. UShape /\ LiveOK /\ CommitOK
  BY InvIs
<1>2. UShape'
  BY <1>1, EndsPoisonedShape
<1>3. /\ poisoned' = TRUE /\ pc' = pc /\ pc[t] = "body"
      /\ UNCHANGED <<status, ending, levels, committed>>
  BY DEF EndsPoisoned, ScopeEnding, connection, ghosts
<1>4. LiveOK'
  BY <1>3 DEF LiveOK, Live, MayCommit
<1>5. LeftBy(t)
  BY <1>1, EndsPoisonedShape
<1>6. CommitOK'
  BY <1>1, <1>3, <1>5, LeftCommit
<1> QED BY <1>2, <1>4, <1>6 DEF UInv

LEMMA EndRefusedKeeps ==
  ASSUME UInv, NEW t \in Tasks, EndRefused(t)
  PROVE  UInv'
<1>1. UShape /\ LiveOK /\ CommitOK
  BY InvIs
<1>2. UShape'
  BY <1>1, EndRefusedShape
<1>3. /\ mark' = 0 /\ pc' = pc /\ pc[t] = "body"
      /\ UNCHANGED <<status, ending, levels, committed>>
  BY DEF EndRefused, ScopeEnding, connection, ghosts
<1>4. LiveOK'
  BY <1>3 DEF LiveOK, Live, MayCommit
<1>5. LeftBy(t)
  BY <1>1, EndRefusedShape
<1>6. CommitOK'
  BY <1>1, <1>3, <1>5, LeftCommit
<1> QED BY <1>2, <1>4, <1>6 DEF UInv

LEMMA AfterReleaseKeeps ==
  ASSUME UInv, NEW t \in Tasks, AfterRelease(t)
  PROVE  UInv'
<1>1. UShape /\ LiveOK /\ CommitOK
  BY InvIs
<1>2. UShape'
  BY <1>1, AfterReleaseShape
<1>3. /\ ScopeLeft(t) /\ pc[t] = "released" /\ frames[t] # <<>>
      /\ pc' = [pc EXCEPT ![t] = "body"] /\ UNCHANGED <<status, ending, poisoned, levels, committed>>
  BY <1>1 DEF AfterRelease, ScopeLeft, connection, Goes, UShape, Placed, Ending
<1>4. LeftBy(t)
  BY <1>1, AfterReleaseShape
<1>5. Stays
  <2>1. mark' = mark
    BY DEF AfterRelease
  <2> QED BY <1>3, <2>1 DEF Stays
<1>6. Live' => Live
  BY <1>1, <1>2, <1>5, StaysLive
<1>7. LiveOK'
  BY <1>1, <1>3, <1>4, <1>6, ScopeLeftLive
<1>8. CommitOK'
  BY <1>1, <1>3, <1>4, LeftCommit
<1> QED BY <1>2, <1>7, <1>8 DEF UInv

LEMMA AfterRollbackKeeps ==
  ASSUME UInv, NEW t \in Tasks, AfterRollback(t)
  PROVE  UInv'
<1>1. UShape /\ LiveOK /\ CommitOK
  BY InvIs
<1>2. UShape'
  BY <1>1, AfterRollbackShape
<1>3. /\ ScopeLeft(t) /\ pc[t] = "rolled" /\ frames[t] # <<>>
      /\ pc' = [pc EXCEPT ![t] = "body"] /\ UNCHANGED <<status, ending, poisoned, levels, committed>>
  BY <1>1 DEF AfterRollback, ScopeLeft, connection, Goes, UShape, Placed, Ending
<1>4. LeftBy(t)
  BY <1>1, AfterRollbackShape
<1>5. Stays
  <2>1. mark' = Forgiven(Scope(t).depth)
    BY DEF AfterRollback
  <2>2. Scope(t).depth \in Scopes
    BY <1>1, <1>3, DepthIs
  <2>3. mark = 0 => mark' = 0
    BY <1>1, <2>1, <2>2, ForgivenIs DEF UShape
  <2> QED BY <1>3, <2>3 DEF Stays
<1>6. Live' => Live
  BY <1>1, <1>2, <1>5, StaysLive
<1>7. LiveOK'
  BY <1>1, <1>3, <1>4, <1>6, ScopeLeftLive
<1>8. CommitOK'
  BY <1>1, <1>3, <1>4, LeftCommit
<1> QED BY <1>2, <1>7, <1>8 DEF UInv

LEMMA AfterRefusedRollbackKeeps ==
  ASSUME UInv, NEW t \in Tasks, AfterRefusedRollback(t)
  PROVE  UInv'
<1>1. UShape /\ LiveOK /\ CommitOK
  BY InvIs
<1>2. UShape'
  BY <1>1, AfterRefusedRollbackShape
<1>3. /\ ScopeLeft(t) /\ pc[t] = "unrolled" /\ frames[t] # <<>>
      /\ pc' = [pc EXCEPT ![t] = "body"] /\ UNCHANGED <<status, ending, poisoned, levels, committed>>
  BY <1>1 DEF AfterRefusedRollback, ScopeLeft, connection, Goes, UShape, Placed, Ending
<1>4. LeftBy(t)
  BY <1>1, AfterRefusedRollbackShape
<1>5. Stays
  <2>1. mark' = mark \/ mark' = Marked(depth)
    BY DEF AfterRefusedRollback
  <2>2. depth \in 0 .. MaxScopes
    BY <1>1, TypesAre
  <2>3. mark = 0 => mark' = 0
    BY <1>1, <2>1, <2>2, MarkStays
  <2> QED BY <1>3, <2>3 DEF Stays
<1>6. Live' => Live
  BY <1>1, <1>2, <1>5, StaysLive
<1>7. LiveOK'
  BY <1>1, <1>3, <1>4, <1>6, ScopeLeftLive
<1>8. CommitOK'
  BY <1>1, <1>3, <1>4, LeftCommit
<1> QED BY <1>2, <1>7, <1>8 DEF UInv

LEMMA AfterFailedReleaseKeeps ==
  ASSUME UInv, NEW t \in Tasks, AfterFailedRelease(t)
  PROVE  UInv'
<1>1. UShape /\ LiveOK /\ CommitOK
  BY InvIs
<1>2. UShape'
  BY <1>1, AfterFailedReleaseShape
<1>3. /\ pc[t] = "unreleased" /\ depth' = Scope(t).depth - 1
      /\ UNCHANGED <<status, ending, poisoned, guard, levels, committed, opened, heldBy, within, unforgiven>>
      /\ \/ /\ Completed /\ Leaves(t) /\ Goes(t, "body") /\ UNCHANGED mark
            /\ savepoints' = Closed({Scope(t).id})
         \/ /\ ~Completed /\ poisoned /\ Leaves(t) /\ Goes(t, "body") /\ mark' = Marked(depth')
            /\ UNCHANGED savepoints
         \/ /\ ~Completed /\ ~poisoned /\ Goes(t, "rolling") /\ UNCHANGED <<mark, savepoints, frames>>
  BY AfterFailedReleaseIs
<1>4. frames[t] # <<>>
  BY <1>1, <1>3 DEF UShape, Placed, Ending
<1>5. Leaves(t) => LeftBy(t)
  BY <1>1, <1>4, LeavesIs DEF UShape
<1>6. CASE Completed /\ Leaves(t) /\ Goes(t, "body") /\ UNCHANGED mark /\ savepoints' = Closed({Scope(t).id})
  <2>1. ScopeLeft(t)
    BY <1>3, <1>6 DEF ScopeLeft, connection, ghosts
  <2>2. Live' => Live
    BY <1>1, <1>2, <1>3, <1>6, StaysLive DEF Stays
  <2>3. LiveOK'
    BY <1>1, <1>3, <1>4, <1>5, <1>6, <2>1, <2>2, ScopeLeftLive
  <2>4. CommitOK'
    BY <1>1, <1>3, <1>5, <1>6, LeftCommit DEF Goes
  <2> QED BY <1>2, <2>3, <2>4 DEF UInv
<1>7. CASE poisoned /\ Leaves(t) /\ Goes(t, "body")
  <2>1. LiveOK'
    BY <1>3, <1>7 DEF LiveOK, Live, MayCommit
  <2>2. CommitOK'
    BY <1>1, <1>3, <1>5, <1>7, LeftCommit DEF Goes
  <2> QED BY <1>2, <2>1, <2>2 DEF UInv
<1>8. CASE Goes(t, "rolling") /\ UNCHANGED <<mark, savepoints, frames>>
  <2>1. Live' => Live
    BY <1>1, <1>2, <1>3, <1>8, StaysLive DEF Stays
  <2>2. pc' = [pc EXCEPT ![t] = "rolling"]
    BY <1>8 DEF Goes
  <2>3. LiveOK'
    BY <1>1, <1>3, <1>8, <2>1, <2>2, QuietLive DEF InFlight
  <2>4. CommitOK'
    BY <1>1, <1>3, <1>8, <2>2, QuietCommit DEF InFlight
  <2> QED BY <1>2, <2>3, <2>4 DEF UInv
<1> QED BY <1>3, <1>6, <1>7, <1>8

LEMMA StartsKeeps ==
  ASSUME UInv, NEW t \in Tasks, NEW c \in Children, Starts(t, c)
  PROVE  UInv'
<1>1. UShape /\ LiveOK /\ CommitOK
  BY InvIs
<1>2. UShape' /\ LiveOK'
  BY <1>1, StartsShape, StartsLive
<1>3. /\ c \in Tasks /\ pc' = [pc EXCEPT ![c] = "body"] /\ pc[c] = "new"
      /\ UNCHANGED <<status, ending, levels, frames, committed>>
  BY Bounds DEF Starts, Goes, unitState, connection
<1>4. CommitOK'
  BY <1>1, <1>3, QuietCommit DEF InFlight
<1> QED BY <1>2, <1>4 DEF UInv

LEMMA WriteRunsKeeps ==
  ASSUME UInv, NEW t \in Tasks, WriteRuns(t)
  PROVE  UInv'
<1>1. UShape /\ LiveOK /\ CommitOK
  BY InvIs
<1>2. UShape'
  BY <1>1, WriteRunsShape
<1>3. LiveOK' /\ CommitOK'
  BY <1>1, WriteRunsLive, WriteRunsCommit
<1> QED BY <1>2, <1>3 DEF UInv

LEMMA NestedOpensKeeps ==
  ASSUME UInv, NEW t \in Tasks, NestedOpens(t)
  PROVE  UInv'
<1>1. UShape /\ LiveOK /\ CommitOK
  BY InvIs
<1>2. UShape'
  BY <1>1, NestedOpensShape
<1>3. LiveOK' /\ CommitOK'
  BY <1>1, NestedOpensLive, NestedOpensCommit
<1> QED BY <1>2, <1>3 DEF UInv

LEMMA ReleaseRunsKeeps ==
  ASSUME UInv, NEW t \in Tasks, ReleaseRuns(t)
  PROVE  UInv'
<1>1. UShape /\ LiveOK /\ CommitOK
  BY InvIs
<1>2. UShape'
  BY <1>1, ReleaseRunsShape
<1>3. LiveOK'
  BY <1>1, ReleaseRunsLive
<1>4. pc[t] \in {"release", "rollback"} /\ UNCHANGED <<status, ending, committed>>
  BY DEF ReleaseRuns
<1>5. CommitOK'
  BY <1>1, <1>4, EndsCommit
<1> QED BY <1>2, <1>3, <1>5 DEF UInv

LEMMA RolledBackKeeps ==
  ASSUME UInv, NEW t \in Tasks, RolledBack(t)
  PROVE  UInv'
<1>1. UShape /\ LiveOK /\ CommitOK
  BY InvIs
<1>2. UShape'
  BY <1>1, RolledBackShape
<1>3. LiveOK'
  BY <1>1, RolledBackLive
<1>4. pc[t] \in {"release", "rollback"} /\ UNCHANGED <<status, ending, committed>>
  BY DEF RolledBack
<1>5. CommitOK'
  BY <1>1, <1>4, EndsCommit
<1> QED BY <1>2, <1>3, <1>5 DEF UInv

LEMMA ReleaseFailsKeeps ==
  ASSUME UInv, NEW t \in Tasks, ReleaseFails(t)
  PROVE  UInv'
<1>1. UShape /\ LiveOK /\ CommitOK
  BY InvIs
<1>2. UShape'
  BY <1>1, ReleaseFailsShape
<1>3. /\ pc[t] = "release" /\ mark' = Marked(depth)
      /\ UNCHANGED <<status, ending, poisoned, committed>>
  BY DEF ReleaseFails
<1>4. Stays
  <2>1. depth \in 0 .. MaxScopes
    BY <1>1, TypesAre
  <2>2. mark = 0 => mark' = 0
    BY <1>1, <1>3, <2>1, MarkStays
  <2> QED BY <1>3, <2>2 DEF Stays
<1>5. Live' => Live
  BY <1>1, <1>2, <1>4, StaysLive
<1>6. LiveOK'
  BY <1>1, <1>5, ReleaseFailsLive
<1>7. CommitOK'
  BY <1>1, <1>3, EndsCommit
<1> QED BY <1>2, <1>6, <1>7 DEF UInv

LEMMA UnitEndsKeeps ==
  ASSUME UInv, NEW how \in {"COMMITTED", "ROLLED_BACK", "UNKNOWN"}, NEW writes,
         UnitEnds(how, writes), writes # {} => ending = "commit" /\ writes = Everything
  PROVE  UInv'
<1>1. UShape /\ LiveOK /\ CommitOK
  BY InvIs
<1>2. writes \in SUBSET Writes
  BY <1>1, EverythingIs DEF UShape
<1>3. UShape'
  BY <1>1, <1>2, UnitEndsShape
<1>4. LiveOK'
  BY DEF LiveOK, Live, Running, UnitEnds
<1>5. CommitOK'
  BY <1>1, UnitEndsCommit
<1> QED BY <1>3, <1>4, <1>5 DEF UInv

LEMMA EndingKeeps ==
  ASSUME UInv, Commits \/ CommitInterrupted \/ RollsBack
  PROVE  UInv'
<1>1. CASE Commits
  <2>1. UnitEnds("COMMITTED", Everything) /\ ending = "commit"
    BY <1>1 DEF Commits
  <2> QED BY <2>1, UnitEndsKeeps
<1>2. CASE CommitInterrupted
  <2>1. PICK w \in {{}, Everything} : UnitEnds("UNKNOWN", w)
    BY <1>2 DEF CommitInterrupted
  <2>2. ending = "commit"
    BY <1>2 DEF CommitInterrupted
  <2>3. w # {} => ending = "commit" /\ w = Everything
    BY <2>1, <2>2
  <2> QED BY <2>1, <2>3, UnitEndsKeeps
<1>3. CASE RollsBack
  <2>1. UnitEnds("ROLLED_BACK", {})
    BY <1>3 DEF RollsBack
  <2> QED BY <2>1, UnitEndsKeeps
<1> QED BY <1>1, <1>2, <1>3

LEMMA InitUInv == UowInit => UInv
<1> SUFFICES ASSUME UowInit PROVE UInv
  OBVIOUS
<1>1. UShape
  BY InitShape
<1>2. /\ savepoints = {} /\ committed = {} /\ status = "ACTIVE"
      /\ DOMAIN levels = {0} /\ levels[0] = {}
  BY NoSavepointIs DEF UowInit
<1>3. \A t \in Tasks : /\ DOMAIN frames[t] = {}
                       /\ pc[t] \in {"new", "body"}
  <2>1. DOMAIN <<>> = {}
    OBVIOUS
  <2>2. \A t \in Tasks : frames[t] = <<>> /\ pc[t] \in {"new", "body"}
    BY DEF UowInit
  <2> QED BY <2>1, <2>2
<1>4. Opens /\ Holds /\ Inside
  BY <1>2, <1>3 DEF Opens, Holds, Inside
<1>5. OnTop
  BY <1>2 DEF OnTop
<1>6. CommitOK
  BY <1>2 DEF CommitOK, NoneOpen, Running
<1> QED BY <1>1, <1>4, <1>5, <1>6 DEF UInv, LiveOK

\* A step that changes nothing.
LEMMA StutterKeeps == UInv /\ UNCHANGED uowVars => UInv'
<1> SUFFICES ASSUME UInv, UNCHANGED uowVars PROVE UInv'
  OBVIOUS
<1>1. UNCHANGED <<status, ending, mark, depth, poisoned, savepoints, guard, levels, committed,
                  opened, pc, frames, heldBy, within, unforgiven>>
  BY DEF uowVars
<1>2. UShape'
  BY <1>1 DEF UInv, UShape, UowTypeOK, Guarded, Running, Placed, Numbered, WritesNumbered, Owned
<1>3. LiveOK'
  BY <1>1 DEF UInv, LiveOK, Live, Running, MayCommit, Opens, Resuming, Holds, OnTop, Inside, Under, Scope
<1>4. CommitOK'
  BY <1>1 DEF UInv, CommitOK, Running, NoneOpen, Everything
<1> QED BY <1>2, <1>3, <1>4 DEF UInv

LEMMA StepKeeps == UInv /\ [UowNext]_uowVars => UInv'
<1> SUFFICES ASSUME UInv, UowNext PROVE UInv'
  BY StutterKeeps
<1>1. CASE BoundaryReturns \/ BoundaryFails
  BY <1>1, BoundaryReturnsKeeps, BoundaryFailsKeeps
<1>2. CASE Commits \/ CommitInterrupted \/ RollsBack
  BY <1>2, EndingKeeps
<1>3. ASSUME NEW t \in Tasks, NEW c \in Children, Starts(t, c) PROVE UInv'
  BY <1>3, StartsKeeps
<1>4. ASSUME NEW t \in Tasks,
             \/ TaskEnds(t) \/ WriteBegins(t) \/ WriteRuns(t) \/ StatementFails(t)
             \/ OperationCancelled(t) \/ ParticipantFails(t)
             \/ NestedBegins(t) \/ NestedOpens(t) \/ EndsPoisoned(t) \/ EndRefused(t)
             \/ NestedReturns(t) \/ NestedFails(t)
      PROVE  UInv'
  BY <1>4, TaskEndsKeeps, WriteBeginsKeeps, WriteRunsKeeps, StatementFailsKeeps,
     OperationCancelledKeeps, ParticipantFailsKeeps, NestedBeginsKeeps, NestedOpensKeeps,
     EndsPoisonedKeeps, EndRefusedKeeps, NestedReturnsKeeps, NestedFailsKeeps
<1>5. ASSUME NEW t \in Tasks,
             \/ ReleaseBegins(t) \/ RollbackBegins(t) \/ ReleaseRuns(t) \/ ReleaseFails(t)
             \/ RolledBack(t) \/ EndingRefused(t)
             \/ AfterRelease(t) \/ AfterFailedRelease(t) \/ AfterRollback(t)
             \/ AfterRefusedRollback(t)
      PROVE  UInv'
  BY <1>5, ReleaseBeginsKeeps, RollbackBeginsKeeps, ReleaseRunsKeeps, ReleaseFailsKeeps,
     RolledBackKeeps, EndingRefusedKeeps, AfterReleaseKeeps, AfterFailedReleaseKeeps,
     AfterRollbackKeeps, AfterRefusedRollbackKeeps
<1> QED BY <1>1, <1>2, <1>3, <1>4, <1>5 DEF UowNext

LEMMA UInvAlways == UowSpec => []UInv
  BY InitUInv, StepKeeps, PTL DEF UowSpec

-------------------------------------------------------------------------------
(* What the invariant says of the unit of work. *)

(* The unit, its connection and its tasks keep their types: what every other  *)
(* result reads of a depth, a mark or a savepoint is in its range.            *)
THEOREM UnitTypes == UowSpec => []UowTypeOK
<1>1. UInv => UowTypeOK
  BY DEF UInv, UShape
<1> QED BY <1>1, UInvAlways, PTL

(* Whatever the tasks of a unit do to one another, a commit never takes the   *)
(* writes of a NESTED scope that its task has not ended: the boundary rolls   *)
(* back, or refuses, as long as any savepoint is open.                        *)
THEOREM OpenScopesStayOpen == UowSpec => []OpenScopeNeverCommitted
<1>1. UInv => OpenScopeNeverCommitted
  BY DEF UInv, CommitOK, NoneOpen, OpenScopeNeverCommitted
<1> QED BY <1>1, UInvAlways, PTL

\* The writes a savepoint's end undoes were made in it.
LEMMA UndoneIn ==
  ASSUME UInv, NEW t \in Tasks, pc[t] \in {"release", "rollback"}, pc'[t] # pc[t], MayCommit,
         \A i \in DOMAIN levels : i < Scope(t).id => i \in DOMAIN levels' /\ levels'[i] = levels[i],
         NEW w \in Everything, w \notin Everything'
  PROVE  \E u \in Tasks : pc[u] # pc'[u] /\ Scope(u).id \in w.under
<1> DEFINE s == Scope(t).id
<1>1. UShape /\ LiveOK
  BY InvIs
<1>2. Live
  <2>1. guard = t
    BY <1>1 DEF UShape, Guarded, InFlight
  <2> QED BY <1>1, <2>1, Bounds DEF UShape, Guarded, Live
<1>3. Opens /\ OnTop /\ Inside
  BY <1>1, <1>2 DEF LiveOK
<1>4. s \in Scopes /\ \E e \in savepoints : e.id = s
  BY <1>1, <1>3, OnTopEnds
<1> HIDE DEF s
<1>5. PICK j \in DOMAIN levels : w \in levels[j]
  BY DEF Everything
<1>6. j \in 0 .. MaxScopes
  BY <1>1, <1>5 DEF UShape, UowTypeOK
<1>7. ~(j < s)
  BY <1>5 DEF Everything, s
<1>8. s <= j
  BY <1>4, <1>6, <1>7, Limit DEF Scopes
<1>9. s \in w.under
  BY <1>3, <1>4, <1>5, <1>8 DEF Inside
<1> QED BY <1>9 DEF s

\* A step that loses a write ends a savepoint, or the unit.
LEMMA StepUndoes ==
  ASSUME UInv, UowNext, NEW w \in Everything, w \notin Everything', status' = status, MayCommit
  PROVE  \E t \in Tasks : pc[t] # pc'[t] /\ Scope(t).id \in w.under
<1>0. UShape /\ UowTypeOK
  BY InvIs DEF UShape
<1>1. levels' # levels
  BY DEF Everything
<1>2. ~BoundaryReturns /\ ~BoundaryFails
  BY <1>1 DEF BoundaryReturns, BoundaryFails, BoundaryEnds, connection
<1>3. ~Commits /\ ~CommitInterrupted /\ ~RollsBack
  BY DEF Commits, CommitInterrupted, RollsBack, UnitEnds
<1>4. ASSUME NEW t \in Tasks
      PROVE  /\ ~TaskEnds(t) /\ ~WriteBegins(t) /\ ~StatementFails(t) /\ ~OperationCancelled(t)
             /\ ~ParticipantFails(t) /\ ~NestedBegins(t) /\ ~EndsPoisoned(t) /\ ~EndRefused(t)
             /\ ~NestedReturns(t) /\ ~NestedFails(t) /\ ~ReleaseBegins(t) /\ ~RollbackBegins(t)
             /\ ~EndingRefused(t) /\ ~AfterRelease(t) /\ ~AfterRollback(t) /\ ~AfterRefusedRollback(t)
             /\ \A c \in Children : ~Starts(t, c)
  BY <1>1 DEF TaskEnds, WriteBegins, StatementFails, OperationCancelled, ParticipantFails,
     NestedBegins, EndsPoisoned, EndRefused, NestedReturns, NestedFails, ReleaseBegins,
     RollbackBegins, EndingRefused, AfterRelease, AfterRollback, AfterRefusedRollback, Starts,
     OperationBegins, ScopeLeft, connection
<1>5. ASSUME NEW t \in Tasks PROVE ~AfterFailedRelease(t)
  BY <1>1, AfterFailedReleaseIs
<1>6. PICK t \in Tasks : WriteRuns(t) \/ NestedOpens(t) \/ ReleaseRuns(t) \/ ReleaseFails(t) \/ RolledBack(t)
  BY <1>2, <1>3, <1>4, <1>5 DEF UowNext
<1>7. ~WriteRuns(t)
  <2> SUFFICES ASSUME WriteRuns(t) PROVE FALSE
    OBVIOUS
  <2>1. DOMAIN levels' = DOMAIN levels /\ \A j \in DOMAIN levels : levels[j] \subseteq levels'[j]
    BY <1>0, WriteRunsShape
  <2> QED BY <2>1 DEF Everything
<1>8. ~NestedOpens(t)
  <2> SUFFICES ASSUME NestedOpens(t) PROVE FALSE
    OBVIOUS
  <2>1. \A j \in DOMAIN levels : j \in DOMAIN levels' /\ levels'[j] = levels[j]
    BY <1>0, OpensIs
  <2> QED BY <2>1 DEF Everything
<1>9. ~ReleaseRuns(t)
  <2> SUFFICES ASSUME ReleaseRuns(t) PROVE FALSE
    OBVIOUS
  <2>1. frames[t] # <<>> /\ Merged(t)
    BY <1>0, ReleaseRunsShape
  <2>2. PICK j \in DOMAIN levels : w \in levels[j]
    BY DEF Everything
  <2> DEFINE s == Scope(t).id
             m == Max({i \in DOMAIN levels : i < s})
  <2>3. /\ DOMAIN levels' = {i \in DOMAIN levels : i < s}
        /\ \A i \in DOMAIN levels' :
             levels'[i] = IF i = m THEN levels[i] \cup WritesFrom(s) ELSE levels[i]
        /\ m \in DOMAIN levels'
    BY <2>1 DEF Merged
  <2>4. \A v : v \in WritesFrom(s) <=> \E k \in DOMAIN levels : k >= s /\ v \in levels[k]
    BY <1>0, <2>1, BelowIs DEF UShape
  <2>5. j \in 0 .. MaxScopes /\ s \in Scopes
    BY <1>0, <2>1, <2>2, ScopeIs DEF UowTypeOK
  <2> HIDE DEF s, m
  <2>6. CASE j < s
    BY <2>2, <2>3, <2>6 DEF Everything
  <2>7. CASE j >= s
    BY <2>2, <2>3, <2>4, <2>7 DEF Everything
  <2> QED BY <2>5, <2>6, <2>7, Limit DEF Scopes
<1>10. CASE ReleaseFails(t)
  <2>1. pc[t] = "release" /\ pc' = [pc EXCEPT ![t] = "unreleased"] /\ frames[t] # <<>>
    BY <1>0, <1>10, ReleaseFailsShape DEF ReleaseFails, Goes
  <2>2. pc'[t] # pc[t]
    BY <2>1, <1>0, TypesAre
  <2>3. \A i \in DOMAIN levels : i < Scope(t).id => i \in DOMAIN levels' /\ levels'[i] = levels[i]
    BY <1>0, <1>10, <2>1, ReleaseFailsIs
  <2> QED BY <2>1, <2>2, <2>3, UndoneIn
<1>11. CASE RolledBack(t)
  <2>1. pc[t] = "rollback" /\ pc' = [pc EXCEPT ![t] = "rolled"]
    BY <1>11 DEF RolledBack, Goes
  <2>2. pc'[t] # pc[t]
    BY <2>1, <1>0, TypesAre
  <2>3. \A i \in DOMAIN levels : i < Scope(t).id => i \in DOMAIN levels' /\ levels'[i] = levels[i]
    BY <1>0, <1>11, RolledBackShape
  <2> QED BY <2>1, <2>2, <2>3, UndoneIn
<1> QED BY <1>6, <1>7, <1>8, <1>9, <1>10, <1>11

(* As long as the unit may commit, the rollback to a savepoint undoes no      *)
(* write but those made inside the scope that ends: no other task loses a     *)
(* write it was told had succeeded.                                           *)
THEOREM RollbackUndoesItsScope == UowSpec => UndoneByOwnScope
<1>1. UInv /\ [UowNext]_uowVars =>
        [\A w \in Everything \ Everything' :
           status' = status /\ MayCommit =>
             \E t \in Tasks : pc[t] # pc'[t] /\ Scope(t).id \in w.under]_uowVars
  BY StepUndoes
<1> QED BY <1>1, UInvAlways, PTL DEF UowSpec, UndoneByOwnScope

-------------------------------------------------------------------------------
(* Each of them runs as it does alone. *)

LEMMA TurnsAreSteps ==
  [Next]_unshared => /\ [BreakerNext]_breakerVars /\ [BulkheadNext]_bulkheadVars
                     /\ [LeaseNext]_leaseVars /\ [UowNext]_uowVars
<1>1. CASE Next
  BY <1>1 DEF Next, UnitTurn, LeaseTurn, BulkheadTurn, BreakerTurn
<1>2. CASE UNCHANGED unshared
  BY <1>2 DEF unshared
<1> QED BY <1>1, <1>2

LEMMA EachAsAlone == Spec => BreakerSpec /\ BulkheadSpec /\ LeaseSpec /\ UowSpec
<1>1. Init => BreakerInit /\ BulkheadInit /\ LeaseInit /\ UowInit
  BY DEF Init
<1> QED BY <1>1, TurnsAreSteps, PTL DEF Spec, BreakerSpec, BulkheadSpec, LeaseSpec, UowSpec

(* Whichever of them its tasks share, and for any number of tasks, everything *)
(* they keep has its type.                                                    *)
THEOREM GuardsTypes == Spec => []TypeOK
  BY EachAsAlone, BreakerTypes, BulkheadTypes, LeaseTypes, UnitTypes, PTL DEF TypeOK

===============================================================================
