-------------------------- MODULE SagaEngine_proof --------------------------
(***************************************************************************)
(* The saga engine, for any steps and dependencies without a cycle, any    *)
(* limits, numbers of attempts and retries, and every policy.              *)
(***************************************************************************)
EXTENDS SagaEngine, FiniteSetTheorems, SequenceTheorems, WellFoundedInduction, TLAPS

-------------------------------------------------------------------------------
(* The inductive invariant: the steps. *)

Done(s) == effect[s] = 1 /\ status[s] = "DONE" /\ Contains(committed, s)

(* What was committed was once, and is listed; an attempt begins, and is      *)
(* repeated, only on nothing.                                                 *)
StepOK(s) ==
  /\ effect[s] \in {0, 1} /\ (effect[s] = 1 => Contains(committed, s))
  /\ status[s] = "DONE" => Done(s)
  /\ task[s] \in {"unborn", "waiting", "trying", "pausing"} => effect[s] = 0
  /\ task[s] = "pausing" => attempt[s] < MaxAttempts
  /\ task[s] = "telling" => Done(s)
  /\ task[s] = "ok" => Done(s) \/ failed
  /\ task[s] = "failed" => failed

(* While layer n runs, the layers before it are done and those after it have  *)
(* not begun.                                                                 *)
InLayer(n) ==
  \A s \in Steps :
    /\ s \in Reached[n - 1] => task[s] = "over" /\ Done(s)
    /\ s \in Layer(n) => task[s] \notin {"unborn", "over"}
    /\ s \notin Reached[n] => task[s] = "unborn"

NothingUndone == groups = <<>> /\ streak = 0 /\ \A s \in Steps : comp[s] = "no" /\ undone[s] = 0

(* Where the execution is. *)
StageOK ==
  /\ stage = "new" => /\ layer = 0 /\ failed = FALSE /\ record = "absent"
                      /\ \A s \in Steps : task[s] = "unborn"
  /\ stage = "executing" => layer \in 1..LayerCount /\ InLayer(layer)
  /\ stage \in {"new", "executing"} <=> result = "none"
  /\ result \in {"none", "success"} => NothingUndone
  /\ result = "success" => ~failed /\ \A s \in Steps : task[s] \in {"ok", "over"} /\ Done(s)
  /\ Failing => \A s \in Steps : task[s] \in {"unborn", "over"}
  /\ stage = "compensating" => Failing /\ groups # <<>> /\ tries >= 1 /\ streak < BreakerThreshold /\ policy # "unread"
  /\ stage \in {"finishing", "ended"} => groups = <<>>

(* Before a step in the list are the steps it depends on, and no step twice.  *)
CommittedInOrder ==
  /\ \A i, j \in 1..Len(committed) : committed[i] = committed[j] => i = j
  /\ \A i \in 1..Len(committed) : \A d \in Deps[committed[i]] : \E j \in 1..(i - 1) : committed[j] = d

RecordOK ==
  /\ record = "COMPLETED" => result = "success"
  /\ record = "FAILED" /\ recovering # "marked" => stage = "ended" /\ Failing
  /\ recovering \in {"read", "marked"} => stage # "new"

StepsInv == (\A s \in Steps : StepOK(s)) /\ StageOK /\ CommittedInOrder /\ RecordOK

(* The inductive invariant: the compensations. *)

Running(s) == comp[s] \in {"undoing", "telling"}

Queued(s) == \E i \in 1..Len(groups) : s \in groups[i]
AtWork(s) == groups # <<>> /\ s \in groups[1]

(* A step is queued once, and it is a committed one that can be undone; the   *)
(* policies that compensate in sequence queue one by one.                     *)
GroupsOK ==
  /\ groups # <<>> => groups[1] # {}
  /\ \A i \in 1..Len(groups) : \A s \in groups[i] :
        /\ s \in Undoable
        /\ i > 1 => comp[s] = "no"
        /\ i = 1 => comp[s] # "no"
        /\ \A j \in 1..Len(groups) : s \in groups[j] => j = i
  /\ policy \in {"STRICT_SEQUENTIAL", "RETRY_WITH_BACKOFF", "CIRCUIT_BREAKER"} =>
        \A i \in 1..Len(groups) : \E x \in Steps : groups[i] \subseteq {x}
  /\ policy = "BEST_EFFORT_PARALLEL" => Len(groups) <= 1

(* What runs is of the group at work, or was left running by a failed group.  *)
RunningOK ==
  \A s \in Steps : Running(s) =>
    \/ AtWork(s)
    \/ policy = "GROUPED_PARALLEL" /\ groups = <<>> /\ \E t \in Steps : Stopped(t)

(* How often a compensation took effect. *)
UndoneOK(s) ==
  /\ comp[s] = "no" => undone[s] = 0
  /\ comp[s] \in {"telling", "undone"} => undone[s] > 0
  /\ policy # "RETRY_WITH_BACKOFF" => /\ comp[s] = "undoing" => undone[s] = 0
                                      /\ undone[s] <= 1
  /\ policy = "RETRY_WITH_BACKOFF" =>
        /\ undone[s] <= CompensationRetry
        /\ AtWork(s) => undone[s] <= tries
        /\ comp[s] = "undoing" => undone[s] < tries

(* What a compensation has passed by.                                         *)
Passed(s) == comp[s] = "undone" \/ (policy = "CIRCUIT_BREAKER" /\ comp[s] = "error")

(* A step is queued before the steps it depends on. *)
QueuedInOrder ==
  policy # "BEST_EFFORT_PARALLEL" =>
    \A s \in Steps : \A d \in Deps[s] : Owing(s) =>
      /\ comp[d] # "no" => Passed(s)
      /\ \A j \in 1..Len(groups) : d \in groups[j] => Passed(s) \/ \E i \in 1..(j - 1) : s \in groups[i]

Errors == {t \in Steps : comp[t] = "error"}

\* Why the rest was not undone.
GivenUp ==
  /\ policy # "BEST_EFFORT_PARALLEL" /\ \E t \in Steps : Stopped(t)
  /\ policy = "CIRCUIT_BREAKER" => (\E t \in Steps : comp[t] = "cancelled") \/ Cardinality(Errors) >= BreakerThreshold

Accounted(s) ==
  \/ Queued(s) \/ Passed(s)
  \/ groups = <<>> /\ (Stopped(s) \/ GivenUp \/ (policy = "GROUPED_PARALLEL" /\ comp[s] # "no"))

AllAccounted == Failing => \A s \in Steps : Owing(s) => Accounted(s)

StreakCounted == streak <= Cardinality({t \in Errors : ~AtWork(t)})

CompInv == /\ GroupsOK /\ RunningOK /\ (\A s \in Steps : UndoneOK(s))
           /\ QueuedInOrder /\ AllAccounted /\ StreakCounted


-------------------------------------------------------------------------------
(* The layers. *)

LEMMA Smallest ==
  ASSUME NEW S \in SUBSET Nat, S # {}
  PROVE  \E x \in S : \A y \in S : x <= y
<1> DEFINE R == OpToRel(<, Nat)
<1>1. \A x, y \in Nat : <<y, x>> \in R <=> y < x
  BY Zenon DEF OpToRel
<1>2. IsWellFoundedOn(R, Nat)
  BY NatLessThanWellFounded, Zenon
<1> HIDE DEF R
<1>3. PICK x \in S : \A y \in S : <<y, x>> \notin R
  BY <1>2, WFMin, Zenon
<1>4. \A y \in S : ~(y < x)
  BY <1>1, <1>3, Zenon
<1> QED BY <1>4

(* A sequence of sets that follows the layers as far as n. *)
Follows(f, n) ==
  /\ f \in [0..n -> SUBSET Steps] /\ f[0] = {}
  /\ \A i \in 1..n : f[i] = {s \in Steps : Deps[s] \subseteq f[i - 1]}

LEMMA FollowerIs ==
  ASSUME NEW n \in Nat
  PROVE  \E f : Follows(f, n)
<1> DEFINE Bad == {k \in Nat : ~\E f : Follows(f, k)}
<1> SUFFICES ASSUME Bad # {} PROVE FALSE
  OBVIOUS
<1>1. PICK k \in Bad : \A j \in Bad : k <= j
  BY Smallest
<1>2. CASE k = 0
  <2>1. Follows([i \in 0..0 |-> {}], 0)
    BY DEF Follows
  <2> QED BY <1>2, <2>1
<1>3. CASE k # 0
  <2>1. k \in Nat /\ k - 1 \in Nat /\ k - 1 \notin Bad
    BY <1>1, <1>3
  <2>2. PICK f : Follows(f, k - 1)
    BY <2>1
  <2> DEFINE g == [i \in 0..k |-> IF i = k THEN {s \in Steps : Deps[s] \subseteq f[k - 1]} ELSE f[i]]
  <2>3. g \in [0..k -> SUBSET Steps] /\ g[0] = {}
    BY <1>3, <2>1, <2>2 DEF Follows
  <2>4. ASSUME NEW i \in 1..k
        PROVE  g[i] = {s \in Steps : Deps[s] \subseteq g[i - 1]}
    <3>1. g[i - 1] = f[i - 1]
      BY <2>1, <2>4
    <3>2. i = k => g[i] = {s \in Steps : Deps[s] \subseteq f[i - 1]}
      OBVIOUS
    <3>3. i # k => i \in 1..(k - 1) /\ g[i] = f[i]
      BY <2>1, <2>4
    <3>4. i # k => f[i] = {s \in Steps : Deps[s] \subseteq f[i - 1]}
      BY <2>2, <3>3 DEF Follows
    <3> HIDE DEF g
    <3> QED BY <3>1, <3>2, <3>3, <3>4
  <2>5. Follows(g, k)
    BY <2>3, <2>4 DEF Follows
  <2> QED BY <2>5, <1>1
<1> QED BY <1>2, <1>3

LEMMA FollowersAgree ==
  ASSUME NEW m \in Nat, NEW n \in Nat, NEW f, NEW g, Follows(f, m), Follows(g, n),
         NEW i \in Nat, i <= m, i <= n
  PROVE  f[i] = g[i]
<1> DEFINE Bad == {k \in Nat : k <= m /\ k <= n /\ f[k] # g[k]}
<1> SUFFICES ASSUME Bad # {} PROVE FALSE
  OBVIOUS
<1>1. PICK k \in Bad : \A j \in Bad : k <= j
  BY Smallest
<1>2. k # 0
  BY <1>1 DEF Follows
<1>3. k \in Nat /\ k - 1 \in Nat /\ k - 1 \notin Bad /\ k \in 1..m /\ k \in 1..n /\ k - 1 <= m /\ k - 1 <= n
  BY <1>1, <1>2
<1>4. f[k - 1] = g[k - 1]
  BY <1>3
<1>5. f[k] = {s \in Steps : Deps[s] \subseteq f[k - 1]} /\ g[k] = {s \in Steps : Deps[s] \subseteq g[k - 1]}
  BY <1>3 DEF Follows
<1>6. f[k] # g[k]
  BY <1>1
<1> QED BY <1>4, <1>5, <1>6

(* The recursive definition of Reached says what it seems to. *)
LEMMA ReachedIs ==
  ASSUME NEW n \in Nat
  PROVE  /\ Reached[0] = {} /\ Reached[n] \subseteq Steps
         /\ n # 0 => Reached[n] = {s \in Steps : Deps[s] \subseteq Reached[n - 1]}
<1> DEFINE Is(f) == f = [k \in Nat |-> IF k = 0 THEN {} ELSE {s \in Steps : Deps[s] \subseteq f[k - 1]}]
           follower(k) == CHOOSE f : Follows(f, k)
           F == [k \in Nat |-> follower(k)[k]]
<1>1. \A k \in Nat : Follows(follower(k), k)
  BY FollowerIs
<1> HIDE DEF follower
<1>2. ASSUME NEW k \in Nat
      PROVE  F[k] = IF k = 0 THEN {} ELSE {s \in Steps : Deps[s] \subseteq F[k - 1]}
  <2>1. CASE k = 0
    BY <1>1, <2>1 DEF Follows
  <2>2. CASE k # 0
    <3>1. k - 1 \in Nat /\ k \in 1..k /\ k - 1 <= k
      BY <2>2
    <3>2. Follows(follower(k), k) /\ Follows(follower(k - 1), k - 1)
      BY <1>1, <3>1
    <3>3. follower(k)[k - 1] = follower(k - 1)[k - 1]
      BY <3>1, <3>2, FollowersAgree
    <3>4. follower(k)[k] = {s \in Steps : Deps[s] \subseteq follower(k)[k - 1]}
      BY <3>1, <3>2 DEF Follows
    <3> QED BY <2>2, <3>1, <3>3, <3>4
  <2> QED BY <2>1, <2>2
<1>3. Is(F)
  <2>1. F = [k \in Nat |-> F[k]]
    OBVIOUS
  <2> HIDE DEF F
  <2> QED BY <1>2, <2>1
<1> HIDE DEF F
<1>4. Is(Reached)
  BY <1>3 DEF Reached
<1>5. Reached[0] = {}
  BY <1>4
<1>6. n # 0 => Reached[n] = {s \in Steps : Deps[s] \subseteq Reached[n - 1]}
  BY <1>4
<1>7. Reached[n] \subseteq Steps
  BY <1>5, <1>6
<1> QED BY <1>5, <1>6, <1>7

(* The layers fill up. *)
LEMMA ReachedGrows ==
  ASSUME NEW m \in Nat, NEW n \in Nat, m <= n
  PROVE  Reached[m] \subseteq Reached[n]
<1>1. ASSUME NEW k \in Nat
      PROVE  Reached[k] \subseteq Reached[k + 1]
  <2> DEFINE Bad == {j \in Nat : ~(Reached[j] \subseteq Reached[j + 1])}
  <2> SUFFICES ASSUME Bad # {} PROVE FALSE
    OBVIOUS
  <2>1. PICK j \in Bad : \A i \in Bad : j <= i
    BY Smallest
  <2>2. j \in Nat /\ j # 0
    BY <2>1, ReachedIs
  <2>3. j - 1 \in Nat /\ j - 1 \notin Bad /\ (j - 1) + 1 = j
    BY <2>1, <2>2
  <2>4. Reached[j - 1] \subseteq Reached[j]
    BY <2>3
  <2>5. Reached[j] = {s \in Steps : Deps[s] \subseteq Reached[j - 1]}
    BY <2>2, ReachedIs
  <2>6. Reached[j + 1] = {s \in Steps : Deps[s] \subseteq Reached[(j + 1) - 1]}
    BY <2>2, ReachedIs
  <2> QED BY <2>1, <2>2, <2>4, <2>5, <2>6
<1> DEFINE Bad == {j \in Nat : m <= j /\ ~(Reached[m] \subseteq Reached[j])}
<1> SUFFICES ASSUME Bad # {} PROVE FALSE
  OBVIOUS
<1>2. PICK j \in Bad : \A i \in Bad : j <= i
  BY Smallest
<1>3. j # m
  BY <1>2
<1>4. j - 1 \in Nat /\ j - 1 \notin Bad /\ m <= j - 1 /\ (j - 1) + 1 = j
  BY <1>2, <1>3
<1>5. Reached[m] \subseteq Reached[j - 1] /\ Reached[j - 1] \subseteq Reached[j]
  BY <1>1, <1>4
<1> QED BY <1>2, <1>5

(* Every step is in one of the layers, after the steps it depends on. *)
LEMMA LayersAre ==
  /\ LayerCount \in Nat /\ LayerCount >= 1
  /\ Reached[LayerCount] = Steps
<1> DEFINE N == Cardinality(Steps)
           Full == {n \in Nat : Reached[n] = Steps}
<1>1. N \in Nat /\ Reached[N] = Steps /\ Steps # {}
  BY SagaAssumption, FS_CardinalityType
<1> HIDE DEF N
<1>2. PICK n \in Full : \A k \in Full : n <= k
  BY <1>1, Smallest
<1>3. n # 0 /\ n <= N
  BY <1>1, <1>2, ReachedIs
<1>4. n - 1 \in Nat /\ n - 1 \notin Full
  BY <1>2, <1>3
<1>5. n \in 1..N /\ Reached[n] = Steps /\ Reached[n - 1] # Steps
  BY <1>1, <1>2, <1>3, <1>4
<1>6. LayerCount \in 1..N /\ Reached[LayerCount] = Steps
  BY <1>5 DEF LayerCount, N
<1> QED BY <1>1, <1>6

LEMMA LayerIs ==
  ASSUME NEW n \in Nat \ {0}
  PROVE  /\ Layer(n) \subseteq Steps /\ Reached[n - 1] \subseteq Reached[n] /\ Reached[n] \subseteq Steps
         /\ \A s \in Steps : s \in Layer(n) <=> s \in Reached[n] /\ s \notin Reached[n - 1]
         /\ \A s \in Layer(n) : \A d \in Deps[s] : d \in Reached[n - 1]
<1>1. n - 1 \in Nat /\ n \in Nat /\ n - 1 <= n
  OBVIOUS
<1>2. Reached[n - 1] \subseteq Reached[n] /\ Reached[n] \subseteq Steps
  BY <1>1, ReachedGrows, ReachedIs
<1>3. Reached[n] = {s \in Steps : Deps[s] \subseteq Reached[n - 1]}
  BY ReachedIs
<1> QED BY <1>2, <1>3 DEF Layer

\* Nothing is before the first layer.
LEMMA FirstLayer == Reached[0] = {}
BY ReachedIs

-------------------------------------------------------------------------------
(* The list of the committed, and the queue of the groups. *)

LEMMA ContainsIs ==
  ASSUME NEW s, NEW x
  PROVE  Contains(s, x) <=> \E i \in 1..Len(s) : s[i] = x
BY DEF Contains

LEMMA NotedIs ==
  ASSUME committed \in Seq(Steps), NEW s \in Steps, NEW yes \in BOOLEAN, Noted(s, yes)
  PROVE  /\ committed' \in Seq(Steps)
         /\ \A x : Contains(committed', x) <=> Contains(committed, x) \/ (yes /\ x = s)
<1>1. CASE yes /\ ~Contains(committed, s)
  <2>1. committed' = Append(committed, s)
    BY <1>1 DEF Noted
  <2>2. /\ committed' \in Seq(Steps) /\ Len(committed) \in Nat /\ Len(committed') = Len(committed) + 1
        /\ \A i \in 1..Len(committed) : committed'[i] = committed[i]
        /\ committed'[Len(committed) + 1] = s
    BY <2>1, AppendProperties, LenProperties
  <2>3. \A i \in 1..Len(committed') : i \in 1..Len(committed) \/ i = Len(committed) + 1
    BY <2>2
  <2>4. \A x : Contains(committed', x) <=> Contains(committed, x) \/ x = s
    BY <2>2, <2>3 DEF Contains
  <2> QED BY <1>1, <2>2, <2>4
<1>2. CASE ~(yes /\ ~Contains(committed, s))
  BY <1>2 DEF Noted
<1> QED BY <1>1, <1>2

LEMMA NotedInOrder ==
  ASSUME committed \in Seq(Steps), CommittedInOrder, NEW s \in Steps, NEW yes \in BOOLEAN, Noted(s, yes),
         \A d \in Deps[s] : Contains(committed, d)
  PROVE  CommittedInOrder'
<1>1. CASE yes /\ ~Contains(committed, s)
  <2> DEFINE n == Len(committed)
  <2>1. committed' = Append(committed, s)
    BY <1>1 DEF Noted
  <2>2. /\ n \in Nat /\ Len(committed') = n + 1
        /\ \A i \in 1..n : committed'[i] = committed[i]
        /\ committed'[n + 1] = s
    BY <2>1, AppendProperties, LenProperties
  <2>3. \A i \in 1..n : committed[i] # s
    BY <1>1 DEF Contains
  <2> HIDE DEF n
  <2>4. \A i \in 1..(n + 1) : i \in 1..n \/ i = n + 1
    BY <2>2
  <2>5. ASSUME NEW i \in 1..(n + 1), NEW j \in 1..(n + 1), committed'[i] = committed'[j]
        PROVE  i = j
    BY <2>2, <2>3, <2>4, <2>5 DEF CommittedInOrder, n
  <2>6. ASSUME NEW i \in 1..(n + 1), NEW d \in Deps[committed'[i]]
        PROVE  \E j \in 1..(i - 1) : committed'[j] = d
    <3>1. CASE i = n + 1
      <4>1. PICK j \in 1..n : committed[j] = d
        BY <2>2, <2>6, <3>1 DEF Contains, n
      <4>2. j \in 1..(i - 1) /\ committed'[j] = d
        BY <2>2, <3>1, <4>1
      <4> QED BY <4>2
    <3>2. CASE i \in 1..n
      <4>1. d \in Deps[committed[i]]
        BY <2>2, <2>6, <3>2
      <4>2. PICK j \in 1..(i - 1) : committed[j] = d
        BY <3>2, <4>1 DEF CommittedInOrder, n
      <4>3. j \in 1..n
        BY <2>2, <3>2
      <4> QED BY <2>2, <4>2, <4>3
    <3> QED BY <2>4, <3>1, <3>2
  <2> QED BY <2>2, <2>5, <2>6 DEF CommittedInOrder
<1>2. CASE ~(yes /\ ~Contains(committed, s))
  <2>1. committed' = committed
    BY <1>2 DEF Noted
  <2> QED BY <2>1 DEF CommittedInOrder
<1> QED BY <1>1, <1>2

\* What is left of the groups gs once those in front that are empty are passed:
\* gs from place k + 1 on.
LeftOf(gs, k) ==
  /\ k \in 0..Len(gs) /\ Len(groups') = Len(gs) - k
  /\ \A i \in 1..Len(groups') : groups'[i] = gs[i + k]
  /\ \A i \in 1..k : gs[i] = {}

LEMMA UndoingIs ==
  ASSUME NEW gs \in Seq(SUBSET Steps), Undoing(gs)
  PROVE  /\ groups' \in Seq(SUBSET Steps)
         /\ \E k \in Nat : LeftOf(gs, k)
         /\ \/ groups' = <<>> /\ stage' = "finishing" /\ comp' = comp
            \/ /\ groups' # <<>> /\ groups'[1] # {} /\ stage' = "compensating"
               /\ comp' = [s \in Steps |-> IF s \in groups'[1] THEN "undoing" ELSE comp[s]]
<1> DEFINE n == Len(gs)
<1>1. n \in Nat /\ \A i \in 1..n : gs[i] \in SUBSET Steps
  BY LenProperties, ElementOfSeq
<1>2. CASE \A i \in 1..n : gs[i] = {}
  <2>1. groups' = <<>> /\ stage' = "finishing" /\ comp' = comp
    BY <1>2 DEF Undoing
  <2>2. Len(groups') = 0 /\ groups' \in Seq(SUBSET Steps)
    BY <2>1, EmptySeq
  <2>3. LeftOf(gs, n)
    BY <1>1, <1>2, <2>2 DEF LeftOf
  <2> QED BY <1>1, <2>1, <2>2, <2>3
<1>3. CASE ~\A i \in 1..n : gs[i] = {}
  <2>1. PICK i \in 1..n : /\ gs[i] # {} /\ \A j \in 1..(i - 1) : gs[j] = {}
                          /\ groups' = SubSeq(gs, i, n) /\ stage' = "compensating"
                          /\ comp' = [s \in Steps |-> IF s \in gs[i] THEN "undoing" ELSE comp[s]]
    BY <1>3 DEF Undoing
  <2> HIDE DEF n
  <2>2. \A j \in i..n : gs[j] \in SUBSET Steps
    BY <1>1
  <2>3. /\ SubSeq(gs, i, n) \in Seq(SUBSET Steps)
        /\ Len(SubSeq(gs, i, n)) = IF i <= n THEN n - i + 1 ELSE 0
        /\ \A j \in 1..(n - i + 1) : SubSeq(gs, i, n)[j] = gs[i + j - 1]
    BY <1>1, <2>2, SubSeqProperties
  <2>4. /\ groups' \in Seq(SUBSET Steps) /\ Len(groups') = n - (i - 1)
        /\ \A j \in 1..Len(groups') : groups'[j] = gs[j + (i - 1)]
    BY <1>1, <2>1, <2>3
  <2>5. groups'[1] = gs[i] /\ groups' # <<>>
    BY <1>1, <2>4, EmptySeq
  <2>6. LeftOf(gs, i - 1) /\ i - 1 \in Nat
    BY <1>1, <2>1, <2>4 DEF LeftOf, n
  <2> QED BY <2>1, <2>4, <2>5, <2>6
<1> QED BY <1>2, <1>3

LEMMA ListIsSeq ==
  ASSUME NEW S, NEW n \in Nat, NEW f \in [1..n -> S]
  PROVE  f \in Seq(S) /\ Len(f) = n
OBVIOUS

\* Every step that is done is listed, so the list is what is to be undone.
LEMMA ToUndoIs ==
  ASSUME committed \in Seq(Steps), \A s \in Steps : status[s] = "DONE" => Contains(committed, s)
  PROVE  ToUndo = committed
<1>1. {s \in Steps : status[s] = "DONE"} \ ToSet(committed) = {}
  BY LenProperties DEF ToSet, Contains
<1>2. SetToSeq({}) = <<>>
  <2> DEFINE Is(f) == f \in [1..Cardinality({}) -> {}] /\ IsInjective(f)
  <2>1. Cardinality({}) = 0 /\ 1..Cardinality({}) = {}
    BY FS_EmptySet
  <2>2. Is(<<>>)
    BY <2>1 DEF IsInjective
  <2>3. SetToSeq({}) = CHOOSE f : Is(f)
    BY Zenon DEF SetToSeq
  <2> HIDE DEF Is
  <2>4. Is(SetToSeq({}))
    BY <2>2, <2>3, Zenon
  <2>5. SetToSeq({}) \in [1..0 -> {}]
    BY <2>1, <2>4 DEF Is
  <2>6. SetToSeq({}) \in Seq({}) /\ Len(SetToSeq({})) = 0
    BY <2>5, ListIsSeq
  <2> QED BY <2>6, EmptySeq
<1> QED BY <1>1, <1>2, ConcatEmptySeq DEF ToUndo

\* The committed steps that can be undone.
ToBeUndone == {s \in Undoable : Contains(committed, s)}

(* What the groups of a policy are: each step that is to be undone is in one, *)
(* after the steps that depend on it where the policy keeps their order.      *)
QueueOf(gs, p) ==
  /\ gs \in Seq(SUBSET Steps)
  /\ \A i \in 1..Len(gs) : gs[i] \subseteq ToBeUndone
  /\ \A s \in ToBeUndone : \E i \in 1..Len(gs) : s \in gs[i]
  /\ \A i, j \in 1..Len(gs) : gs[i] \cap gs[j] # {} => i = j
  /\ p \in {"STRICT_SEQUENTIAL", "RETRY_WITH_BACKOFF", "CIRCUIT_BREAKER"} =>
        \A i \in 1..Len(gs) : \E x \in Steps : gs[i] \subseteq {x}
  /\ p = "BEST_EFFORT_PARALLEL" => Len(gs) <= 1
  /\ p # "BEST_EFFORT_PARALLEL" =>
        \A i, j \in 1..Len(gs) : \A s \in gs[i] : \A d \in Deps[s] \cap gs[j] : i < j

LEMMA BestEffortQueue == QueueOf(<<ToBeUndone>>, "BEST_EFFORT_PARALLEL")
<1> DEFINE gs == <<ToBeUndone>>
<1>1. ToBeUndone \in SUBSET Steps
  BY SagaAssumption DEF ToBeUndone
<1>2. gs \in Seq(SUBSET Steps) /\ Len(gs) = 1 /\ gs[1] = ToBeUndone
  BY <1>1
<1>3. 1..Len(gs) = {1}
  BY <1>2
<1> HIDE DEF gs
<1>4. QueueOf(gs, "BEST_EFFORT_PARALLEL")
  BY <1>2, <1>3 DEF QueueOf
<1> QED BY <1>4 DEF gs

\* The layers from n down.
LEMMA LayerQueue ==
  ASSUME NEW gs, gs = [n \in 1..LayerCount |-> Layer(LayerCount + 1 - n) \cap ToBeUndone]
  PROVE  QueueOf(gs, "GROUPED_PARALLEL")
<1> DEFINE N == LayerCount
<1>1. N \in Nat /\ N >= 1 /\ Reached[N] = Steps /\ Reached[0] = {}
  BY LayersAre, FirstLayer
<1>2. ToBeUndone \subseteq Steps
  BY SagaAssumption DEF ToBeUndone
<1> HIDE DEF N
<1>3. \A n \in 1..N : N + 1 - n \in 1..N /\ N + 1 - n \in Nat \ {0}
  BY <1>1
<1>4. gs = [n \in 1..N |-> Layer(N + 1 - n) \cap ToBeUndone]
  BY DEF N
<1>5. \A n \in 1..N : gs[n] = Layer(N + 1 - n) \cap ToBeUndone
  BY <1>4
<1>6. gs \in Seq(SUBSET Steps) /\ Len(gs) = N
  <2>1. \A n \in 1..N : Layer(N + 1 - n) \cap ToBeUndone \in SUBSET Steps
    BY <1>2
  <2>2. gs \in [1..N -> SUBSET Steps]
    BY <1>4, <2>1, Zenon
  <2> QED BY <1>1, <2>2, ListIsSeq
<1>7. \A s \in ToBeUndone : \E i \in 1..N : s \in gs[i]
  <2> SUFFICES ASSUME NEW s \in ToBeUndone
               PROVE  \E i \in 1..N : s \in gs[i]
    OBVIOUS
  <2> DEFINE In == {n \in Nat : n <= N /\ s \in Reached[n]}
  <2>1. N \in In
    BY <1>1, <1>2
  <2>2. PICK n \in In : \A k \in In : n <= k
    BY <2>1, Smallest
  <2>3. n # 0
    BY <1>1, <2>2
  <2>4. n \in 1..N /\ n - 1 \in Nat /\ n \in Nat \ {0} /\ n - 1 <= N
    BY <1>1, <2>2, <2>3
  <2>5. s \notin Reached[n - 1] /\ s \in Reached[n]
    BY <2>2, <2>4
  <2>6. s \in Layer(n)
    BY <1>2, <2>4, <2>5, LayerIs
  <2>7. N + 1 - n \in 1..N /\ N + 1 - (N + 1 - n) = n
    BY <1>1, <2>4
  <2> QED BY <1>5, <2>6, <2>7
<1>8. ASSUME NEW i \in 1..N, NEW j \in 1..N, NEW s \in gs[i], NEW t \in gs[j],
             t = s \/ t \in Deps[s]
      PROVE  (t = s /\ i = j) \/ (t \in Deps[s] /\ i < j)
  <2> DEFINE a == N + 1 - i
             b == N + 1 - j
  <2>1. /\ a \in Nat \ {0} /\ b \in Nat \ {0} /\ a - 1 \in Nat /\ b - 1 \in Nat
        /\ i \in Nat /\ j \in Nat
    BY <1>1, <1>3
  <2>2. s \in Layer(a) /\ t \in Layer(b) /\ s \in Steps /\ t \in Steps
    BY <1>2, <1>5
  <2>3. s \in Reached[a] /\ s \notin Reached[a - 1] /\ t \in Reached[b] /\ t \notin Reached[b - 1]
    BY <2>1, <2>2, LayerIs
  <2>4. t \in Deps[s] => t \in Reached[a - 1]
    BY <2>1, <2>2, LayerIs
  <2>5. t \in Deps[s] => ~(a - 1 <= b - 1)
    BY <2>1, <2>3, <2>4, ReachedGrows
  <2>6. t = s => ~(a <= b - 1) /\ ~(b <= a - 1)
    BY <2>1, <2>3, ReachedGrows
  <2>7. t \in Deps[s] => i < j
    BY <1>1, <2>1, <2>5
  <2>8. t = s => i = j
    BY <1>1, <2>1, <2>6
  <2> QED BY <1>8, <2>7, <2>8
<1>9. \A i \in 1..N : gs[i] \subseteq ToBeUndone
  BY <1>5
<1>10. \A i, j \in 1..N : gs[i] \cap gs[j] # {} => i = j
  <2> SUFFICES ASSUME NEW i \in 1..N, NEW j \in 1..N, NEW s \in gs[i] \cap gs[j]
               PROVE  i = j
    OBVIOUS
  <2>1. i = j \/ i < j
    BY <1>8
  <2>2. j = i \/ j < i
    BY <1>8
  <2>3. i \in Nat /\ j \in Nat
    BY <1>1
  <2> QED BY <2>1, <2>2, <2>3
<1>11. \A i, j \in 1..N : \A s \in gs[i] : \A d \in Deps[s] \cap gs[j] : i < j
  <2> SUFFICES ASSUME NEW i \in 1..N, NEW j \in 1..N, NEW s \in gs[i], NEW d \in Deps[s] \cap gs[j]
               PROVE  i < j
    OBVIOUS
  <2>1. d # s
    <3>1. s \in Layer(N + 1 - i) /\ s \in Steps
      BY <1>2, <1>5
    <3>2. N + 1 - i \in Nat \ {0}
      BY <1>3
    <3> QED BY <3>1, <3>2, LayerIs
  <2> QED BY <1>8, <2>1
<1> DEFINE p == "GROUPED_PARALLEL"
<1>12. p \notin {"STRICT_SEQUENTIAL", "RETRY_WITH_BACKOFF", "CIRCUIT_BREAKER"} /\ p # "BEST_EFFORT_PARALLEL"
  OBVIOUS
<1> HIDE DEF p
<1>13. QueueOf(gs, p)
  <2>1. Len(gs) = N
    BY <1>6
  <2>2. \A s \in ToBeUndone : \E i \in 1..Len(gs) : s \in gs[i]
    BY <1>7, <2>1
  <2>3. \A i \in 1..Len(gs) : gs[i] \subseteq ToBeUndone
    BY <1>9, <2>1
  <2>4. \A i, j \in 1..Len(gs) : gs[i] \cap gs[j] # {} => i = j
    BY <1>10, <2>1
  <2>5. \A i, j \in 1..Len(gs) : \A s \in gs[i] : \A d \in Deps[s] \cap gs[j] : i < j
    BY <1>11, <2>1
  <2> QED BY <1>6, <1>12, <2>2, <2>3, <2>4, <2>5, Zenon DEF QueueOf
<1> QED BY <1>13 DEF p

\* The list backwards.
LEMMA ReverseQueue ==
  ASSUME committed \in Seq(Steps), CommittedInOrder,
         NEW gs, gs = [i \in 1..Len(committed) |-> {Reverse(committed)[i]} \cap ToBeUndone],
         NEW p \in {"STRICT_SEQUENTIAL", "RETRY_WITH_BACKOFF", "CIRCUIT_BREAKER"}
  PROVE  QueueOf(gs, p)
<1> DEFINE N == Len(committed)
           at(i) == committed[N - i + 1]
<1>1. N \in Nat /\ \A i \in 1..N : N - i + 1 \in 1..N /\ at(i) \in Steps
  BY LenProperties, ElementOfSeq
<1>2. gs = [i \in 1..N |-> {at(i)} \cap ToBeUndone]
  <2>1. \A i \in 1..N : Reverse(committed)[i] = at(i)
    BY DEF Reverse
  <2> QED BY <2>1
<1>3. ToBeUndone \subseteq Steps
  BY SagaAssumption DEF ToBeUndone
<1>4. \A i, j \in 1..N : committed[i] = committed[j] => i = j
  BY DEF CommittedInOrder
<1>5. \A i \in 1..N : \A d \in Deps[committed[i]] : \E j \in 1..(i - 1) : committed[j] = d
  BY DEF CommittedInOrder
<1>6. \A s \in ToBeUndone : \E i \in 1..N : committed[i] = s
  BY DEF ToBeUndone, Contains
<1> HIDE DEF N
<1>7. gs \in Seq(SUBSET Steps) /\ Len(gs) = N
  <2>1. gs \in [1..N -> SUBSET Steps]
    BY <1>2, <1>3
  <2> QED BY <1>1, <2>1
<1>8. \A i \in 1..N : gs[i] = {at(i)} \cap ToBeUndone
  BY <1>2
<1>9. \A s \in ToBeUndone : \E i \in 1..N : s \in gs[i]
  <2> SUFFICES ASSUME NEW s \in ToBeUndone
               PROVE  \E i \in 1..N : s \in gs[i]
    OBVIOUS
  <2>1. PICK k \in 1..N : committed[k] = s
    BY <1>6
  <2>2. N - k + 1 \in 1..N /\ N - (N - k + 1) + 1 = k
    BY <1>1
  <2> QED BY <1>8, <2>1, <2>2
<1>10. \A i, j \in 1..N : gs[i] \cap gs[j] # {} => i = j
  <2> SUFFICES ASSUME NEW i \in 1..N, NEW j \in 1..N, NEW s \in gs[i] \cap gs[j]
               PROVE  i = j
    OBVIOUS
  <2>1. at(i) = at(j)
    <3>1. s \in {at(i)} /\ s \in {at(j)}
      BY <1>8
    <3> QED BY <3>1
  <2>2. N - i + 1 = N - j + 1
    BY <1>1, <1>4, <2>1
  <2> QED BY <1>1, <2>2
<1>11. \A i, j \in 1..N : \A s \in gs[i] : \A d \in Deps[s] \cap gs[j] : i < j
  <2> SUFFICES ASSUME NEW i \in 1..N, NEW j \in 1..N, NEW s \in gs[i], NEW d \in Deps[s] \cap gs[j]
               PROVE  i < j
    OBVIOUS
  <2>1. s \in {at(i)} /\ d \in {at(j)}
    BY <1>8
  <2>2. PICK k \in 1..((N - i + 1) - 1) : committed[k] = d
    BY <1>1, <1>5, <2>1
  <2>3. k \in 1..N /\ k = N - j + 1
    BY <1>1, <1>4, <2>1, <2>2
  <2> QED BY <1>1, <2>2, <2>3
<1>12. \A i \in 1..N : gs[i] \subseteq ToBeUndone /\ \E x \in Steps : gs[i] \subseteq {x}
  BY <1>1, <1>8
<1>13. p # "BEST_EFFORT_PARALLEL"
  OBVIOUS
<1>14. Len(gs) = N
  BY <1>7
<1>15. \A s \in ToBeUndone : \E i \in 1..Len(gs) : s \in gs[i]
  BY <1>9, <1>14
<1>16. \A i \in 1..Len(gs) : gs[i] \subseteq ToBeUndone /\ \E x \in Steps : gs[i] \subseteq {x}
  BY <1>12, <1>14
<1>17. \A i, j \in 1..Len(gs) : gs[i] \cap gs[j] # {} => i = j
  BY <1>10, <1>14
<1>18. \A i, j \in 1..Len(gs) : \A s \in gs[i] : \A d \in Deps[s] \cap gs[j] : i < j
  BY <1>11, <1>14
<1> QED BY <1>7, <1>13, <1>15, <1>16, <1>17, <1>18, Zenon DEF QueueOf

LEMMA GroupsAre ==
  ASSUME committed \in Seq(Steps), CommittedInOrder, \A s \in Steps : status[s] = "DONE" => Contains(committed, s),
         NEW p \in Policies
  PROVE  QueueOf(Groups(p), p)
<1>1. ToUndo = committed
  BY ToUndoIs
<1>2. ToSet(ToUndo) \cap Undoable = ToBeUndone
  BY <1>1, LenProperties DEF ToSet, ToBeUndone, Contains
<1>3. CASE p = "BEST_EFFORT_PARALLEL"
  <2>1. Groups(p) = <<ToBeUndone>>
    BY <1>2, <1>3 DEF Groups
  <2> QED BY <1>3, <2>1, BestEffortQueue
<1>4. CASE p = "GROUPED_PARALLEL"
  <2>1. Groups(p) = [n \in 1..LayerCount |-> Layer(LayerCount + 1 - n) \cap ToBeUndone]
    BY <1>2, <1>4 DEF Groups
  <2> QED BY <1>4, <2>1, LayerQueue
<1>5. CASE p \in {"STRICT_SEQUENTIAL", "RETRY_WITH_BACKOFF", "CIRCUIT_BREAKER"}
  <2>1. Groups(p) = [i \in 1..Len(committed) |-> {Reverse(committed)[i]} \cap ToBeUndone]
    BY <1>1, <1>2, <1>5 DEF Groups
  <2> QED BY <1>5, <2>1, ReverseQueue
<1> QED BY <1>3, <1>4, <1>5, SagaAssumption

-------------------------------------------------------------------------------
(* The tasks of the steps. *)

\* What one task of the layer may do to the rest of the execution.
TaskMoved(s) ==
  /\ s \in Layer(layer)
  /\ \A t \in Steps \ {s} : task'[t] = task[t] /\ status'[t] = status[t]
                            /\ effect'[t] = effect[t] /\ attempt'[t] = attempt[t]
  /\ StepOK(s)' /\ task'[s] \notin {"unborn", "over"}
  /\ \A x : Contains(committed, x) => Contains(committed', x)
  /\ failed => failed'
  /\ CommittedInOrder'

LEMMA TaskKeeps ==
  ASSUME SagaTypeOK, StepsInv, stage = "executing", NEW s \in Steps, OnlySteps, TaskMoved(s)
  PROVE  StepsInv'
<1> USE DEF OnlySteps
<1>1. layer \in 1..LayerCount /\ InLayer(layer) /\ result = "none" /\ NothingUndone
  BY DEF StepsInv, StageOK
<1>2. layer \in Nat \ {0}
  BY <1>1, LayersAre
<1>3. layer' = layer /\ stage' = stage /\ result' = result /\ record' = record /\ recovering' = recovering
  OBVIOUS
<1>4. ASSUME NEW t \in Steps
      PROVE  StepOK(t)'
  <2>1. CASE t = s
    BY <2>1 DEF TaskMoved
  <2>2. CASE t # s
    <3>1. task'[t] = task[t] /\ status'[t] = status[t] /\ effect'[t] = effect[t] /\ attempt'[t] = attempt[t]
      BY <2>2 DEF TaskMoved
    <3>2. Contains(committed, t) => Contains(committed', t)
      BY DEF TaskMoved
    <3>3. failed => failed'
      BY DEF TaskMoved
    <3>4. StepOK(t)
      BY DEF StepsInv
    <3> QED BY <3>1, <3>2, <3>3, <3>4 DEF StepOK, Done
  <2> QED BY <2>1, <2>2
<1>5. InLayer(layer)'
  <2>1. s \in Reached[layer] /\ s \notin Reached[layer - 1]
    BY <1>2, LayerIs DEF TaskMoved
  <2>2. ASSUME NEW t \in Steps
        PROVE  /\ t \in Reached[layer - 1] => task'[t] = "over" /\ Done(t)'
               /\ t \in Layer(layer) => task'[t] \notin {"unborn", "over"}
               /\ t \notin Reached[layer] => task'[t] = "unborn"
    <3>1. CASE t = s
      BY <2>1, <3>1 DEF TaskMoved
    <3>2. CASE t # s
      <4>1. task'[t] = task[t] /\ status'[t] = status[t] /\ effect'[t] = effect[t]
        BY <3>2 DEF TaskMoved
      <4>2. Contains(committed, t) => Contains(committed', t)
        BY DEF TaskMoved
      <4> QED BY <1>1, <4>1, <4>2 DEF InLayer, Done
    <3> QED BY <3>1, <3>2
  <2> QED BY <1>3, <2>2 DEF InLayer
<1>6. NothingUndone'
  BY <1>1 DEF NothingUndone, compVars
<1>7. StageOK'
  BY <1>1, <1>3, <1>5, <1>6 DEF StageOK, Failing
<1>8. RecordOK'
  BY <1>3 DEF RecordOK, StepsInv, Failing
<1>9. CommittedInOrder'
  BY DEF TaskMoved
<1> QED BY <1>4, <1>7, <1>8, <1>9 DEF StepsInv

\* A step whose task is alive is of the layer, and what it depends on is done.
LEMMA Alive ==
  ASSUME SagaTypeOK, StepsInv, stage = "executing", NEW s \in Steps, task[s] \notin {"unborn", "over"}
  PROVE  s \in Layer(layer) /\ \A d \in Deps[s] : d \in Steps /\ Done(d)
<1>1. layer \in 1..LayerCount /\ InLayer(layer)
  BY DEF StepsInv, StageOK
<1>2. layer \in Nat \ {0}
  BY <1>1, LayersAre
<1>3. s \in Layer(layer)
  BY <1>1, <1>2, LayerIs DEF InLayer
<1>4. \A d \in Deps[s] : d \in Reached[layer - 1] /\ d \in Steps
  BY <1>2, <1>3, LayerIs
<1> QED BY <1>1, <1>3, <1>4 DEF InLayer

\* A step that notes itself, or does not, for the rest of the list.
LEMMA TaskNotes ==
  ASSUME SagaTypeOK, StepsInv, stage = "executing", NEW s \in Steps, task[s] \notin {"unborn", "over"},
         NEW yes \in BOOLEAN, Noted(s, yes)
  PROVE  /\ committed' \in Seq(Steps) /\ CommittedInOrder'
         /\ \A x : Contains(committed, x) => Contains(committed', x)
         /\ yes => Contains(committed', s)
<1>1. committed \in Seq(Steps) /\ CommittedInOrder
  BY DEF SagaTypeOK, StepsInv
<1>2. \A d \in Deps[s] : Contains(committed, d)
  BY Alive DEF Done
<1> QED BY <1>1, <1>2, NotedIs, NotedInOrder

LEMMA TaskLists ==
  ASSUME StepsInv, committed' = committed
  PROVE  CommittedInOrder' /\ \A x : Contains(committed, x) => Contains(committed', x)
BY DEF StepsInv, CommittedInOrder

\* Types of what a task assigns.
TaskTypes ==
  /\ task' \in [Steps -> TaskStates]
  /\ request' \in [Steps -> {"none", "pending", "delivered"}]
  /\ attempt' \in [Steps -> 0..MaxAttempts]
  /\ status' \in [Steps -> {"PENDING", "RUNNING", "DONE", "FAILED", "COMPENSATED"}]
  /\ committed' \in Seq(Steps) /\ failed' \in BOOLEAN
  /\ effect' \in [Steps -> Nat]

LEMMA AssignTypes ==
  ASSUME SagaTypeOK, NEW s \in Steps
  PROVE  /\ \A how \in TaskStates : EndsAs(s, how) =>
              /\ task' \in [Steps -> TaskStates] /\ task'[s] = how
              /\ \A t \in Steps \ {s} : task'[t] = task[t]
         /\ \A st \in {"RUNNING", "DONE", "FAILED", "COMPENSATED"} : Status(s, st) =>
              /\ status' \in [Steps -> {"PENDING", "RUNNING", "DONE", "FAILED", "COMPENSATED"}]
              /\ status'[s] = st /\ \A t \in Steps \ {s} : status'[t] = status[t]
         /\ Heard(s) => request' \in [Steps -> {"none", "pending", "delivered"}]
         /\ \A yes \in BOOLEAN : Took(s, yes) =>
              /\ effect' \in [Steps -> Nat] /\ effect'[s] = effect[s] + (IF yes THEN 1 ELSE 0)
              /\ \A t \in Steps \ {s} : effect'[t] = effect[t]
<1>1. \A how \in TaskStates : EndsAs(s, how) =>
         /\ task' \in [Steps -> TaskStates] /\ task'[s] = how
         /\ \A t \in Steps \ {s} : task'[t] = task[t]
  BY DEF SagaTypeOK, EndsAs
<1>2. \A st \in {"RUNNING", "DONE", "FAILED", "COMPENSATED"} : Status(s, st) =>
         /\ status' \in [Steps -> {"PENDING", "RUNNING", "DONE", "FAILED", "COMPENSATED"}]
         /\ status'[s] = st /\ \A t \in Steps \ {s} : status'[t] = status[t]
  BY DEF SagaTypeOK, Status
<1>3. Heard(s) => request' \in [Steps -> {"none", "pending", "delivered"}]
  BY DEF SagaTypeOK, Heard
<1>4. \A yes \in BOOLEAN : Took(s, yes) =>
         /\ effect' \in [Steps -> Nat] /\ effect'[s] = effect[s] + (IF yes THEN 1 ELSE 0)
         /\ \A t \in Steps \ {s} : effect'[t] = effect[t]
  BY DEF SagaTypeOK, Took
<1> QED BY <1>1, <1>2, <1>3, <1>4

LEMMA TaskIs ==
  ASSUME SagaTypeOK, StepsInv, stage = "executing", NEW s \in Steps,
         StepMoves(s) \/ StepCancelsItself(s)
  PROVE  OnlySteps /\ TaskTypes /\ TaskMoved(s)
<1>0. /\ task \in [Steps -> TaskStates] /\ request \in [Steps -> {"none", "pending", "delivered"}]
      /\ attempt \in [Steps -> 0..MaxAttempts]
      /\ status \in [Steps -> {"PENDING", "RUNNING", "DONE", "FAILED", "COMPENSATED"}]
      /\ committed \in Seq(Steps) /\ failed \in BOOLEAN /\ effect \in [Steps -> Nat]
  BY DEF SagaTypeOK
<1>1. /\ StepOK(s) /\ MaxAttempts \in Nat \ {0}
      /\ task[s] \notin {"unborn", "over"} => s \in Layer(layer)
  BY Alive, SagaAssumption DEF StepsInv
<1>2. ASSUME NEW how \in TaskStates, EndsAs(s, how)
      PROVE  /\ task' \in [Steps -> TaskStates] /\ task'[s] = how
             /\ \A t \in Steps \ {s} : task'[t] = task[t]
  BY <1>2, AssignTypes
<1>3. ASSUME NEW st \in {"RUNNING", "DONE", "FAILED", "COMPENSATED"}, Status(s, st)
      PROVE  /\ status' \in [Steps -> {"PENDING", "RUNNING", "DONE", "FAILED", "COMPENSATED"}]
             /\ status'[s] = st /\ \A t \in Steps \ {s} : status'[t] = status[t]
  BY <1>3, AssignTypes
<1>4. ASSUME NEW yes \in BOOLEAN, Took(s, yes)
      PROVE  /\ effect' \in [Steps -> Nat] /\ effect'[s] = effect[s] + (IF yes THEN 1 ELSE 0)
             /\ \A t \in Steps \ {s} : effect'[t] = effect[t]
  BY <1>4, AssignTypes
<1>5. Heard(s) => request' \in [Steps -> {"none", "pending", "delivered"}]
  BY AssignTypes
<1>6. ASSUME NEW yes \in BOOLEAN, Noted(s, yes), task[s] \notin {"unborn", "over"}
      PROVE  /\ committed' \in Seq(Steps) /\ CommittedInOrder'
             /\ \A x : Contains(committed, x) => Contains(committed', x)
             /\ yes => Contains(committed', s)
  BY <1>6, TaskNotes
<1>7. committed' = committed => /\ committed' \in Seq(Steps) /\ CommittedInOrder'
                                /\ \A x : Contains(committed, x) => Contains(committed', x)
  BY <1>0, TaskLists
<1>8. CASE StepBegins(s)
  <2>1. task[s] = "waiting" /\ effect[s] = 0
    BY <1>1, <1>8 DEF StepBegins, StepOK
  <2>2. CASE failed
    <3>1. /\ EndsAs(s, "ok") /\ attempt' = attempt /\ status' = status /\ OnlySteps
          /\ request' = request /\ committed' = committed /\ failed' = failed /\ effect' = effect
      BY <1>8, <2>2 DEF StepBegins
    <3>2. /\ task' \in [Steps -> TaskStates] /\ task'[s] = "ok"
          /\ \A t \in Steps \ {s} : task'[t] = task[t]
      BY <1>2, <3>1 DEF TaskStates
    <3>3. StepOK(s)'
      BY <1>1, <1>7, <2>1, <2>2, <3>1, <3>2 DEF StepOK, Done
    <3> QED BY <1>1, <1>0, <1>7, <2>1, <3>1, <3>2, <3>3 DEF TaskTypes, TaskMoved
  <2>3. CASE ~failed
    <3>1. /\ EndsAs(s, "trying") /\ attempt' = [attempt EXCEPT ![s] = 1] /\ Status(s, "RUNNING") /\ OnlySteps
          /\ request' = request /\ committed' = committed /\ failed' = failed /\ effect' = effect
      BY <1>8, <2>3 DEF StepBegins
    <3>2. /\ task' \in [Steps -> TaskStates] /\ task'[s] = "trying"
          /\ \A t \in Steps \ {s} : task'[t] = task[t]
      BY <1>2, <3>1 DEF TaskStates
    <3>3. /\ status' \in [Steps -> {"PENDING", "RUNNING", "DONE", "FAILED", "COMPENSATED"}]
          /\ status'[s] = "RUNNING" /\ \A t \in Steps \ {s} : status'[t] = status[t]
      BY <1>3, <3>1
    <3>4. /\ attempt' \in [Steps -> 0..MaxAttempts]
          /\ \A t \in Steps \ {s} : attempt'[t] = attempt[t]
      BY <1>1, <1>0, <3>1
    <3>5. StepOK(s)'
      BY <1>1, <1>7, <2>1, <3>1, <3>2, <3>3 DEF StepOK, Done
    <3> QED BY <1>1, <1>0, <1>7, <2>1, <3>1, <3>2, <3>3, <3>4, <3>5 DEF TaskTypes, TaskMoved
  <2> QED BY <2>2, <2>3
<1>9. ASSUME NEW took \in BOOLEAN, NEW seen \in BOOLEAN, StepFails(s, took, seen)
      PROVE  OnlySteps /\ TaskTypes /\ TaskMoved(s)
  <2>1. /\ task[s] = "trying" /\ (took => seen) /\ Took(s, took) /\ Heard(s) /\ OnlySteps
        /\ attempt' = attempt /\ failed' = failed
    BY <1>9 DEF StepFails
  <2>2. /\ effect' \in [Steps -> Nat] /\ effect'[s] = effect[s] + (IF took THEN 1 ELSE 0)
        /\ \A t \in Steps \ {s} : effect'[t] = effect[t]
    BY <1>4, <2>1
  <2>3. effect[s] = 0
    BY <1>1, <2>1 DEF StepOK
  <2>4. CASE Retries(s, seen)
    <3>1. EndsAs(s, "pausing") /\ status' = status /\ committed' = committed
      BY <1>9, <2>4 DEF StepFails
    <3>2. /\ task' \in [Steps -> TaskStates] /\ task'[s] = "pausing"
          /\ \A t \in Steps \ {s} : task'[t] = task[t]
      BY <1>2, <3>1 DEF TaskStates
    <3>3. effect'[s] = 0 /\ attempt'[s] < MaxAttempts
      BY <2>1, <2>2, <2>3, <2>4 DEF Retries
    <3>4. StepOK(s)'
      BY <1>1, <1>7, <2>1, <2>3, <3>1, <3>2, <3>3 DEF StepOK, Done
    <3> QED BY <1>1, <1>0, <1>5, <1>7, <2>1, <2>2, <3>1, <3>2, <3>4 DEF TaskTypes, TaskMoved
  <2>5. CASE ~Retries(s, seen)
    <3>1. EndsAs(s, "reporting") /\ Status(s, "FAILED") /\ Noted(s, seen)
      BY <1>9, <2>5 DEF StepFails
    <3>2. /\ task' \in [Steps -> TaskStates] /\ task'[s] = "reporting"
          /\ \A t \in Steps \ {s} : task'[t] = task[t]
      BY <1>2, <3>1 DEF TaskStates
    <3>3. /\ status' \in [Steps -> {"PENDING", "RUNNING", "DONE", "FAILED", "COMPENSATED"}]
          /\ status'[s] = "FAILED" /\ \A t \in Steps \ {s} : status'[t] = status[t]
      BY <1>3, <3>1
    <3>4. /\ committed' \in Seq(Steps) /\ CommittedInOrder'
          /\ \A x : Contains(committed, x) => Contains(committed', x)
          /\ seen => Contains(committed', s)
      BY <1>6, <2>1, <3>1
    <3>5. effect'[s] \in {0, 1} /\ (effect'[s] = 1 => seen)
      BY <2>1, <2>2, <2>3
    <3>6. StepOK(s)'
      BY <3>2, <3>3, <3>4, <3>5 DEF StepOK, Done
    <3> QED BY <1>1, <1>0, <1>5, <2>1, <2>2, <3>2, <3>3, <3>4, <3>6 DEF TaskTypes, TaskMoved
  <2> QED BY <2>4, <2>5
<1>10. ASSUME NEW took \in BOOLEAN, NEW seen \in BOOLEAN, StepCancelled(s, took, seen)
       PROVE  OnlySteps /\ TaskTypes /\ TaskMoved(s)
  <2>1. /\ task[s] = "trying" /\ (took => seen) /\ Took(s, took) /\ Heard(s) /\ OnlySteps
        /\ attempt' = attempt /\ failed' = failed
        /\ EndsAs(s, "cancelled") /\ Status(s, "FAILED") /\ Noted(s, seen)
    BY <1>10 DEF StepCancelled
  <2>2. /\ effect' \in [Steps -> Nat] /\ effect'[s] = effect[s] + (IF took THEN 1 ELSE 0)
        /\ \A t \in Steps \ {s} : effect'[t] = effect[t]
    BY <1>4, <2>1
  <2>3. effect[s] = 0
    BY <1>1, <2>1 DEF StepOK
  <2>4. /\ task' \in [Steps -> TaskStates] /\ task'[s] = "cancelled"
        /\ \A t \in Steps \ {s} : task'[t] = task[t]
    BY <1>2, <2>1 DEF TaskStates
  <2>5. /\ status' \in [Steps -> {"PENDING", "RUNNING", "DONE", "FAILED", "COMPENSATED"}]
        /\ status'[s] = "FAILED" /\ \A t \in Steps \ {s} : status'[t] = status[t]
    BY <1>3, <2>1
  <2>6. /\ committed' \in Seq(Steps) /\ CommittedInOrder'
        /\ \A x : Contains(committed, x) => Contains(committed', x)
        /\ seen => Contains(committed', s)
    BY <1>6, <2>1
  <2>7. effect'[s] \in {0, 1} /\ (effect'[s] = 1 => seen)
    BY <2>1, <2>2, <2>3
  <2>8. StepOK(s)'
    BY <2>4, <2>5, <2>6, <2>7 DEF StepOK, Done
  <2> QED BY <1>1, <1>0, <1>5, <2>1, <2>2, <2>4, <2>5, <2>6, <2>8 DEF TaskTypes, TaskMoved
<1>11. CASE StepSucceeds(s)
  <2>1. /\ task[s] = "trying" /\ Took(s, TRUE) /\ Status(s, "DONE") /\ Noted(s, TRUE)
        /\ EndsAs(s, "telling") /\ Heard(s) /\ OnlySteps /\ attempt' = attempt /\ failed' = failed
    BY <1>11 DEF StepSucceeds
  <2>2. /\ effect' \in [Steps -> Nat] /\ effect'[s] = effect[s] + 1
        /\ \A t \in Steps \ {s} : effect'[t] = effect[t]
    BY <1>4, <2>1
  <2>3. effect[s] = 0
    BY <1>1, <2>1 DEF StepOK
  <2>4. /\ task' \in [Steps -> TaskStates] /\ task'[s] = "telling"
        /\ \A t \in Steps \ {s} : task'[t] = task[t]
    BY <1>2, <2>1 DEF TaskStates
  <2>5. /\ status' \in [Steps -> {"PENDING", "RUNNING", "DONE", "FAILED", "COMPENSATED"}]
        /\ status'[s] = "DONE" /\ \A t \in Steps \ {s} : status'[t] = status[t]
    BY <1>3, <2>1
  <2>6. /\ committed' \in Seq(Steps) /\ CommittedInOrder'
        /\ \A x : Contains(committed, x) => Contains(committed', x)
        /\ Contains(committed', s)
    BY <1>6, <2>1
  <2>7. effect'[s] = 1
    BY <2>2, <2>3
  <2>8. StepOK(s)'
    BY <2>4, <2>5, <2>6, <2>7 DEF StepOK, Done
  <2> QED BY <1>1, <1>0, <1>5, <2>1, <2>2, <2>4, <2>5, <2>6, <2>8 DEF TaskTypes, TaskMoved
<1>12. CASE StepNeverBegins(s) \/ PauseCancelled(s)
  <2>1. /\ task[s] \in {"waiting", "pausing"} /\ EndsAs(s, "cancelled") /\ Heard(s) /\ OnlySteps
        /\ attempt' = attempt /\ status' = status /\ committed' = committed
        /\ failed' = failed /\ effect' = effect
    BY <1>12 DEF StepNeverBegins, PauseCancelled
  <2>2. /\ task' \in [Steps -> TaskStates] /\ task'[s] = "cancelled"
        /\ \A t \in Steps \ {s} : task'[t] = task[t]
    BY <1>2, <2>1 DEF TaskStates
  <2>3. StepOK(s)'
    BY <1>1, <2>1, <2>2 DEF StepOK, Done
  <2> QED BY <1>1, <1>0, <1>5, <1>7, <2>1, <2>2, <2>3 DEF TaskTypes, TaskMoved
<1>13. CASE PauseEnds(s)
  <2>1. /\ task[s] = "pausing" /\ OnlySteps /\ request' = request /\ committed' = committed
        /\ failed' = failed /\ effect' = effect
    BY <1>13 DEF PauseEnds
  <2>2. effect[s] = 0 /\ attempt[s] < MaxAttempts
    BY <1>1, <2>1 DEF StepOK
  <2>3. /\ attempt' \in [Steps -> 0..MaxAttempts]
        /\ \A t \in Steps \ {s} : attempt'[t] = attempt[t]
    <3>1. attempt' = attempt \/ attempt' = [attempt EXCEPT ![s] = attempt[s] + 1]
      BY <1>13 DEF PauseEnds
    <3>2. attempt[s] + 1 \in 0..MaxAttempts
      BY <1>0, <1>1, <2>2
    <3> QED BY <1>0, <3>1, <3>2
  <2>4. \E how \in {"reporting", "trying"}, st \in {"FAILED", "RUNNING"} : EndsAs(s, how) /\ Status(s, st)
    BY <1>13 DEF PauseEnds
  <2>5. /\ task' \in [Steps -> TaskStates] /\ task'[s] \in {"reporting", "trying"}
        /\ \A t \in Steps \ {s} : task'[t] = task[t]
    BY <1>2, <2>4 DEF TaskStates
  <2>6. /\ status' \in [Steps -> {"PENDING", "RUNNING", "DONE", "FAILED", "COMPENSATED"}]
        /\ status'[s] \in {"FAILED", "RUNNING"} /\ \A t \in Steps \ {s} : status'[t] = status[t]
    BY <1>3, <2>4
  <2>7. StepOK(s)'
    BY <1>1, <2>1, <2>2, <2>5, <2>6 DEF StepOK, Done
  <2> QED BY <1>1, <1>0, <1>7, <2>1, <2>3, <2>5, <2>6, <2>7 DEF TaskTypes, TaskMoved
<1>14. CASE StepTold(s) \/ StepReported(s)
  <2>1. /\ task[s] \in {"telling", "reporting"} /\ Heard(s) /\ OnlySteps
        /\ attempt' = attempt /\ status' = status /\ committed' = committed /\ effect' = effect
    BY <1>14 DEF StepTold, StepReported
  <2>2. \/ EndsAs(s, "ok") /\ failed' = failed /\ task[s] = "telling"
        \/ EndsAs(s, "failed") /\ failed' = TRUE
        \/ EndsAs(s, "cancelled") /\ failed' = failed
    BY <1>14 DEF StepTold, StepReported
  <2>3. failed' \in BOOLEAN /\ (failed => failed')
    BY <1>0, <2>2
  <2>4. /\ task' \in [Steps -> TaskStates] /\ task'[s] \in {"ok", "failed", "cancelled"}
        /\ \A t \in Steps \ {s} : task'[t] = task[t]
        /\ task'[s] = "ok" => task[s] = "telling"
        /\ task'[s] = "failed" => failed'
    BY <1>2, <2>2 DEF TaskStates
  <2>5. StepOK(s)'
    BY <1>1, <2>1, <2>4 DEF StepOK, Done
  <2> QED BY <1>1, <1>0, <1>5, <1>7, <2>1, <2>3, <2>4, <2>5 DEF TaskTypes, TaskMoved
<1>15. CASE StepCancelsItself(s)
  <2>1. /\ task[s] = "trying" /\ OnlySteps /\ task' = task
        /\ attempt' = attempt /\ status' = status /\ committed' = committed
        /\ failed' = failed /\ effect' = effect
        /\ request' = [request EXCEPT ![s] = "pending"]
    BY <1>15 DEF StepCancelsItself
  <2>2. request' \in [Steps -> {"none", "pending", "delivered"}]
    BY <1>0, <2>1
  <2>3. StepOK(s)'
    BY <1>1, <2>1 DEF StepOK, Done
  <2> QED BY <1>1, <1>0, <1>7, <2>1, <2>2, <2>3 DEF TaskTypes, TaskMoved
<1> QED BY <1>8, <1>9, <1>10, <1>11, <1>12, <1>13, <1>14, <1>15 DEF StepMoves

-------------------------------------------------------------------------------
(* The layers come and go. *)

\* While nothing is undone there is nothing to say of the compensations.
LEMMA Calm ==
  ASSUME NothingUndone', result' \in {"none", "success"}
  PROVE  CompInv'
<1>1. /\ groups' = <<>> /\ Len(groups') = 0 /\ streak' = 0
      /\ \A s \in Steps : comp'[s] = "no" /\ undone'[s] = 0
  BY EmptySeq DEF NothingUndone
<1>2. GroupsOK'
  BY <1>1 DEF GroupsOK
<1>3. RunningOK'
  BY <1>1 DEF RunningOK, Running
<1>4. \A s \in Steps : UndoneOK(s)'
  BY <1>1, SagaAssumption DEF UndoneOK, AtWork
<1>5. QueuedInOrder'
  BY <1>1, SagaAssumption DEF QueuedInOrder
<1>6. AllAccounted'
  BY DEF AllAccounted, Failing
<1>7. StreakCounted'
  <2>1. IsFiniteSet({t \in Errors : ~AtWork(t)}')
    BY SagaAssumption, FS_Subset DEF Errors
  <2> QED BY <1>1, <2>1, FS_CardinalityType DEF StreakCounted
<1> QED BY <1>2, <1>3, <1>4, <1>5, <1>6, <1>7 DEF CompInv

\* What the tasks, the list and the compensations are is as it was.
LEMMA CompStays ==
  ASSUME CompInv, UNCHANGED <<policy, result, compVars, effect>>
  PROVE  CompInv'
<1> USE DEF compVars
<1>1. GroupsOK'
  BY DEF CompInv, GroupsOK
<1>2. RunningOK'
  BY DEF CompInv, RunningOK, Running, AtWork, Stopped
<1>3. \A s \in Steps : UndoneOK(s)'
  BY DEF CompInv, UndoneOK, AtWork
<1>4. QueuedInOrder'
  BY DEF CompInv, QueuedInOrder, Owing, Passed
<1>5. AllAccounted'
  BY DEF CompInv, AllAccounted, Failing, Owing, Accounted, Queued, Passed, Stopped, GivenUp, Errors
<1>6. StreakCounted'
  BY DEF CompInv, StreakCounted, Errors, AtWork
<1> QED BY <1>1, <1>2, <1>3, <1>4, <1>5, <1>6 DEF CompInv

LEMMA StepStays ==
  ASSUME StepsInv, UNCHANGED <<task, attempt, status, committed, failed, effect>>
  PROVE  (\A s \in Steps : StepOK(s)') /\ CommittedInOrder'
<1>1. \A s \in Steps : StepOK(s)'
  BY DEF StepsInv, StepOK, Done
<1>2. CommittedInOrder'
  BY TaskLists
<1> QED BY <1>1, <1>2

SagaIInv == SagaTypeOK /\ StepsInv /\ CompInv

\* LayerFails and CallerCancels ask tasks to end.
LEMMA AskKeeps ==
  ASSUME SagaIInv, LayerFails \/ CallerCancels, limit' = limit
  PROVE  SagaIInv'
<1> USE DEF SagaIInv, compVars
<1>1. /\ UNCHANGED <<policy, stage, layer, task, attempt, status, committed, failed, result,
                     compVars, effect, record, recovering>>
      /\ orch' \in {"failing", "cancelling"} /\ \E which : Asked(which)
  BY DEF LayerFails, CallerCancels
<1>2. request' \in [Steps -> {"none", "pending", "delivered"}]
  BY <1>1 DEF Asked, SagaTypeOK
<1>3. SagaTypeOK'
  BY <1>1, <1>2 DEF SagaTypeOK
<1>4. (\A s \in Steps : StepOK(s)') /\ CommittedInOrder'
  BY <1>1, StepStays
<1>5. StageOK'
  BY <1>1 DEF StepsInv, StageOK, Failing, NothingUndone, InLayer, Done
<1>6. RecordOK'
  BY <1>1 DEF StepsInv, RecordOK, Failing
<1>7. CompInv'
  BY <1>1, CompStays
<1> QED BY <1>3, <1>4, <1>5, <1>6, <1>7 DEF StepsInv

\* The tasks of the next layer are made.
LEMMA LayerBegins ==
  ASSUME SagaTypeOK, NEW n \in 1..LayerCount, BeginLayer(n),
         \A s \in Reached[n - 1] : Left(task[s]) = "over" /\ Done(s),
         \A s \in Steps : s \notin Reached[n - 1] => task[s] = "unborn",
         \A s \in Steps : StepOK(s),
         UNCHANGED <<status, committed, effect>>
  PROVE  /\ InLayer(n)' /\ layer' = n /\ \A s \in Steps : StepOK(s)'
         /\ task' \in [Steps -> TaskStates] /\ orch' = "running" /\ failed' = FALSE
         /\ request' \in [Steps -> {"none", "pending", "delivered"}] /\ attempt' \in [Steps -> 0..MaxAttempts]
<1>0. n \in Nat \ {0}
  BY LayersAre
<1>1. /\ layer' = n /\ request' = [s \in Steps |-> "none"] /\ attempt' = [s \in Steps |-> 0]
      /\ orch' = "running" /\ failed' = FALSE
      /\ task' = [s \in Steps |-> IF s \in Layer(n) THEN "waiting" ELSE Left(task[s])]
  BY DEF BeginLayer, LeaveLayer
<1>2. \A s \in Steps : Left(task[s]) \in TaskStates
  BY DEF SagaTypeOK, Left, Ended, TaskStates
<1>3. MaxAttempts \in Nat
  BY SagaAssumption
<1>4. ASSUME NEW s \in Steps
      PROVE  /\ s \in Reached[n - 1] => task'[s] = "over" /\ Done(s)
             /\ s \in Layer(n) => task'[s] = "waiting" /\ task[s] = "unborn"
             /\ s \notin Reached[n] => task'[s] = "unborn"
  <2>1. /\ s \in Layer(n) <=> s \in Reached[n] /\ s \notin Reached[n - 1]
        /\ s \in Reached[n - 1] => s \in Reached[n]
    BY <1>0, LayerIs
  <2>2. task'[s] = IF s \in Layer(n) THEN "waiting" ELSE Left(task[s])
    BY <1>1
  <2>3. task[s] = "unborn" => Left(task[s]) = "unborn"
    BY DEF Left, Ended
  <2> QED BY <2>1, <2>2, <2>3
<1>5. InLayer(n)'
  BY <1>4 DEF InLayer, Done
<1>6. ASSUME NEW s \in Steps
      PROVE  StepOK(s)'
  <2>1. task'[s] \in {"over", "unborn"} \/ (task'[s] = "waiting" /\ task[s] = "unborn")
    <3>1. s \in Reached[n - 1] \/ s \in Layer(n) \/ s \notin Reached[n]
      BY <1>0, LayerIs
    <3> QED BY <1>4, <3>1
  <2>2. task'[s] = "unborn" => task[s] = "unborn"
    <3>1. s \in Reached[n - 1] \/ s \in Layer(n) \/ s \notin Reached[n]
      BY <1>0, LayerIs
    <3> QED BY <1>0, <1>4, <3>1, LayerIs
  <2> QED BY <2>1, <2>2 DEF StepOK, Done
<1>7. task' \in [Steps -> TaskStates]
  BY <1>1, <1>2 DEF TaskStates
<1> QED BY <1>1, <1>3, <1>5, <1>6, <1>7

\* The layer has settled and the execution has failed, or was cancelled.
LEMMA FailureKeeps ==
  ASSUME SagaIInv, stage = "executing", AllEnded, NEW how \in {"error", "cancelled"}, ExecutionFails(how),
         UNCHANGED <<undone, effect, record, recovering, limit>>
  PROVE  SagaIInv'
<1> DEFINE gs == Groups(policy')
<1>0. /\ layer \in 1..LayerCount /\ InLayer(layer) /\ NothingUndone /\ layer \in Nat \ {0}
      /\ \A s \in Steps : StepOK(s)
      /\ CommittedInOrder /\ committed \in Seq(Steps) /\ streak = 0
  BY LayersAre DEF SagaIInv, StepsInv, StageOK, SagaTypeOK, NothingUndone
<1>1. /\ result' = how /\ layer' = layer /\ status' = status /\ committed' = committed /\ streak' = streak
      /\ policy' \in Policies /\ Undoing(gs) /\ tries' = 1
      /\ request' = [s \in Steps |-> "none"] /\ attempt' = [s \in Steps |-> 0]
      /\ orch' = "running" /\ failed' = FALSE
      /\ task' = [s \in Steps |-> Left(task[s])]
  BY DEF ExecutionFails, LeaveLayer
<1>2. QueueOf(gs, policy')
  BY <1>0, <1>1, GroupsAre DEF StepOK, Done
<1> HIDE DEF gs
<1>3. gs \in Seq(SUBSET Steps)
  BY <1>2 DEF QueueOf
<1>4. /\ groups' \in Seq(SUBSET Steps) /\ \E k \in Nat : LeftOf(gs, k)
      /\ \/ groups' = <<>> /\ stage' = "finishing" /\ comp' = comp
         \/ /\ groups' # <<>> /\ groups'[1] # {} /\ stage' = "compensating"
            /\ comp' = [s \in Steps |-> IF s \in groups'[1] THEN "undoing" ELSE comp[s]]
  BY <1>1, <1>3, UndoingIs
<1>5. ASSUME NEW s \in Steps
      PROVE  task'[s] \in {"unborn", "over"} /\ (task'[s] = "unborn" => task[s] = "unborn")
  <2>1. s \in Reached[layer - 1] \/ s \in Layer(layer) \/ s \notin Reached[layer]
    BY <1>0, LayerIs
  <2>2. s \in Layer(layer) => task[s] \in Ended
    BY DEF AllEnded, Members
  <2>3. task[s] \in Ended \cup {"unborn", "over"}
    BY <1>0, <2>1, <2>2 DEF InLayer
  <2> QED BY <1>1, <2>3 DEF Left, Ended
<1>6. ASSUME NEW s \in Steps
      PROVE  StepOK(s)'
  BY <1>0, <1>1, <1>5 DEF StepOK, Done
<1>7. CommittedInOrder'
  BY <1>0, <1>1, TaskLists DEF SagaIInv
<1>8. policy' \in Policies \cup {"unread"} /\ policy' # "unread"
  BY <1>1, SagaAssumption
<1>9. /\ CompensationRetry \in Nat \ {0} /\ BreakerThreshold \in Nat \ {0} /\ MaxAttempts \in Nat \ {0}
      /\ Undoable \subseteq Steps /\ IsFiniteSet(Steps)
  BY SagaAssumption
<1>10. \A s \in Steps : comp[s] = "no" /\ undone[s] = 0 /\ undone'[s] = 0
  BY <1>0 DEF NothingUndone
<1>11. \A s \in Steps : comp'[s] \in {"no", "undoing"} /\ (comp'[s] = "undoing" <=> AtWork(s)')
  BY <1>4, <1>10 DEF AtWork, SagaTypeOK, SagaIInv
<1>12. StageOK'
  BY <1>1, <1>4, <1>5, <1>8, <1>9, <1>0 DEF StageOK, Failing
<1>13. RecordOK'
  <2>1. record # "COMPLETED" /\ (record = "FAILED" => recovering = "marked")
    BY <1>0 DEF SagaIInv, StepsInv, RecordOK, StageOK
  <2> QED BY <1>4, <2>1 DEF RecordOK
<1>14. SagaTypeOK'
  <2>1. task' \in [Steps -> TaskStates]
    BY <1>1, <1>5 DEF TaskStates
  <2>2. comp' \in [Steps -> CompStates]
    BY <1>4 DEF SagaTypeOK, SagaIInv, CompStates
  <2>3. request' \in [Steps -> {"none", "pending", "delivered"}] /\ attempt' \in [Steps -> 0..MaxAttempts]
    <3>1. 0 \in 0..MaxAttempts
      BY <1>9
    <3> QED BY <1>1, <3>1
  <2>4. tries' \in 0..CompensationRetry /\ undone' \in [Steps -> Nat] /\ effect' \in [Steps -> Nat]
    BY <1>1, <1>9 DEF SagaIInv, SagaTypeOK
  <2>5. /\ limit' \in Limits /\ stage' \in Stages /\ orch' \in {"running", "failing", "cancelling"}
        /\ layer' \in 0..LayerCount /\ committed' \in Seq(Steps) /\ failed' \in BOOLEAN
        /\ status' \in [Steps -> {"PENDING", "RUNNING", "DONE", "FAILED", "COMPENSATED"}]
        /\ result' \in {"none", "success", "error", "cancelled"} /\ streak' \in 0..BreakerThreshold
        /\ record' \in {"absent", "IN_FLIGHT", "COMPLETED", "FAILED"}
        /\ recovering' \in {"off", "no", "read", "marked"}
    BY <1>1, <1>4 DEF SagaIInv, SagaTypeOK, Stages
  <2> QED BY <1>4, <1>8, <2>1, <2>2, <2>3, <2>4, <2>5 DEF SagaTypeOK
<1>15. PICK k \in Nat : LeftOf(gs, k)
  BY <1>4
<1>16. /\ Len(groups') \in Nat /\ Len(gs) \in Nat /\ k \in 0..Len(gs) /\ Len(groups') = Len(gs) - k
       /\ \A i \in 1..Len(groups') : i + k \in 1..Len(gs) /\ groups'[i] = gs[i + k]
       /\ \A i \in 1..k : gs[i] = {}
       /\ groups' # <<>> => 1 \in 1..Len(groups')
  <2>1. Len(groups') \in Nat /\ Len(gs) \in Nat /\ (groups' # <<>> => Len(groups') \in Nat \ {0})
    BY <1>3, <1>4, LenProperties, EmptySeq
  <2>2. /\ k \in 0..Len(gs) /\ Len(groups') = Len(gs) - k
        /\ \A i \in 1..Len(groups') : groups'[i] = gs[i + k]
        /\ \A i \in 1..k : gs[i] = {}
    BY <1>15 DEF LeftOf
  <2>3. \A i \in 1..Len(groups') : i + k \in 1..Len(gs)
    BY <2>1, <2>2
  <2> QED BY <2>1, <2>2, <2>3
<1>17. \A i, j \in 1..Len(groups') : groups'[i] \cap groups'[j] # {} => i = j
  <2> SUFFICES ASSUME NEW i \in 1..Len(groups'), NEW j \in 1..Len(groups'), groups'[i] \cap groups'[j] # {}
               PROVE  i = j
    OBVIOUS
  <2>1. i + k = j + k
    BY <1>2, <1>16 DEF QueueOf
  <2> QED BY <1>16, <2>1
<1>18. \A i \in 1..Len(groups') : groups'[i] \subseteq ToBeUndone
  BY <1>2, <1>16 DEF QueueOf
<1>19. \A i \in 1..Len(groups') : groups'[i] # {} => groups' # <<>>
  BY <1>16, EmptySeq
<1>20. GroupsOK'
  <2>1. groups' # <<>> => groups'[1] # {}
    BY <1>4
  <2>2. ASSUME NEW i \in 1..Len(groups'), NEW s \in groups'[i]
        PROVE  /\ s \in Undoable
               /\ i > 1 => comp'[s] = "no"
               /\ i = 1 => comp'[s] # "no"
               /\ \A j \in 1..Len(groups') : s \in groups'[j] => j = i
    <3>1. s \in Undoable /\ s \in Steps
      BY <1>9, <1>18 DEF ToBeUndone
    <3>2. \A j \in 1..Len(groups') : s \in groups'[j] => j = i
      BY <1>17
    <3>3. i = 1 => AtWork(s)'
      BY <1>19 DEF AtWork
    <3>4. i # 1 => ~AtWork(s)'
      BY <1>16, <3>2 DEF AtWork
    <3> QED BY <1>11, <1>16, <3>1, <3>2, <3>3, <3>4
  <2>3. policy' \in {"STRICT_SEQUENTIAL", "RETRY_WITH_BACKOFF", "CIRCUIT_BREAKER"} =>
          \A i \in 1..Len(groups') : \E x \in Steps : groups'[i] \subseteq {x}
    BY <1>2, <1>16 DEF QueueOf
  <2>4. policy' = "BEST_EFFORT_PARALLEL" => Len(groups') <= 1
    BY <1>2, <1>16 DEF QueueOf
  <2> QED BY <2>1, <2>2, <2>3, <2>4 DEF GroupsOK
<1>21. RunningOK'
  BY <1>11 DEF RunningOK, Running
<1>22. \A s \in Steps : UndoneOK(s)'
  BY <1>1, <1>9, <1>10, <1>11 DEF UndoneOK
<1>23. ASSUME NEW s \in Steps, Owing(s)'
       PROVE  \E i \in 1..Len(groups') : s \in groups'[i]
  <2>1. s \in ToBeUndone
    <3>1. effect'[s] = effect[s] /\ effect[s] > 0 /\ s \in Undoable
      BY <1>23 DEF Owing
    <3>2. effect[s] = 1
      BY <1>0, <3>1 DEF StepOK
    <3> QED BY <1>0, <3>1, <3>2 DEF ToBeUndone, StepOK
  <2>2. PICK i \in 1..Len(gs) : s \in gs[i]
    BY <1>2, <2>1 DEF QueueOf
  <2>3. ~(i <= k)
    BY <1>16, <2>2
  <2>4. i - k \in 1..Len(groups') /\ (i - k) + k = i
    BY <1>16, <2>3
  <2> QED BY <1>16, <2>2, <2>4
<1>24. QueuedInOrder'
  <2> SUFFICES ASSUME policy' # "BEST_EFFORT_PARALLEL", NEW s \in Steps, NEW d \in Deps[s], Owing(s)'
               PROVE  /\ comp'[d] = "no"
                      /\ \A j \in 1..Len(groups') : d \in groups'[j] => \E i \in 1..(j - 1) : s \in groups'[i]
    BY DEF QueuedInOrder
  <2>1. PICK i \in 1..Len(groups') : s \in groups'[i]
    BY <1>23
  <2>2. ASSUME NEW j \in 1..Len(groups'), d \in groups'[j]
        PROVE  i < j
    <3>1. i + k < j + k
      BY <1>2, <1>16, <2>1, <2>2 DEF QueueOf
    <3> QED BY <1>16, <3>1
  <2>3. ~AtWork(d)'
    <3> SUFFICES ASSUME AtWork(d)' PROVE FALSE
      OBVIOUS
    <3>1. d \in groups'[1] /\ 1 \in 1..Len(groups')
      BY <1>16 DEF AtWork
    <3>2. i < 1
      BY <2>2, <3>1
    <3> QED BY <1>16, <3>2
  <2>4. d \in Steps
    BY SagaAssumption
  <2> QED BY <1>11, <1>16, <2>1, <2>2, <2>3, <2>4
<1>25. AllAccounted'
  BY <1>23 DEF AllAccounted, Accounted, Queued
<1>26. StreakCounted'
  <2>1. IsFiniteSet({t \in Errors : ~AtWork(t)}')
    BY SagaAssumption, FS_Subset DEF Errors
  <2> QED BY <1>0, <1>1, <2>1, FS_CardinalityType DEF StreakCounted
<1> QED BY <1>6, <1>7, <1>12, <1>13, <1>14, <1>20, <1>21, <1>22, <1>24, <1>25, <1>26
      DEF SagaIInv, StepsInv, CompInv

\* A layer has settled.
LEMMA SettleKeeps ==
  ASSUME SagaIInv, LayerSettles \/ CancelledLayerSettles, limit' = limit
  PROVE  SagaIInv'
<1>0. /\ stage = "executing" /\ AllEnded /\ UNCHANGED <<undone, effect, record, recovering, limit>>
      /\ layer \in 1..LayerCount /\ InLayer(layer) /\ NothingUndone /\ layer \in Nat \ {0}
      /\ result = "none" /\ \A s \in Steps : StepOK(s)
  BY LayersAre DEF SagaIInv, StepsInv, StageOK, LayerSettles, CancelledLayerSettles
<1>1. LayerCount \in Nat
  BY LayersAre
<1>2. CASE CancelledLayerSettles
  BY <1>0, <1>2, FailureKeeps DEF CancelledLayerSettles
<1>3. CASE LayerSettles /\ LayerFailed
  <2>1. ExecutionFails("error")
    BY <1>3 DEF LayerSettles
  <2> QED BY <1>0, <2>1, FailureKeeps
<1>4. ASSUME LayerSettles, ~LayerFailed
      PROVE  \A s \in Steps : /\ s \in Reached[layer] => task[s] \in {"ok", "over"} /\ Done(s)
                              /\ s \notin Reached[layer] => task[s] = "unborn"
  <2> SUFFICES ASSUME NEW s \in Steps
               PROVE  /\ s \in Reached[layer] => task[s] \in {"ok", "over"} /\ Done(s)
                      /\ s \notin Reached[layer] => task[s] = "unborn"
    OBVIOUS
  <2>1. s \in Reached[layer] => s \in Reached[layer - 1] \/ s \in Layer(layer)
    BY <1>0, LayerIs
  <2>2. s \in Layer(layer) => task[s] \in Ended /\ task[s] # "cancelled"
    BY <1>0, <1>4 DEF AllEnded, Members, LayerFailed
  <2>3. s \in Layer(layer) => task[s] = "ok"
    BY <1>0, <1>4, <2>2 DEF Ended, StepOK, LayerFailed
  <2>4. s \in Layer(layer) => Done(s)
    BY <1>0, <1>4, <2>3 DEF StepOK, LayerFailed
  <2> QED BY <1>0, <2>1, <2>3, <2>4 DEF InLayer
<1>5. CASE LayerSettles /\ ~LayerFailed /\ layer < LayerCount
  <2>1. /\ BeginLayer(layer + 1)
        /\ UNCHANGED <<policy, stage, status, committed, result, groups, comp, tries, streak>>
    BY <1>0, <1>1, <1>5 DEF LayerSettles
  <2>2. PICK n \in 1..LayerCount : n = layer + 1 /\ n - 1 = layer
    BY <1>0, <1>1, <1>5
  <2>3. \A s \in Reached[n - 1] : Left(task[s]) = "over" /\ Done(s)
    <3>1. Reached[layer] \subseteq Steps
      BY <1>0, ReachedIs
    <3> QED BY <1>4, <1>5, <2>2, <3>1 DEF Left, Ended
  <2>4. \A s \in Steps : s \notin Reached[n - 1] => task[s] = "unborn"
    BY <1>4, <1>5, <2>2
  <2>5. BeginLayer(n)
    BY <2>1, <2>2
  <2>6. /\ InLayer(n)' /\ layer' = n /\ \A s \in Steps : StepOK(s)'
        /\ task' \in [Steps -> TaskStates] /\ orch' = "running" /\ failed' = FALSE
        /\ request' \in [Steps -> {"none", "pending", "delivered"}] /\ attempt' \in [Steps -> 0..MaxAttempts]
    BY <1>0, <2>1, <2>2, <2>3, <2>4, <2>5, LayerBegins DEF SagaIInv
  <2>7. SagaTypeOK'
    <3>1. n \in 0..LayerCount
      BY <1>1
    <3>2. layer' \in 0..LayerCount
      BY <2>6, <3>1
    <3>3. orch' \in {"running", "failing", "cancelling"} /\ failed' \in BOOLEAN
      BY <2>6
    <3> QED BY <1>0, <2>1, <2>6, <3>2, <3>3 DEF SagaIInv, SagaTypeOK
  <2>8. NothingUndone'
    BY <1>0, <2>1 DEF NothingUndone
  <2>9. CompInv'
    BY <1>0, <2>1, <2>8, Calm
  <2>10. InLayer(layer)'
    BY <2>6 DEF InLayer
  <2>11. StageOK'
    BY <1>0, <2>1, <2>2, <2>6, <2>8, <2>10 DEF StageOK, Failing
  <2>12. RecordOK'
    BY <1>0, <2>1 DEF RecordOK, SagaIInv, StepsInv, Failing
  <2>13. CommittedInOrder'
    BY <2>1, TaskLists DEF SagaIInv
  <2> QED BY <2>6, <2>7, <2>9, <2>11, <2>12, <2>13 DEF SagaIInv, StepsInv
<1>6. CASE LayerSettles /\ ~LayerFailed /\ layer = LayerCount
  <2>1. /\ stage' = "finishing" /\ result' = "success"
        /\ UNCHANGED <<policy, execVars, groups, comp, tries, streak>>
    BY <1>0, <1>1, <1>6 DEF LayerSettles
  <2> USE DEF execVars
  <2>2. Reached[layer] = Steps
    BY <1>6, LayersAre
  <2>3. SagaTypeOK'
    BY <1>0, <2>1 DEF SagaIInv, SagaTypeOK, Stages
  <2>4. (\A s \in Steps : StepOK(s)') /\ CommittedInOrder'
    BY <1>0, <2>1, StepStays DEF SagaIInv
  <2>5. NothingUndone'
    BY <1>0, <2>1 DEF NothingUndone
  <2>6. CompInv'
    BY <2>1, <2>5, Calm
  <2>7. \A s \in Steps : task'[s] \in {"ok", "over"} /\ Done(s)'
    BY <1>0, <1>4, <1>6, <2>1, <2>2 DEF Done
  <2>8. StageOK'
    BY <1>6, <2>1, <2>5, <2>7 DEF StageOK, Failing, NothingUndone, LayerFailed
  <2>9. RecordOK'
    BY <1>0, <2>1 DEF RecordOK, SagaIInv, StepsInv, StageOK
  <2> QED BY <2>3, <2>4, <2>6, <2>8, <2>9 DEF SagaIInv, StepsInv
<1>7. LayerSettles => LayerFailed \/ (~LayerFailed /\ layer < LayerCount) \/ (~LayerFailed /\ layer = LayerCount)
  BY DEF LayerSettles
<1> QED BY <1>2, <1>3, <1>5, <1>6, <1>7

\* The execution begins, or is refused.
LEMMA StartKeeps ==
  ASSUME SagaIInv, SagaStarts \/ SagaRefused, limit' = limit
  PROVE  SagaIInv'
<1>0. /\ stage = "new" /\ layer = 0 /\ failed = FALSE /\ record = "absent" /\ result = "none"
      /\ NothingUndone /\ \A s \in Steps : task[s] = "unborn" /\ StepOK(s)
  BY DEF SagaIInv, StepsInv, StageOK, SagaStarts, SagaRefused
<1>1. LayerCount \in Nat /\ LayerCount >= 1 /\ Reached[0] = {}
  BY LayersAre, FirstLayer
<1>2. CASE SagaStarts
  <2>1. /\ stage' = "executing" /\ record' = "IN_FLIGHT"
        /\ UNCHANGED <<policy, status, committed, result, compVars, effect, recovering>>
    BY <1>2 DEF SagaStarts
  <2> USE DEF compVars
  <2>2. PICK n \in 1..LayerCount : n = 1 /\ n - 1 = 0
    BY <1>1
  <2>3. BeginLayer(n)
    BY <1>2, <2>2 DEF SagaStarts
  <2>4. /\ \A s \in Reached[n - 1] : Left(task[s]) = "over" /\ Done(s)
        /\ \A s \in Steps : s \notin Reached[n - 1] => task[s] = "unborn"
    BY <1>0, <1>1, <2>2
  <2>5. /\ InLayer(n)' /\ layer' = n /\ \A s \in Steps : StepOK(s)'
        /\ task' \in [Steps -> TaskStates] /\ orch' = "running" /\ failed' = FALSE
        /\ request' \in [Steps -> {"none", "pending", "delivered"}] /\ attempt' \in [Steps -> 0..MaxAttempts]
    BY <1>0, <2>1, <2>2, <2>3, <2>4, LayerBegins DEF SagaIInv
  <2>6. SagaTypeOK'
    <3>1. n \in 0..LayerCount
      BY <1>1
    <3>2. layer' \in 0..LayerCount
      BY <2>5, <3>1
    <3>3. orch' \in {"running", "failing", "cancelling"} /\ failed' \in BOOLEAN
      BY <2>5
    <3> QED BY <2>1, <2>5, <3>2, <3>3 DEF SagaIInv, SagaTypeOK, Stages
  <2>7. NothingUndone'
    BY <1>0, <2>1 DEF NothingUndone
  <2>8. CompInv'
    BY <1>0, <2>1, <2>7, Calm
  <2>9. InLayer(layer)'
    BY <2>5 DEF InLayer
  <2>10. StageOK'
    BY <1>0, <2>1, <2>5, <2>7, <2>9 DEF StageOK, Failing
  <2>11. RecordOK' /\ CommittedInOrder'
    BY <2>1, TaskLists DEF RecordOK, SagaIInv
  <2> QED BY <2>5, <2>6, <2>8, <2>10, <2>11 DEF SagaIInv, StepsInv
<1>3. CASE SagaRefused
  <2>1. /\ stage' = "ended" /\ result' \in {"error", "cancelled"} /\ record' \in {"absent", "IN_FLIGHT"}
        /\ UNCHANGED <<policy, execVars, compVars, effect, recovering>>
    BY <1>3 DEF SagaRefused
  <2> USE DEF compVars, execVars
  <2>2. SagaTypeOK'
    BY <2>1 DEF SagaIInv, SagaTypeOK, Stages
  <2>3. (\A s \in Steps : StepOK(s)') /\ CommittedInOrder'
    BY <2>1, StepStays DEF SagaIInv
  <2>4. StageOK'
    BY <1>0, <2>1 DEF StageOK, Failing, NothingUndone
  <2>5. RecordOK'
    BY <2>1 DEF RecordOK
  <2>6. \A s \in Steps : ~Owing(s)'
    BY <1>0, <2>1 DEF Owing, StepOK
  <2>7. AllAccounted'
    BY <2>6 DEF AllAccounted
  <2>8. GroupsOK'
    BY <2>1 DEF SagaIInv, CompInv, GroupsOK
  <2>9. RunningOK'
    BY <2>1 DEF SagaIInv, CompInv, RunningOK, Running, AtWork, Stopped
  <2>10. \A s \in Steps : UndoneOK(s)'
    BY <2>1 DEF SagaIInv, CompInv, UndoneOK, AtWork
  <2>11. QueuedInOrder'
    BY <2>6 DEF QueuedInOrder
  <2>12. StreakCounted'
    BY <2>1 DEF SagaIInv, CompInv, StreakCounted, Errors, AtWork
  <2> QED BY <2>2, <2>3, <2>4, <2>5, <2>7, <2>8, <2>9, <2>10, <2>11, <2>12 DEF SagaIInv, StepsInv, CompInv
<1> QED BY <1>2, <1>3

\* A step of a layer's task.
LEMMA TasksKeep ==
  ASSUME SagaIInv, stage = "executing", NEW s \in Steps, StepMoves(s) \/ StepCancelsItself(s), limit' = limit
  PROVE  SagaIInv'
<1>1. OnlySteps /\ TaskTypes /\ TaskMoved(s)
  BY TaskIs DEF SagaIInv
<1>2. SagaTypeOK'
  BY <1>1 DEF SagaIInv, SagaTypeOK, OnlySteps, TaskTypes, compVars
<1>3. StepsInv'
  BY <1>1, TaskKeeps DEF SagaIInv
<1>4. NothingUndone' /\ result' = "none"
  BY <1>1 DEF SagaIInv, StepsInv, StageOK, NothingUndone, OnlySteps, compVars
<1>5. CompInv'
  BY <1>4, Calm
<1> QED BY <1>2, <1>3, <1>5 DEF SagaIInv

\* The execution is recorded, by the engine or by the recovery.
LEMMA RecordKeeps ==
  ASSUME SagaIInv, SagaFinishes \/ FinishFails \/ RecoveryReads \/ RecoveryMarks, limit' = limit
  PROVE  SagaIInv'
<1> USE DEF compVars, execVars
<1>1. UNCHANGED <<policy, execVars, result, compVars, effect>>
  BY DEF SagaFinishes, FinishFails, MarksAs, RecoveryReads, RecoveryMarks, OnlyRecovery
<1>2. (\A s \in Steps : StepOK(s)') /\ CommittedInOrder'
  BY <1>1, StepStays DEF SagaIInv
<1>3. CompInv'
  BY <1>1, CompStays DEF SagaIInv
<1>4. CASE SagaFinishes \/ FinishFails
  <2>1. /\ stage = "finishing" /\ stage' = "ended" /\ recovering' = recovering
        /\ record' = record \/ record' = IF result = "success" THEN "COMPLETED" ELSE "FAILED"
    BY <1>4 DEF SagaFinishes, FinishFails, MarksAs
  <2>2. result # "none"
    BY <2>1 DEF SagaIInv, StepsInv, StageOK
  <2>3. result = "success" \/ Failing
    BY <2>2 DEF SagaIInv, SagaTypeOK, Failing
  <2>4. SagaTypeOK'
    BY <1>1, <2>1 DEF SagaIInv, SagaTypeOK, Stages
  <2>5. StageOK'
    BY <1>1, <2>1, <2>2 DEF SagaIInv, StepsInv, StageOK, Failing, NothingUndone, Done
  <2>6. RecordOK'
    BY <1>1, <2>1, <2>3 DEF SagaIInv, StepsInv, RecordOK, Failing
  <2> QED BY <1>2, <1>3, <2>4, <2>5, <2>6 DEF SagaIInv, StepsInv
<1>5. CASE RecoveryReads \/ RecoveryMarks
  <2>1. /\ stage' = stage
        /\ \/ record' = record /\ record = "IN_FLIGHT" /\ recovering' = "read"
           \/ record' = "FAILED" /\ recovering' = "marked" /\ recovering = "read"
    BY <1>5 DEF RecoveryReads, RecoveryMarks, OnlyRecovery
  <2>2. SagaTypeOK'
    BY <1>1, <2>1 DEF SagaIInv, SagaTypeOK
  <2>3. stage # "new"
    BY <2>1 DEF SagaIInv, StepsInv, StageOK, RecordOK
  <2>4. StageOK'
    BY <1>1, <2>1, <2>3 DEF SagaIInv, StepsInv, StageOK, Failing, NothingUndone, InLayer, Done
  <2>5. RecordOK'
    BY <2>1, <2>3 DEF RecordOK
  <2> QED BY <1>2, <1>3, <2>2, <2>4, <2>5 DEF SagaIInv, StepsInv
<1> QED BY <1>4, <1>5

-------------------------------------------------------------------------------
(* The compensations at work. *)

\* What the compensation of one step may do to the rest of the execution.
CompMoved(s) ==
  /\ Running(s) /\ comp' \in [Steps -> CompStates] /\ undone' \in [Steps -> Nat]
  /\ \A t \in Steps \ {s} : comp'[t] = comp[t] /\ undone'[t] = undone[t]
  /\ comp'[s] \in {"telling", "undone", "error", "cancelled"}
  /\ UndoneOK(s)'
  /\ status' \in [Steps -> {"PENDING", "RUNNING", "DONE", "FAILED", "COMPENSATED"}]
  /\ \A t \in Steps : status'[t] \in {status[t], "COMPENSATED"}

LEMMA CompIs ==
  ASSUME SagaIInv, NEW s \in Steps, CompMoves(s)
  PROVE  OnlyComp /\ CompMoved(s)
<1>0. /\ comp \in [Steps -> CompStates] /\ undone \in [Steps -> Nat] /\ tries \in 0..CompensationRetry
      /\ status \in [Steps -> {"PENDING", "RUNNING", "DONE", "FAILED", "COMPENSATED"}]
      /\ UndoneOK(s) /\ CompensationRetry \in Nat
  BY SagaAssumption DEF SagaIInv, SagaTypeOK, CompInv
<1>1. ASSUME NEW how \in CompStates, CompEnds(s, how)
      PROVE  /\ comp' \in [Steps -> CompStates] /\ comp'[s] = how
             /\ \A t \in Steps \ {s} : comp'[t] = comp[t]
  BY <1>0, <1>1 DEF CompEnds
<1>2. ASSUME NEW yes \in BOOLEAN, Undid(s, yes)
      PROVE  /\ undone' \in [Steps -> Nat] /\ undone'[s] = undone[s] + (IF yes THEN 1 ELSE 0)
             /\ \A t \in Steps \ {s} : undone'[t] = undone[t]
  BY <1>0, <1>2 DEF Undid
<1>3. CASE CompSucceeds(s)
  <2>1. comp[s] = "undoing" /\ CompEnds(s, "telling") /\ Undid(s, TRUE) /\ Status(s, "COMPENSATED") /\ OnlyComp
    BY <1>3 DEF CompSucceeds
  <2>2. /\ comp' \in [Steps -> CompStates] /\ comp'[s] = "telling"
        /\ \A t \in Steps \ {s} : comp'[t] = comp[t]
    BY <1>1, <2>1 DEF CompStates
  <2>3. /\ undone' \in [Steps -> Nat] /\ undone'[s] = undone[s] + 1
        /\ \A t \in Steps \ {s} : undone'[t] = undone[t]
    BY <1>2, <2>1
  <2>4. /\ status' \in [Steps -> {"PENDING", "RUNNING", "DONE", "FAILED", "COMPENSATED"}]
        /\ \A t \in Steps : status'[t] \in {status[t], "COMPENSATED"}
    BY <1>0, <2>1 DEF Status
  <2>5. policy' = policy /\ tries' = tries /\ groups' = groups
    BY <2>1 DEF OnlyComp
  <2>6. UndoneOK(s)'
    BY <1>0, <2>1, <2>2, <2>3, <2>5 DEF UndoneOK, AtWork
  <2> QED BY <2>1, <2>2, <2>3, <2>4, <2>6 DEF CompMoved, Running
<1>4. ASSUME NEW took \in BOOLEAN, CompFails(s, took)
      PROVE  OnlyComp /\ CompMoved(s)
  <2>1. /\ comp[s] = "undoing"
        /\ CompEnds(s, "error") \/ CompEnds(s, "cancelled")
        /\ Undid(s, took) /\ status' = status /\ OnlyComp
    BY <1>4 DEF CompFails
  <2>2. /\ comp' \in [Steps -> CompStates] /\ comp'[s] \in {"error", "cancelled"}
        /\ \A t \in Steps \ {s} : comp'[t] = comp[t]
    BY <1>1, <2>1 DEF CompStates
  <2>3. /\ undone' \in [Steps -> Nat] /\ undone'[s] = undone[s] + (IF took THEN 1 ELSE 0)
        /\ \A t \in Steps \ {s} : undone'[t] = undone[t]
    BY <1>2, <2>1
  <2>4. policy' = policy /\ tries' = tries /\ groups' = groups
    BY <2>1 DEF OnlyComp
  <2>5. UndoneOK(s)'
    BY <1>0, <1>4, <2>2, <2>3, <2>4 DEF UndoneOK, AtWork, CompFails
  <2>6. comp[s] = "undoing"
    BY <1>4 DEF CompFails
  <2> QED BY <1>0, <2>1, <2>2, <2>3, <2>5, <2>6 DEF CompMoved, Running
<1>5. CASE CompTold(s)
  <2>1. /\ comp[s] = "telling" /\ undone' = undone /\ status' = status /\ OnlyComp
        /\ \E how \in {"undone", "error", "cancelled"} : CompEnds(s, how)
    BY <1>5 DEF CompTold
  <2>2. /\ comp' \in [Steps -> CompStates] /\ comp'[s] \in {"undone", "error", "cancelled"}
        /\ \A t \in Steps \ {s} : comp'[t] = comp[t]
    BY <1>1, <2>1 DEF CompStates
  <2>3. policy' = policy /\ tries' = tries /\ groups' = groups
    BY <2>1 DEF OnlyComp
  <2>4. UndoneOK(s)'
    BY <1>0, <2>1, <2>2, <2>3 DEF UndoneOK, AtWork
  <2> QED BY <1>0, <2>1, <2>2, <2>4 DEF CompMoved, Running
<1> QED BY <1>3, <1>4, <1>5 DEF CompMoves

LEMMA CompKeeps ==
  ASSUME SagaIInv, NEW s \in Steps, CompMoves(s), limit' = limit
  PROVE  SagaIInv'
<1>0. OnlyComp /\ CompMoved(s)
  BY CompIs
<1>1. /\ UNCHANGED <<policy, stage, orch, layer, task, request, attempt, committed,
                     failed, result, groups, tries, streak, effect, record, recovering>>
      /\ \A t \in Steps \ {s} : comp'[t] = comp[t] /\ undone'[t] = undone[t]
      /\ comp'[s] \in {"telling", "undone", "error", "cancelled"} /\ UndoneOK(s)'
      /\ \A t \in Steps : status'[t] \in {status[t], "COMPENSATED"}
      /\ comp[s] \in {"undoing", "telling"}
  BY <1>0 DEF OnlyComp, CompMoved, Running
<1>2. SagaTypeOK'
  BY <1>0, <1>1 DEF SagaIInv, SagaTypeOK, CompMoved
<1>3. /\ result \notin {"none", "success"} /\ stage \notin {"new", "executing"}
      /\ \A t \in Steps : task[t] \in {"unborn", "over"}
  BY <1>1 DEF SagaIInv, StepsInv, StageOK, NothingUndone, SagaTypeOK, Failing
<1>4. \A t \in Steps : StepOK(t)'
  BY <1>1, <1>3 DEF SagaIInv, StepsInv, StepOK, Done
<1>5. StageOK'
  BY <1>1, <1>3 DEF SagaIInv, StepsInv, StageOK, Failing
<1>6. RecordOK' /\ CommittedInOrder'
  BY <1>1, TaskLists DEF SagaIInv, StepsInv, RecordOK, Failing
<1>7. \A t \in Steps : Running(t)' => Running(t)
  BY <1>1 DEF Running
<1>8. \A t \in Steps : (comp'[t] = "no" <=> comp[t] = "no") /\ (Stopped(t) => Stopped(t)') /\ (Passed(t) => Passed(t)')
  BY <1>1 DEF Stopped, Passed
<1>9. \A t \in Steps : /\ AtWork(t)' <=> AtWork(t)
                       /\ Queued(t)' <=> Queued(t)
                       /\ Owing(t)' <=> Owing(t)
  BY <1>1 DEF AtWork, Queued, Owing
<1>10. /\ CompInv /\ Undoable \subseteq Steps /\ IsFiniteSet(Steps) /\ Deps \in [Steps -> SUBSET Steps]
       /\ groups \in Seq(SUBSET Steps)
  BY SagaAssumption DEF SagaIInv, SagaTypeOK
<1>11. GroupsOK'
  <2>1. ASSUME NEW i \in 1..Len(groups), NEW t \in groups[i]
        PROVE  /\ t \in Undoable
               /\ i > 1 => comp'[t] = "no"
               /\ i = 1 => comp'[t] # "no"
               /\ \A j \in 1..Len(groups) : t \in groups[j] => j = i
    <3>1. t \in Steps
      BY <1>10 DEF CompInv, GroupsOK
    <3> QED BY <1>8, <1>10, <3>1 DEF CompInv, GroupsOK
  <2> QED BY <1>1, <1>10, <2>1 DEF CompInv, GroupsOK
<1>12. RunningOK'
  BY <1>1, <1>7, <1>8, <1>9, <1>10 DEF CompInv, RunningOK
<1>13. \A t \in Steps : UndoneOK(t)'
  <2> SUFFICES ASSUME NEW t \in Steps, t # s PROVE UndoneOK(t)'
    BY <1>1
  <2>1. comp'[t] = comp[t] /\ undone'[t] = undone[t] /\ policy' = policy /\ tries' = tries
    BY <1>1
  <2> QED BY <1>9, <1>10, <2>1 DEF CompInv, UndoneOK
<1>14. QueuedInOrder'
  <2> SUFFICES ASSUME policy # "BEST_EFFORT_PARALLEL", NEW t \in Steps, NEW d \in Deps[t], Owing(t)
               PROVE  /\ comp'[d] # "no" => Passed(t)'
                      /\ \A j \in 1..Len(groups) : d \in groups[j] => Passed(t)' \/ \E i \in 1..(j - 1) : t \in groups[i]
    BY <1>1, <1>9 DEF QueuedInOrder
  <2>1. d \in Steps
    BY <1>10
  <2>2. /\ comp[d] # "no" => Passed(t)
        /\ \A j \in 1..Len(groups) : d \in groups[j] => Passed(t) \/ \E i \in 1..(j - 1) : t \in groups[i]
    BY <1>10 DEF CompInv, QueuedInOrder
  <2> QED BY <1>8, <2>1, <2>2
<1>15. Errors \subseteq Errors' /\ IsFiniteSet(Errors') /\ Errors' \subseteq Steps /\ Errors \subseteq Steps
  <2>1. Errors \subseteq Errors'
    BY <1>1 DEF Errors
  <2>2. Errors' \subseteq Steps /\ Errors \subseteq Steps
    BY DEF Errors
  <2> QED BY <1>10, <2>1, <2>2, FS_Subset
<1>16. Cardinality(Errors) \in Nat /\ Cardinality(Errors') \in Nat /\ Cardinality(Errors) <= Cardinality(Errors')
  BY <1>15, FS_Subset, FS_CardinalityType
<1>17. GivenUp => GivenUp'
  <2>1. (\E t \in Steps : Stopped(t)) => \E t \in Steps : Stopped(t)'
    BY <1>8
  <2>2. (\E t \in Steps : comp[t] = "cancelled") => \E t \in Steps : comp'[t] = "cancelled"
    BY <1>1
  <2>3. BreakerThreshold \in Nat
    BY SagaAssumption
  <2> QED BY <1>1, <1>16, <2>1, <2>2, <2>3 DEF GivenUp
<1>18. AllAccounted'
  <2>1. \A t \in Steps : Accounted(t) => Accounted(t)'
    BY <1>1, <1>8, <1>9, <1>17 DEF Accounted
  <2> QED BY <1>1, <1>9, <1>10, <2>1 DEF CompInv, AllAccounted, Failing
<1>19. StreakCounted'
  <2> DEFINE E == {t \in Errors : ~AtWork(t)}
             F == {t \in Errors' : ~AtWork(t)'}
  <2>1. E \subseteq F /\ IsFiniteSet(F)
    BY <1>9, <1>15, FS_Subset
  <2>2. Cardinality(E) \in Nat /\ Cardinality(F) \in Nat /\ Cardinality(E) <= Cardinality(F)
    BY <2>1, FS_Subset, FS_CardinalityType
  <2>3. streak \in Nat /\ streak' = streak /\ streak <= Cardinality(E)
    BY <1>1, <1>10, SagaAssumption DEF CompInv, StreakCounted, SagaIInv, SagaTypeOK
  <2>4. streak' <= Cardinality(F)
    BY <2>2, <2>3
  <2> QED BY <2>4 DEF StreakCounted
<1> QED BY <1>2, <1>4, <1>5, <1>6, <1>11, <1>12, <1>13, <1>14, <1>18, <1>19 DEF SagaIInv, StepsInv, CompInv

-------------------------------------------------------------------------------
(* The groups come and go. *)

\* The steps and the list stay as they are while the groups are compensated.
LEMMA GroupSteps ==
  ASSUME SagaIInv, stage = "compensating", OnlyGroups, limit' = limit, NEW gs \in Seq(SUBSET Steps), Undoing(gs),
         tries' \in 1..CompensationRetry, streak' \in 0..BreakerThreshold,
         streak' >= BreakerThreshold => gs = <<>>
  PROVE  SagaTypeOK' /\ StepsInv'
<1> USE DEF OnlyGroups, execVars
<1>1. /\ groups' \in Seq(SUBSET Steps)
      /\ \/ groups' = <<>> /\ stage' = "finishing" /\ comp' = comp
         \/ /\ groups' # <<>> /\ stage' = "compensating"
            /\ comp' = [s \in Steps |-> IF s \in groups'[1] THEN "undoing" ELSE comp[s]]
  BY UndoingIs
<1>2. BreakerThreshold \in Nat \ {0} /\ CompensationRetry \in Nat \ {0}
  BY SagaAssumption
<1>3. groups' # <<>> => streak' < BreakerThreshold
  <2>1. gs = <<>> => groups' = <<>>
    BY EmptySeq DEF Undoing
  <2> QED BY <1>2, <2>1
<1>4. SagaTypeOK'
  <2>1. comp' \in [Steps -> CompStates]
    BY <1>1 DEF SagaIInv, SagaTypeOK, CompStates
  <2>2. tries' \in 0..CompensationRetry /\ stage' \in Stages
    BY <1>1, <1>2 DEF Stages
  <2> QED BY <1>1, <2>1, <2>2 DEF SagaIInv, SagaTypeOK
<1>5. (\A s \in Steps : StepOK(s)') /\ CommittedInOrder'
  BY StepStays DEF SagaIInv
<1>6. StageOK'
  <2>1. Failing /\ policy # "unread" /\ \A s \in Steps : task[s] \in {"unborn", "over"}
    BY DEF SagaIInv, StepsInv, StageOK
  <2>2. result' \notin {"none", "success"} /\ result \notin {"none", "success"} /\ Failing'
    BY <2>1 DEF Failing
  <2> QED BY <1>1, <1>2, <1>3, <2>1, <2>2 DEF StageOK
<1>7. RecordOK'
  BY <1>1 DEF SagaIInv, StepsInv, RecordOK, Failing
<1> QED BY <1>4, <1>5, <1>6, <1>7 DEF StepsInv

\* Where a compensation is at work, there is a group, and nothing else runs.
LEMMA AtWorkIs ==
  ASSUME SagaIInv, stage = "compensating"
  PROVE  /\ groups \in Seq(SUBSET Steps) /\ groups # <<>> /\ Len(groups) \in Nat \ {0} /\ groups[1] # {}
         /\ Head(groups) = groups[1] /\ groups[1] \subseteq Steps
         /\ \A s \in Steps : AtWork(s) <=> s \in groups[1]
         /\ \A s \in Steps : Running(s) => s \in groups[1]
         /\ Failing /\ policy \in Policies
         /\ IsFiniteSet(Errors) /\ Errors \subseteq Steps /\ Cardinality(Errors) \in Nat
<1>1. groups \in Seq(SUBSET Steps) /\ groups # <<>> /\ Failing /\ policy \in Policies
  BY DEF SagaIInv, SagaTypeOK, StepsInv, StageOK
<1>2. Len(groups) \in Nat \ {0} /\ groups[1] # {}
  BY <1>1, EmptySeq DEF SagaIInv, CompInv, GroupsOK
<1>3. Head(groups) = groups[1] /\ groups[1] \subseteq Steps
  BY <1>1, <1>2, ElementOfSeq
<1>4. \A s \in Steps : Running(s) => s \in groups[1]
  BY <1>1 DEF SagaIInv, CompInv, RunningOK, AtWork
<1>5. IsFiniteSet(Errors) /\ Errors \subseteq Steps /\ Cardinality(Errors) \in Nat
  BY SagaAssumption, FS_Subset, FS_CardinalityType DEF Errors
<1> QED BY <1>1, <1>2, <1>3, <1>4, <1>5 DEF AtWork

\* Nothing more is undone: the compensation was given up.
LEMMA StopKeeps ==
  ASSUME SagaIInv, stage = "compensating", OnlyGroups, Undoing(<<>>),
         GivenUp, tries' = tries \/ policy # "RETRY_WITH_BACKOFF",
         streak' \in Nat, streak' <= Cardinality(Errors),
         policy # "GROUPED_PARALLEL" => \A s \in groups[1] : ~Running(s)
  PROVE  CompInv'
<1> USE DEF OnlyGroups
<1>1. groups' = <<>> /\ comp' = comp /\ policy' = policy /\ result' = result /\ effect' = effect /\ undone' = undone
  BY EmptySeq DEF Undoing
<1>2. CompInv /\ Len(groups') = 0
  BY <1>1, EmptySeq DEF SagaIInv
<1>3. GroupsOK'
  BY <1>1, <1>2 DEF GroupsOK
<1>4. RunningOK'
  <2>1. \A s \in Steps : Running(s) => policy = "GROUPED_PARALLEL"
    BY AtWorkIs
  <2>2. \E t \in Steps : Stopped(t)
    BY DEF GivenUp
  <2> QED BY <1>1, <2>1, <2>2 DEF RunningOK, Running, Stopped
<1>5. \A s \in Steps : UndoneOK(s)'
  BY <1>1, <1>2 DEF CompInv, UndoneOK, AtWork
<1>6. QueuedInOrder'
  BY <1>1, <1>2 DEF CompInv, QueuedInOrder, Owing, Passed
<1>7. AllAccounted'
  <2>1. GivenUp'
    BY <1>1 DEF GivenUp, Stopped, Errors
  <2> QED BY <1>1, <2>1 DEF AllAccounted, Accounted
<1>8. StreakCounted'
  <2>1. {t \in Errors : ~AtWork(t)}' = Errors
    BY <1>1 DEF Errors, AtWork
  <2> QED BY <2>1 DEF StreakCounted
<1> QED BY <1>3, <1>4, <1>5, <1>6, <1>7, <1>8 DEF CompInv

\* The group at work is tried again: a single step, whose compensation failed.
LEMMA RetryKeeps ==
  ASSUME SagaIInv, CompRetried
  PROVE  CompInv'
<1>0. /\ stage = "compensating" /\ policy = "RETRY_WITH_BACKOFF" /\ Ends("error")
      /\ tries < CompensationRetry /\ tries' = tries + 1 /\ Undoing(groups) /\ streak' = streak
      /\ policy' = policy /\ result' = result /\ effect' = effect /\ undone' = undone
  BY DEF CompRetried, OnlyGroups
<1>1. /\ groups \in Seq(SUBSET Steps) /\ groups # <<>> /\ Len(groups) \in Nat \ {0} /\ groups[1] # {}
      /\ Head(groups) = groups[1] /\ groups[1] \subseteq Steps
      /\ \A s \in Steps : AtWork(s) <=> s \in groups[1]
      /\ \A s \in Steps : Running(s) => s \in groups[1]
      /\ CompInv /\ tries \in Nat /\ CompensationRetry \in Nat
  BY <1>0, AtWorkIs, SagaAssumption DEF SagaIInv, SagaTypeOK
<1>2. groups' = groups /\ comp' = [s \in Steps |-> IF s \in groups[1] THEN "undoing" ELSE comp[s]]
  <2>1. /\ groups' \in Seq(SUBSET Steps) /\ \E k \in Nat : LeftOf(groups, k)
        /\ \/ groups' = <<>> /\ stage' = "finishing" /\ comp' = comp
           \/ /\ groups' # <<>> /\ groups'[1] # {} /\ stage' = "compensating"
              /\ comp' = [s \in Steps |-> IF s \in groups'[1] THEN "undoing" ELSE comp[s]]
    BY <1>0, <1>1, UndoingIs
  <2>2. PICK k \in Nat : LeftOf(groups, k)
    BY <2>1
  <2>3. k = 0
    BY <1>1, <2>2 DEF LeftOf
  <2>4. Len(groups') = Len(groups) /\ \A i \in 1..Len(groups') : groups'[i] = groups[i]
    <3>1. \A i \in 1..Len(groups') : groups'[i] = groups[i + k] /\ i + k = i
      BY <2>2, <2>3 DEF LeftOf
    <3> QED BY <1>1, <2>2, <2>3, <3>1 DEF LeftOf
  <2>5. groups' = groups
    BY <1>1, <2>1, <2>4, SeqEqual
  <2> QED BY <1>1, <2>1, <2>5
<1>3. PICK x \in Steps : groups[1] = {x} /\ comp[x] = "error"
  <2>1. PICK x \in Steps : groups[1] \subseteq {x}
    BY <1>0, <1>1 DEF CompInv, GroupsOK
  <2>2. x \in groups[1] /\ comp[x] = "error"
    BY <1>0, <1>1, <2>1 DEF Ends
  <2> QED BY <2>1, <2>2
<1>4. /\ comp'[x] = "undoing" /\ \A s \in Steps \ {x} : comp'[s] = comp[s] /\ ~Running(s)
      /\ \A s \in Steps : (AtWork(s)' <=> s = x) /\ (AtWork(s) <=> s = x)
  BY <1>1, <1>2, <1>3 DEF AtWork
<1>5. \A s \in Steps : (comp'[s] = "no" <=> comp[s] = "no") /\ (Passed(s) => Passed(s)') /\ (Owing(s)' <=> Owing(s))
  BY <1>0, <1>3, <1>4 DEF Passed, Owing
<1>6. GroupsOK'
  <2>1. ASSUME NEW i \in 1..Len(groups), NEW t \in groups[i]
        PROVE  /\ t \in Undoable
               /\ i > 1 => comp'[t] = "no"
               /\ i = 1 => comp'[t] # "no"
               /\ \A j \in 1..Len(groups) : t \in groups[j] => j = i
    <3>1. t \in Steps
      BY <1>1, SagaAssumption DEF CompInv, GroupsOK
    <3> QED BY <1>1, <1>5, <3>1 DEF CompInv, GroupsOK
  <2> QED BY <1>0, <1>1, <1>2, <2>1 DEF CompInv, GroupsOK
<1>7. RunningOK'
  BY <1>4 DEF RunningOK, Running
<1>8. ASSUME NEW s \in Steps
      PROVE  UndoneOK(s)'
  <2>0. UndoneOK(s) /\ undone[s] \in Nat
    BY <1>1 DEF CompInv, SagaIInv, SagaTypeOK
  <2>1. CASE s = x
    <3>1. undone[s] <= tries
      BY <1>0, <1>4, <2>0, <2>1 DEF UndoneOK
    <3>2. comp'[s] = "undoing" /\ undone'[s] < tries' /\ undone'[s] <= tries' /\ undone'[s] <= CompensationRetry
      BY <1>0, <1>1, <1>4, <2>0, <2>1, <3>1
    <3> QED BY <1>0, <3>2 DEF UndoneOK
  <2>2. CASE s # x
    BY <1>0, <1>4, <2>0, <2>2 DEF UndoneOK, Running
  <2> QED BY <2>1, <2>2
<1>9. QueuedInOrder'
  <2> SUFFICES ASSUME policy # "BEST_EFFORT_PARALLEL", NEW t \in Steps, NEW d \in Deps[t], Owing(t)
               PROVE  /\ comp'[d] # "no" => Passed(t)'
                      /\ \A j \in 1..Len(groups) : d \in groups[j] => Passed(t)' \/ \E i \in 1..(j - 1) : t \in groups[i]
    BY <1>0, <1>2, <1>5 DEF QueuedInOrder
  <2>1. d \in Steps
    BY SagaAssumption
  <2>2. /\ comp[d] # "no" => Passed(t)
        /\ \A j \in 1..Len(groups) : d \in groups[j] => Passed(t) \/ \E i \in 1..(j - 1) : t \in groups[i]
    BY <1>1 DEF CompInv, QueuedInOrder
  <2> QED BY <1>5, <2>1, <2>2
<1>10. AllAccounted'
  <2>1. \A t \in Steps : Accounted(t) => Accounted(t)'
    BY <1>1, <1>2, <1>5 DEF Accounted, Queued
  <2> QED BY <1>0, <1>1, <1>5, <2>1 DEF CompInv, AllAccounted, Failing
<1>11. StreakCounted'
  <2>1. {t \in Errors : ~AtWork(t)}' = {t \in Errors : ~AtWork(t)}
    BY <1>4 DEF Errors
  <2> QED BY <1>0, <1>1, <2>1 DEF CompInv, StreakCounted
<1> QED BY <1>6, <1>7, <1>8, <1>9, <1>10, <1>11 DEF CompInv

\* The group at work has ended, and the next one with something to undo begins.
LEMMA AdvanceKeeps ==
  ASSUME SagaIInv, stage = "compensating", OnlyGroups, Undoing(Tail(groups)), GroupEnded, tries' = 1,
         streak' \in Nat, streak' <= Cardinality(Errors),
         policy # "BEST_EFFORT_PARALLEL" => \A s \in groups[1] : Passed(s)
  PROVE  CompInv'
<1>0. policy' = policy /\ result' = result /\ effect' = effect /\ undone' = undone
  BY DEF OnlyGroups
<1>1. /\ groups \in Seq(SUBSET Steps) /\ groups # <<>> /\ Len(groups) \in Nat \ {0} /\ groups[1] # {}
      /\ groups[1] \subseteq Steps
      /\ \A s \in Steps : ~Running(s)
      /\ \A s \in groups[1] : comp[s] \in {"undone", "error", "cancelled"}
      /\ CompInv /\ CompensationRetry \in Nat \ {0} /\ Undoable \subseteq Steps /\ Deps \in [Steps -> SUBSET Steps]
  <2>1. \A s \in groups[1] : comp[s] \in {"undone", "error", "cancelled"}
    BY AtWorkIs DEF GroupEnded
  <2>2. \A s \in groups[1] : ~Running(s)
    BY <2>1 DEF Running
  <2>3. \A s \in Steps : ~Running(s)
    BY <2>2, AtWorkIs
  <2> QED BY <2>1, <2>3, AtWorkIs, SagaAssumption DEF SagaIInv
<1>2. /\ Tail(groups) \in Seq(SUBSET Steps) /\ Len(Tail(groups)) = Len(groups) - 1
      /\ \A i \in 1..Len(Tail(groups)) : Tail(groups)[i] = groups[i + 1]
  BY <1>1, HeadTailProperties
<1>3. /\ groups' \in Seq(SUBSET Steps) /\ \E k \in Nat : LeftOf(Tail(groups), k)
      /\ \/ groups' = <<>> /\ stage' = "finishing" /\ comp' = comp
         \/ /\ groups' # <<>> /\ groups'[1] # {} /\ stage' = "compensating"
            /\ comp' = [s \in Steps |-> IF s \in groups'[1] THEN "undoing" ELSE comp[s]]
  BY <1>2, UndoingIs
<1>4. \E k \in Nat : /\ k >= 1 /\ k <= Len(groups) /\ Len(groups') = Len(groups) - k
                     /\ \A i \in 1..Len(groups') : groups'[i] = groups[i + k]
                     /\ \A i \in 2..k : groups[i] = {}
  <2>1. PICK j \in Nat : LeftOf(Tail(groups), j)
    BY <1>3
  <2>2. /\ j <= Len(groups) - 1 /\ Len(groups') = Len(groups) - 1 - j
        /\ \A i \in 1..Len(groups') : groups'[i] = Tail(groups)[i + j]
        /\ \A i \in 1..j : Tail(groups)[i] = {}
    <3>1. /\ j \in 0..Len(Tail(groups)) /\ Len(groups') = Len(Tail(groups)) - j
          /\ \A i \in 1..Len(groups') : groups'[i] = Tail(groups)[i + j]
          /\ \A i \in 1..j : Tail(groups)[i] = {}
      BY <2>1 DEF LeftOf
    <3>2. j <= Len(groups) - 1 /\ Len(groups') = Len(groups) - 1 - j
      BY <1>1, <1>2, <3>1
    <3> QED BY <3>1, <3>2
  <2>3. ASSUME NEW i \in 1..Len(groups')
        PROVE  groups'[i] = groups[i + (j + 1)]
    <3>1. i + j \in 1..Len(Tail(groups)) /\ (i + j) + 1 = i + (j + 1)
      BY <1>1, <1>2, <2>2
    <3> QED BY <1>2, <2>2, <3>1
  <2>4. ASSUME NEW i \in 2..(j + 1)
        PROVE  groups[i] = {}
    <3>1. i - 1 \in 1..j /\ i - 1 \in 1..Len(Tail(groups)) /\ (i - 1) + 1 = i
      BY <1>1, <1>2, <2>2
    <3> QED BY <1>2, <2>2, <3>1
  <2>5. j + 1 \in Nat /\ j + 1 >= 1 /\ j + 1 <= Len(groups) /\ Len(groups') = Len(groups) - (j + 1)
    BY <1>1, <2>2
  <2> QED BY <2>3, <2>4, <2>5
<1>5. PICK k \in Nat : /\ k >= 1 /\ k <= Len(groups) /\ Len(groups') = Len(groups) - k
                       /\ \A i \in 1..Len(groups') : groups'[i] = groups[i + k]
                       /\ \A i \in 2..k : groups[i] = {}
  BY <1>4
<1>6. /\ Len(groups') \in Nat /\ (groups' # <<>> => 1 \in 1..Len(groups'))
      /\ \A i \in 1..Len(groups') : i + k \in 1..Len(groups) /\ i + k > 1 /\ groups' # <<>>
  <2>1. Len(groups') \in Nat /\ (groups' # <<>> => Len(groups') \in Nat \ {0})
    BY <1>3, LenProperties, EmptySeq
  <2>2. ASSUME NEW i \in 1..Len(groups')
        PROVE  i + k \in 1..Len(groups) /\ i + k > 1 /\ groups' # <<>>
    BY <1>1, <1>5, <2>1, EmptySeq
  <2> QED BY <2>1, <2>2
\* What is queued was queued behind the group at work.
<1>7. ASSUME NEW i \in 1..Len(groups'), NEW s \in groups'[i]
      PROVE  /\ s \in Steps /\ s \in Undoable /\ comp[s] = "no" /\ s \in groups[i + k] /\ i + k \in 1..Len(groups)
             /\ \A j \in 1..Len(groups') : s \in groups'[j] => j = i
  <2>1. s \in groups[i + k] /\ i + k \in 1..Len(groups) /\ i + k > 1
    BY <1>5, <1>6
  <2>2. s \in Undoable /\ comp[s] = "no" /\ \A j \in 1..Len(groups) : s \in groups[j] => j = i + k
    BY <1>1, <2>1 DEF CompInv, GroupsOK
  <2>3. ASSUME NEW j \in 1..Len(groups'), s \in groups'[j]
        PROVE  j = i
    <3>1. j + k \in 1..Len(groups) /\ s \in groups[j + k]
      BY <1>5, <1>6, <2>3
    <3>2. j + k = i + k
      BY <2>2, <3>1
    <3> QED BY <1>6, <3>2
  <2> QED BY <1>1, <2>1, <2>2, <2>3
<1>8. ASSUME NEW s \in Steps
      PROVE  /\ AtWork(s)' => comp[s] = "no" /\ comp'[s] = "undoing"
             /\ ~AtWork(s)' => comp'[s] = comp[s]
  <2>1. AtWork(s)' => groups' # <<>> /\ 1 \in 1..Len(groups') /\ s \in groups'[1]
    BY <1>6 DEF AtWork
  <2>2. AtWork(s)' => comp[s] = "no" /\ comp'[s] = "undoing"
    BY <1>3, <1>7, <2>1
  <2>3. ~AtWork(s)' => comp'[s] = comp[s]
    BY <1>3 DEF AtWork
  <2> QED BY <2>2, <2>3
<1>9. \A s \in Steps : (Passed(s) => Passed(s)') /\ (Owing(s)' <=> Owing(s)) /\ (Stopped(s) => Stopped(s)')
  BY <1>0, <1>8 DEF Passed, Owing, Stopped
\* What was queued is at work, and has ended, or is queued still.
<1>10. ASSUME NEW i \in 1..Len(groups), NEW s \in groups[i]
       PROVE  \/ i = 1
              \/ i - k \in 1..Len(groups') /\ s \in groups'[i - k]
  <2>1. ~(i \in 2..k)
    BY <1>5
  <2>2. i = 1 \/ (i - k \in 1..Len(groups') /\ (i - k) + k = i)
    BY <1>1, <1>5, <2>1
  <2> QED BY <1>5, <2>2
<1>11. GroupsOK'
  <2>1. groups' # <<>> => groups'[1] # {}
    BY <1>3
  <2>2. ASSUME NEW i \in 1..Len(groups'), NEW s \in groups'[i]
        PROVE  /\ s \in Undoable
               /\ i > 1 => comp'[s] = "no"
               /\ i = 1 => comp'[s] # "no"
               /\ \A j \in 1..Len(groups') : s \in groups'[j] => j = i
    <3>1. /\ s \in Steps /\ s \in Undoable /\ comp[s] = "no"
          /\ \A j \in 1..Len(groups') : s \in groups'[j] => j = i
      BY <1>7
    <3>2. i = 1 => AtWork(s)'
      BY <1>6 DEF AtWork
    <3>3. i > 1 => ~AtWork(s)'
      BY <1>6, <3>1 DEF AtWork
    <3> QED BY <1>8, <3>1, <3>2, <3>3
  <2>3. policy \in {"STRICT_SEQUENTIAL", "RETRY_WITH_BACKOFF", "CIRCUIT_BREAKER"} =>
          \A i \in 1..Len(groups') : \E x \in Steps : groups'[i] \subseteq {x}
    BY <1>1, <1>5, <1>6 DEF CompInv, GroupsOK
  <2>4. policy = "BEST_EFFORT_PARALLEL" => Len(groups') <= 1
    BY <1>1, <1>5, <1>6 DEF CompInv, GroupsOK
  <2> QED BY <1>0, <2>1, <2>2, <2>3, <2>4 DEF GroupsOK
<1>12. RunningOK'
  BY <1>1, <1>8 DEF RunningOK, Running
<1>13. ASSUME NEW s \in Steps
       PROVE  UndoneOK(s)'
  <2>0. UndoneOK(s) /\ undone[s] \in Nat
    BY <1>1 DEF CompInv, SagaIInv, SagaTypeOK
  <2>1. CASE AtWork(s)'
    <3>1. comp'[s] = "undoing" /\ undone'[s] = 0
      BY <1>0, <1>8, <2>0, <2>1 DEF UndoneOK
    <3> QED BY <1>0, <1>1, <3>1 DEF UndoneOK
  <2>2. CASE ~AtWork(s)'
    <3>1. comp'[s] = comp[s] /\ undone'[s] = undone[s] /\ comp[s] # "undoing"
      BY <1>0, <1>1, <1>8, <2>2 DEF Running
    <3> QED BY <1>0, <2>0, <2>2, <3>1 DEF UndoneOK
  <2> QED BY <2>1, <2>2
<1>14. ASSUME policy # "BEST_EFFORT_PARALLEL", NEW t \in Steps, NEW d \in Deps[t], Owing(t),
              NEW j \in 1..Len(groups), d \in groups[j]
       PROVE  Passed(t) \/ \E i \in 1..(j - 1) : i - k \in 1..Len(groups') /\ t \in groups'[i - k]
  <2>1. Passed(t) \/ \E i \in 1..(j - 1) : t \in groups[i]
    BY <1>1, <1>14 DEF CompInv, QueuedInOrder
  <2>2. ASSUME NEW i \in 1..(j - 1), t \in groups[i]
        PROVE  Passed(t) \/ (i - k \in 1..Len(groups') /\ t \in groups'[i - k])
    <3>1. i \in 1..Len(groups)
      BY <1>1
    <3>2. i = 1 => Passed(t)
      BY <1>14, <2>2
    <3> QED BY <1>10, <2>2, <3>1, <3>2
  <2> QED BY <2>1, <2>2
<1>15. QueuedInOrder'
  <2> SUFFICES ASSUME policy # "BEST_EFFORT_PARALLEL", NEW t \in Steps, NEW d \in Deps[t], Owing(t)
               PROVE  /\ comp'[d] # "no" => Passed(t)'
                      /\ \A j \in 1..Len(groups') : d \in groups'[j] => Passed(t)' \/ \E i \in 1..(j - 1) : t \in groups'[i]
    BY <1>0, <1>9 DEF QueuedInOrder
  <2>1. d \in Steps
    BY <1>1
  <2>2. ASSUME NEW j \in 1..Len(groups'), d \in groups'[j]
        PROVE  Passed(t)' \/ \E i \in 1..(j - 1) : t \in groups'[i]
    <3>1. j + k \in 1..Len(groups) /\ d \in groups[j + k]
      BY <1>5, <1>6, <2>2
    <3>2. Passed(t) \/ \E i \in 1..((j + k) - 1) : i - k \in 1..Len(groups') /\ t \in groups'[i - k]
      BY <1>14, <3>1
    <3>3. ASSUME NEW i \in 1..((j + k) - 1), i - k \in 1..Len(groups'), t \in groups'[i - k]
          PROVE  i - k \in 1..(j - 1)
      BY <1>6, <3>3
    <3> QED BY <1>9, <3>2, <3>3
  <2>3. ASSUME comp'[d] # "no"
        PROVE  Passed(t)'
    <3>1. CASE comp[d] # "no"
      BY <1>1, <1>9, <3>1 DEF CompInv, QueuedInOrder
    <3>2. CASE comp[d] = "no"
      <4>1. AtWork(d)'
        BY <1>8, <2>1, <2>3, <3>2
      <4>2. 1 \in 1..Len(groups') /\ d \in groups'[1]
        BY <1>6, <4>1 DEF AtWork
      <4>3. 1..(1 - 1) = {}
        OBVIOUS
      <4> QED BY <2>2, <4>2, <4>3
    <3> QED BY <3>1, <3>2
  <2> QED BY <2>2, <2>3
<1>16. AllAccounted'
  <2>1. ASSUME NEW t \in Steps, Accounted(t)
        PROVE  Accounted(t)'
    <3>1. CASE Passed(t)
      BY <1>9, <3>1 DEF Accounted
    <3>2. CASE Queued(t)
      <4>1. PICK i \in 1..Len(groups) : t \in groups[i]
        BY <3>2 DEF Queued
      <4>2. CASE i - k \in 1..Len(groups') /\ t \in groups'[i - k]
        BY <4>2 DEF Accounted, Queued
      <4>3. CASE i = 1 /\ policy # "BEST_EFFORT_PARALLEL"
        BY <1>9, <4>1, <4>3 DEF Accounted
      <4>4. CASE i = 1 /\ policy = "BEST_EFFORT_PARALLEL"
        <5>1. groups' = <<>>
          <6>1. Len(groups) <= 1
            BY <1>1, <4>4 DEF CompInv, GroupsOK
          <6> QED BY <1>1, <1>5, <1>6, <6>1
        <5>2. comp[t] \in {"undone", "error", "cancelled"}
          BY <1>1, <4>1, <4>4
        <5>3. Passed(t) \/ Stopped(t)
          BY <5>2 DEF Passed, Stopped
        <5> QED BY <1>9, <5>1, <5>3 DEF Accounted
      <4> QED BY <1>10, <4>1, <4>2, <4>3, <4>4
    <3> QED BY <1>1, <2>1, <3>1, <3>2 DEF Accounted
  <2> QED BY <1>0, <1>1, <1>9, <2>1 DEF CompInv, AllAccounted, Failing
<1>17. StreakCounted'
  <2>1. {t \in Errors : ~AtWork(t)}' = Errors
    BY <1>8 DEF Errors
  <2> QED BY <2>1 DEF StreakCounted
<1> QED BY <1>11, <1>12, <1>13, <1>15, <1>16, <1>17 DEF CompInv

\* The steps that end a group.
LEMMA GroupsKeep ==
  ASSUME SagaIInv, GroupSucceeds \/ ErrorPassed \/ CompRetried \/ CompensationStops, limit' = limit
  PROVE  SagaIInv'
<1>0. stage = "compensating" /\ OnlyGroups
  BY DEF GroupSucceeds, ErrorPassed, CompRetried, CompensationStops
<1>1. /\ groups \in Seq(SUBSET Steps) /\ groups # <<>> /\ groups[1] # {} /\ Head(groups) = groups[1]
      /\ groups[1] \subseteq Steps /\ 1 \in 1..Len(groups)
      /\ policy \in Policies
      /\ IsFiniteSet(Errors) /\ Errors \subseteq Steps /\ Cardinality(Errors) \in Nat
      /\ \A s \in Steps : AtWork(s) <=> s \in groups[1]
  BY <1>0, AtWorkIs
<1>2. /\ CompInv /\ StreakCounted /\ GroupsOK
      /\ streak \in Nat /\ streak < BreakerThreshold /\ BreakerThreshold \in Nat \ {0}
      /\ tries \in 1..CompensationRetry /\ CompensationRetry \in Nat \ {0} /\ 1 \in 1..CompensationRetry
      /\ streak \in 0..BreakerThreshold /\ 0 \in 0..BreakerThreshold /\ streak + 1 \in 0..BreakerThreshold
  BY <1>0, SagaAssumption DEF SagaIInv, SagaTypeOK, StepsInv, StageOK, CompInv
<1>3. Tail(groups) \in Seq(SUBSET Steps) /\ <<>> \in Seq(SUBSET Steps)
  BY <1>1, HeadTailProperties, EmptySeq
<1>4. policy \in {"STRICT_SEQUENTIAL", "GROUPED_PARALLEL", "RETRY_WITH_BACKOFF", "CIRCUIT_BREAKER", "BEST_EFFORT_PARALLEL"}
  BY <1>1, SagaAssumption
<1>5. policy \in {"STRICT_SEQUENTIAL", "RETRY_WITH_BACKOFF", "CIRCUIT_BREAKER"} => \E x \in Steps : groups[1] = {x}
  <2>1. policy \in {"STRICT_SEQUENTIAL", "RETRY_WITH_BACKOFF", "CIRCUIT_BREAKER"} => \E x \in Steps : groups[1] \subseteq {x}
    BY <1>1, <1>2 DEF GroupsOK
  <2> QED BY <1>1, <2>1
<1>6. streak <= Cardinality(Errors)
  <2> DEFINE E == {t \in Errors : ~AtWork(t)}
  <2>1. E \subseteq Errors
    OBVIOUS
  <2>2. Cardinality(E) \in Nat /\ Cardinality(E) <= Cardinality(Errors)
    BY <1>1, <2>1, FS_Subset, FS_CardinalityType
  <2>3. streak <= Cardinality(E)
    BY <1>2 DEF StreakCounted
  <2> QED BY <1>1, <1>2, <2>2, <2>3
\* A step that failed at work was not counted yet.
<1>7. ASSUME NEW x \in Steps, x \in groups[1], comp[x] = "error"
      PROVE  streak + 1 <= Cardinality(Errors)
  <2> DEFINE E == {t \in Errors : ~AtWork(t)}
  <2>1. E \subseteq Errors /\ x \in Errors /\ x \notin E
    BY <1>1, <1>7 DEF Errors
  <2>2. E \subseteq Errors \ {x}
    BY <2>1
  <2>3. /\ IsFiniteSet(Errors \ {x}) /\ Cardinality(Errors \ {x}) = Cardinality(Errors) - 1
    BY <1>1, <2>1, FS_RemoveElement
  <2>4. Cardinality(E) \in Nat /\ Cardinality(E) <= Cardinality(Errors \ {x})
    BY <2>2, <2>3, FS_Subset, FS_CardinalityType
  <2>5. streak <= Cardinality(E)
    BY <1>2 DEF StreakCounted
  <2> QED BY <1>1, <1>2, <2>3, <2>4, <2>5
<1>8. CASE GroupSucceeds
  <2>1. Undoing(Tail(groups)) /\ tries' = 1 /\ streak' = 0 /\ \A s \in groups[1] : comp[s] = "undone"
    BY <1>1, <1>8 DEF GroupSucceeds
  <2>2. GroupEnded /\ \A s \in groups[1] : Passed(s)
    BY <1>1, <2>1 DEF GroupEnded, Passed
  <2>3. SagaTypeOK' /\ StepsInv'
    <3>1. ~(streak' >= BreakerThreshold) /\ streak' \in 0..BreakerThreshold /\ tries' \in 1..CompensationRetry
      BY <1>2, <2>1
    <3> QED BY <1>0, <1>3, <2>1, <3>1, GroupSteps
  <2>4. CompInv'
    BY <1>0, <1>1, <2>1, <2>2, AdvanceKeeps
  <2> QED BY <2>3, <2>4 DEF SagaIInv
<1>9. CASE ErrorPassed /\ policy = "BEST_EFFORT_PARALLEL"
  <2>1. Undoing(Tail(groups)) /\ tries' = 1 /\ streak' = streak /\ GroupEnded
    BY <1>9 DEF ErrorPassed
  <2>2. SagaTypeOK' /\ StepsInv'
    <3>1. ~(streak' >= BreakerThreshold) /\ streak' \in 0..BreakerThreshold /\ tries' \in 1..CompensationRetry
      BY <1>2, <2>1
    <3> QED BY <1>0, <1>3, <2>1, <3>1, GroupSteps
  <2>3. CompInv'
    BY <1>0, <1>2, <1>6, <1>9, <2>1, AdvanceKeeps
  <2> QED BY <2>2, <2>3 DEF SagaIInv
<1>10. CASE ErrorPassed /\ policy # "BEST_EFFORT_PARALLEL"
  <2>1. /\ policy = "CIRCUIT_BREAKER" /\ Ends("error") /\ GroupEnded /\ streak' = streak + 1 /\ tries' = 1
        /\ Undoing(IF streak' >= BreakerThreshold THEN <<>> ELSE Tail(groups))
    BY <1>10 DEF ErrorPassed
  <2>2. PICK x \in Steps : groups[1] = {x} /\ comp[x] = "error"
    BY <1>1, <1>5, <2>1 DEF Ends
  <2>3. streak' <= Cardinality(Errors) /\ streak' \in Nat /\ streak' \in 0..BreakerThreshold
    BY <1>2, <1>7, <2>1, <2>2
  <2>4. CASE streak' >= BreakerThreshold
    <3>1. Undoing(<<>>)
      BY <2>1, <2>4
    <3>2. GivenUp
      BY <1>1, <1>2, <2>1, <2>2, <2>3, <2>4 DEF GivenUp, Stopped
    <3>3. SagaTypeOK' /\ StepsInv'
      BY <1>0, <1>2, <1>3, <2>1, <2>3, <3>1, GroupSteps
    <3>4. CompInv'
      BY <1>0, <2>1, <2>2, <2>3, <3>1, <3>2, StopKeeps DEF Running
    <3> QED BY <3>3, <3>4 DEF SagaIInv
  <2>5. CASE ~(streak' >= BreakerThreshold)
    <3>1. Undoing(Tail(groups))
      BY <2>1, <2>5
    <3>2. SagaTypeOK' /\ StepsInv'
      BY <1>0, <1>2, <1>3, <2>1, <2>3, <2>5, <3>1, GroupSteps
    <3>3. \A s \in groups[1] : Passed(s)
      BY <2>1, <2>2 DEF Passed
    <3>4. CompInv'
      BY <1>0, <2>1, <2>3, <3>1, <3>3, AdvanceKeeps
    <3> QED BY <3>2, <3>4 DEF SagaIInv
  <2> QED BY <2>4, <2>5
<1>11. CASE CompRetried
  <2>1. tries < CompensationRetry /\ tries' = tries + 1 /\ Undoing(groups) /\ streak' = streak
    BY <1>11 DEF CompRetried
  <2>2. tries' \in 1..CompensationRetry
    BY <1>2, <2>1
  <2>3. SagaTypeOK' /\ StepsInv'
    BY <1>0, <1>1, <1>2, <2>1, <2>2, GroupSteps
  <2>4. CompInv'
    BY <1>11, RetryKeeps
  <2> QED BY <2>3, <2>4 DEF SagaIInv
<1>12. CASE CompensationStops
  <2>1. Undoing(<<>>) /\ tries' = tries /\ streak' = streak
    BY <1>12 DEF CompensationStops
  <2>2. PICK x \in Steps : x \in groups[1] /\ comp[x] \in {"error", "cancelled"}
    BY <1>1, <1>12 DEF CompensationStops, Ends
  <2>3. GivenUp
    <3>1. policy # "BEST_EFFORT_PARALLEL" /\ (policy = "CIRCUIT_BREAKER" => Ends("cancelled"))
      BY <1>12 DEF CompensationStops
    <3>2. Ends("cancelled") => \E t \in Steps : comp[t] = "cancelled"
      BY <1>1 DEF Ends
    <3> QED BY <2>2, <3>1, <3>2 DEF GivenUp, Stopped
  <2>4. policy # "GROUPED_PARALLEL" => \A s \in groups[1] : ~Running(s)
    <3>1. policy # "BEST_EFFORT_PARALLEL"
      BY <2>3 DEF GivenUp
    <3> QED BY <1>4, <1>5, <2>2, <3>1 DEF Running
  <2>5. SagaTypeOK' /\ StepsInv'
    BY <1>0, <1>2, <1>3, <2>1, GroupSteps
  <2>6. CompInv'
    BY <1>0, <1>2, <1>6, <2>1, <2>3, <2>4, StopKeeps
  <2> QED BY <2>5, <2>6 DEF SagaIInv
<1> QED BY <1>8, <1>9, <1>10, <1>11, <1>12

-------------------------------------------------------------------------------
(* The theorems. *)

LEMMA SagaBegins == SagaInit => SagaIInv
<1> SUFFICES ASSUME SagaInit PROVE SagaIInv
  OBVIOUS
<1> USE DEF SagaInit
<1>1. SagaTypeOK
  <2>1. /\ 0 \in 0..LayerCount /\ 0 \in 0..MaxAttempts /\ 0 \in 0..CompensationRetry /\ 0 \in 0..BreakerThreshold
        /\ <<>> \in Seq(Steps) /\ <<>> \in Seq(SUBSET Steps)
    BY LayersAre, SagaAssumption, EmptySeq
  <2> QED BY <2>1 DEF SagaTypeOK, Stages, TaskStates, CompStates
<1>2. Len(committed) = 0 /\ Len(groups) = 0 /\ 1..0 = {}
  BY EmptySeq
<1>3. StepsInv
  <2>1. \A s \in Steps : StepOK(s)
    BY DEF StepOK, Done
  <2>2. StageOK
    BY DEF StageOK, Failing, NothingUndone
  <2>3. CommittedInOrder
    BY <1>2 DEF CommittedInOrder
  <2>4. RecordOK
    BY DEF RecordOK
  <2> QED BY <2>1, <2>2, <2>3, <2>4 DEF StepsInv
<1>4. CompInv
  <2>1. GroupsOK
    BY <1>2 DEF GroupsOK
  <2>2. RunningOK
    BY DEF RunningOK, Running
  <2>3. \A s \in Steps : UndoneOK(s)
    BY SagaAssumption DEF UndoneOK, AtWork
  <2>4. QueuedInOrder
    BY SagaAssumption DEF QueuedInOrder, Owing
  <2>5. AllAccounted
    BY DEF AllAccounted, Failing
  <2>6. StreakCounted
    <3>1. IsFiniteSet({t \in Errors : ~AtWork(t)})
      BY SagaAssumption, FS_Subset DEF Errors
    <3> QED BY <3>1, FS_CardinalityType DEF StreakCounted
  <2> QED BY <2>1, <2>2, <2>3, <2>4, <2>5, <2>6 DEF CompInv
<1> QED BY <1>1, <1>3, <1>4 DEF SagaIInv

LEMMA SagaKeeps == SagaIInv /\ [SagaNext]_sagaVars => SagaIInv'
<1> SUFFICES ASSUME SagaIInv, [SagaNext]_sagaVars PROVE SagaIInv'
  OBVIOUS
<1>1. CASE SagaNext
  <2>1. limit' = limit
    BY <1>1 DEF SagaNext
  <2>2. CASE SagaStarts \/ SagaRefused
    BY <2>1, <2>2, StartKeeps
  <2>3. CASE stage = "executing" /\ \E s \in Steps : StepMoves(s) \/ StepCancelsItself(s)
    BY <2>1, <2>3, TasksKeep
  <2>4. CASE LayerFails \/ CallerCancels
    BY <2>1, <2>4, AskKeeps
  <2>5. CASE LayerSettles \/ CancelledLayerSettles
    BY <2>1, <2>5, SettleKeeps
  <2>6. CASE \E s \in Steps : CompMoves(s)
    BY <2>1, <2>6, CompKeeps
  <2>7. CASE GroupSucceeds \/ ErrorPassed \/ CompRetried \/ CompensationStops
    BY <2>1, <2>7, GroupsKeep
  <2>8. CASE SagaFinishes \/ FinishFails \/ RecoveryReads \/ RecoveryMarks
    BY <2>1, <2>8, RecordKeeps
  <2> QED BY <1>1, <2>2, <2>3, <2>4, <2>5, <2>6, <2>7, <2>8 DEF SagaNext, SagaStep
<1>2. CASE UNCHANGED sagaVars
  <2> USE <1>2 DEF sagaVars, execVars, compVars
  <2>1. SagaTypeOK'
    BY DEF SagaIInv, SagaTypeOK
  <2>2. (\A s \in Steps : StepOK(s)') /\ CommittedInOrder'
    BY StepStays DEF SagaIInv
  <2>3. StageOK'
    BY DEF SagaIInv, StepsInv, StageOK, Failing, NothingUndone, InLayer, Done
  <2>4. RecordOK'
    BY DEF SagaIInv, StepsInv, RecordOK, Failing
  <2>5. CompInv'
    BY CompStays DEF SagaIInv
  <2> QED BY <2>1, <2>2, <2>3, <2>4, <2>5 DEF SagaIInv, StepsInv
<1> QED BY <1>1, <1>2

LEMMA SagaAlways == SagaSpec => []SagaIInv
BY SagaBegins, SagaKeeps, PTL DEF SagaSpec

(* The state of an execution is well-formed: no attempt is counted beyond     *)
(* MaxAttempts, no retry of a compensation beyond compensation_retry.         *)
THEOREM SagaTypes == SagaSpec => []SagaTypeOK
<1>1. SagaIInv => SagaTypeOK
  BY DEF SagaIInv
<1> QED BY <1>1, SagaAlways, PTL

(* What a step did is done once and undone once, however attempts and         *)
(* compensations are retried.                                                 *)
THEOREM SagaWorksOnce == SagaSpec => []WorkOnce
<1>1. SagaIInv => WorkOnce
  <2> SUFFICES ASSUME SagaIInv, NEW s \in Steps
               PROVE  /\ effect[s] <= 1
                      /\ undone[s] <= IF policy = "RETRY_WITH_BACKOFF" THEN CompensationRetry ELSE 1
    BY DEF WorkOnce, CommittedOnce, UndoneOnce
  <2>1. StepOK(s) /\ UndoneOK(s)
    BY DEF SagaIInv, StepsInv, CompInv
  <2> QED BY <2>1 DEF StepOK, UndoneOK
<1> QED BY <1>1, SagaAlways, PTL

(* Every step runs on the work of the steps it depends on, and is undone      *)
(* before theirs.                                                             *)
THEOREM SagaKeepsDependencies == SagaSpec => []DependenciesKept
<1>1. SagaIInv => RunsOnItsDependencies
  <2> SUFFICES ASSUME SagaIInv, NEW s \in Steps, task[s] \in Holding, NEW d \in Deps[s]
               PROVE  effect[d] = 1 /\ status[d] = "DONE" /\ comp[d] = "no"
    BY DEF RunsOnItsDependencies
  <2>1. task[s] \notin {"unborn", "ok", "over"}
    BY DEF Holding
  <2>2. stage = "executing" /\ result = "none"
    BY <2>1 DEF SagaIInv, SagaTypeOK, StepsInv, StageOK, Failing, Stages
  <2>3. d \in Steps /\ Done(d)
    BY <2>1, <2>2, Alive DEF SagaIInv
  <2>4. comp[d] = "no"
    BY <2>2, <2>3 DEF SagaIInv, StepsInv, StageOK, NothingUndone
  <2> QED BY <2>3, <2>4 DEF Done
<1>2. SagaIInv => UndoneInOrder
  BY DEF SagaIInv, CompInv, QueuedInOrder, UndoneInOrder, Passed
<1>3. SagaIInv => DependenciesKept
  BY <1>1, <1>2 DEF DependenciesKept
<1> QED BY <1>3, SagaAlways, PTL

(* When the compensation begins no task can still commit, and whatever was    *)
(* committed is in the list it works from.                                    *)
THEOREM SagaCompensationSeesAll == SagaSpec => []CompensationSeesAll
<1>1. SagaIInv => CompensationSeesAll
  <2> SUFFICES ASSUME SagaIInv, Failing, NEW s \in Steps
               PROVE  /\ task[s] \in {"unborn", "over"}
                      /\ effect[s] > 0 => Contains(committed, s)
    BY DEF CompensationSeesAll
  <2>1. StepOK(s) /\ StageOK
    BY DEF SagaIInv, StepsInv
  <2> QED BY <2>1 DEF StepOK, StageOK
<1> QED BY <1>1, SagaAlways, PTL

(* A failed execution ends with everything undone that its policy does not    *)
(* give up, and with nothing at work that gather did not leave behind.        *)
THEOREM SagaCompensates == SagaSpec => []CompensationComplete
<1>1. SagaIInv => FailedSagaUndone
  <2> SUFFICES ASSUME SagaIInv, stage = "ended", Failing, NEW s \in Steps, Owing(s)
               PROVE  \/ undone[s] > 0 \/ Stopped(s)
                      \/ GivenUp
                      \/ policy = "GROUPED_PARALLEL" /\ comp[s] # "no"
    BY DEF FailedSagaUndone, GivenUp, Errors
  <2>1. groups = <<>> /\ UndoneOK(s) /\ Accounted(s)
    BY DEF SagaIInv, StepsInv, StageOK, CompInv, AllAccounted
  <2>2. ~Queued(s)
    BY <2>1, EmptySeq DEF Queued
  <2> QED BY <2>1, <2>2 DEF Accounted, Passed, Stopped, UndoneOK
<1>2. SagaIInv => SettledBeforeEnd
  <2> SUFFICES ASSUME SagaIInv, stage \in {"finishing", "ended"}, NEW s \in Steps, Running(s)
               PROVE  policy = "GROUPED_PARALLEL" /\ \E t \in Steps : Stopped(t)
    BY DEF SettledBeforeEnd, Running
  <2>1. groups = <<>> /\ RunningOK
    BY DEF SagaIInv, StepsInv, StageOK, CompInv
  <2> QED BY <2>1 DEF RunningOK, AtWork
<1>3. SagaIInv => CompensationComplete
  BY <1>1, <1>2 DEF CompensationComplete
<1> QED BY <1>3, SagaAlways, PTL

(* The record of an execution says what became of it, unless the recovery     *)
(* overruled the engine.                                                      *)
THEOREM SagaRecordsHonestly == SagaSpec => []RecordHonest
<1>1. SagaIInv => RecordHonest
  BY DEF SagaIInv, StepsInv, RecordOK, StageOK, RecordHonest, NothingUndone, Done, Failing
<1> QED BY <1>1, SagaAlways, PTL

===============================================================================
