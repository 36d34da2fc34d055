--------------------------- MODULE EventStore_proof ---------------------------
(***************************************************************************)
(* The event store keeps its promise to the readers of the stream, for any *)
(* units, aggregates, stores and readers, any clock, any size of batches   *)
(* and lists, and both strategies.  Its last theorems are of MCStores,     *)
(* which runs it beside the outbox's tables.                               *)
(***************************************************************************)
EXTENDS MCStores, OutboxStore_proof, FiniteSetTheorems, FunctionTheorems, SequenceTheorems

(***************************************************************************)
(* The inductive invariant.                                                *)
(***************************************************************************)
EventKeys == [aggregate : Nat, sequence : Nat]
Lists == [id : Nat, left : Seq(EventKeys), head : Int]

(* A round that says "no more" leaves nothing behind.                         *)
EventTypes ==
  /\ strategy \in Strategies /\ storeOf \in [Readers -> Stores]
  /\ table \in SUBSET Row /\ head \in Nat /\ lastXid \in Nat
  /\ own \in [Units -> Seq(Row)] /\ writer \in [Units -> {"open", "checked", "ended"}]
  /\ aim \in [Units -> EventKeys] /\ xid \in [Units -> Nat]
  /\ backlog \in [Stores -> Lists] /\ round \in [Readers -> [list : Lists, missed : {{}}]]
  /\ \A u \in Units : writer[u] = "checked" => aim[u].aggregate \in Aggregates /\ aim[u].sequence \in 1..MaxEvents

Ids == {backlog[s].id : s \in Stores} \cup {round[r].list.id : r \in Readers}
Finite == IsFiniteSet(Inserted) /\ IsFiniteSet(Ids)

(* An aggregate's events are numbered from one, each number once.             *)
Has(rows, a, n) == \E q \in rows : q.aggregate = a /\ q.sequence = n
UniqueKeys(rows) == \A p, q \in rows : Key(p) = Key(q) => p = q
Dense(rows) == \A p \in rows : \A n \in 1..p.sequence : Has(rows, p.aggregate, n)

SeenBy(u) == table \cup InsertedBy(u)
Continues(u) ==
  /\ UniqueKeys(SeenBy(u)) /\ Dense(SeenBy(u))
  /\ \A p \in table, q \in InsertedBy(u) : Key(p) # Key(q)
  /\ writer[u] = "ended" => own[u] = <<>>
  /\ writer[u] = "checked" =>
       /\ \A n \in 1..(aim[u].sequence - 1) : Has(SeenBy(u), aim[u].aggregate, n)
       /\ (\E q \in InsertedBy(u) : q.aggregate = aim[u].aggregate) => ~SameKey(u, SeenBy(u))
OneWriter ==
  \A u, v \in Units : u # v => \A p \in InsertedBy(u), q \in InsertedBy(v) : p.aggregate # q.aggregate
Sequenced ==
  UniqueKeys(table) /\ Dense(table) /\ OneWriter /\ \A u \in Units : Continues(u)

(* xid8: positions are those of the transaction, and rise with the sequence.  *)
Rises(rows) ==
  \A p, q \in rows : p.aggregate = q.aggregate /\ p.sequence < q.sequence => p.position < q.position
Ordinals(u) ==
  /\ own[u] # <<>> \/ writer[u] = "checked" => xid[u] # 0
  /\ \A i \in DOMAIN own[u] : own[u][i].position = xid[u] * Scale + (i - 1)
  /\ Len(own[u]) <= MaxEvents /\ (writer[u] = "checked" => Len(own[u]) < MaxEvents)
  /\ writer[u] # "ended" /\ xid[u] # 0 =>
       \A p \in table : p.position < xid[u] * Scale \/ p.position >= (xid[u] + 1) * Scale
  /\ Rises(SeenBy(u))
  /\ writer[u] = "checked" =>
       \A p \in SeenBy(u) : p.aggregate = aim[u].aggregate /\ p.sequence < aim[u].sequence =>
                             p.position < xid[u] * Scale + Len(own[u])
OwnXids == \A u, v \in Units : u # v /\ xid[u] = xid[v] => xid[u] = 0
XidsKept == \A u \in Units : xid[u] <= lastXid
Transactions ==
  strategy = "xid8" =>
    /\ OwnXids /\ Rises(table) /\ \A u \in Units : Ordinals(u)
    /\ \A p, q \in table : p.position = q.position => p = q
    /\ \A p \in table : p.position < (lastXid + 1) * Scale

(* head-row: what has a position has one of its own, after those of the       *)
(* aggregate's earlier events.                                                *)
HeadRow ==
  strategy = "head-row" =>
    /\ \A u \in Units : \A i \in DOMAIN own[u] : own[u][i].position = 0
    /\ \A p \in table : p.position <= head
    /\ \A p, q \in table : p.position = q.position /\ p.position # 0 => p = q
    /\ \A p, q \in table : p.aggregate = q.aggregate /\ p.sequence < q.sequence /\ q.position # 0 =>
                             p.position # 0 /\ p.position < q.position

(* A list names committed events, each once, and none before an earlier event *)
(* of its aggregate that waits.                                               *)
ListOK(list, rows, last) ==
  /\ \A i, j \in DOMAIN list.left : list.left[i] = list.left[j] => i = j
  /\ \A i \in DOMAIN list.left : \E p \in rows : Key(p) = list.left[i]
  /\ \A i \in DOMAIN list.left, q \in rows :
       q.aggregate = list.left[i].aggregate /\ q.sequence < list.left[i].sequence =>
         q.position # 0 \/ \E j \in 1..(i - 1) : list.left[j] = Key(q)
  /\ list.head >= -1 /\ list.head <= last
  /\ list.head = last => \A i \in DOMAIN list.left : \A p \in rows : Key(p) = list.left[i] => p.position = 0
ListsKept ==
  /\ \A s \in Stores : ListOK(backlog[s], table, head)
  /\ \A r \in Readers : ListOK(round[r].list, table, head)

EInv == EventTypes /\ Finite /\ XidsKept /\ Sequenced /\ Transactions /\ HeadRow /\ ListsKept

-------------------------------------------------------------------------------
(* Sets of naturals, and sets in a line. *)

LEMMA Constants ==
  /\ Aggregates \subseteq Nat \ {0} /\ Strategies \subseteq {"head-row", "xid8"}
  /\ Times \subseteq Nat \ {0} /\ NumberingBatch \in Nat \ {0} /\ NumberingWindow \in Nat \ {0}
  /\ MaxEvents \in Nat \ {0} /\ Scale \in Nat \ {0}
  BY EventStoreAssumption DEF Scale

LEMMA Least ==
  ASSUME NEW S \in SUBSET Nat, S # {}
  PROVE  \E x \in S : \A y \in S : x <= y
<1> DEFINE R == OpToRel(<, Nat)
<1>1. \A x, y \in Nat : <<y, x>> \in R <=> y < x
  BY Zenon DEF OpToRel
<1>2. IsWellFoundedOn(R, Nat)
  BY NatLessThanWellFounded, Zenon
<1> HIDE DEF R
<1>3. PICK x \in S : \A y \in S : <<y, x>> \notin R
  BY <1>2, WFMin, Zenon
<1>4. \A y \in S : ~(y < x)
  BY <1>1, <1>3, Zenon
<1> QED BY <1>4

LEMMA MinIs ==
  ASSUME NEW S \in SUBSET Nat, S # {}
  PROVE  Min(S) \in S /\ \A x \in S : Min(S) <= x
<1>1. \E x \in S : \A y \in S : x <= y
  BY Least
<1> QED BY <1>1 DEF Min

\* By the least number of elements for which it would not.
LEMMA HasGreatest ==
  ASSUME NEW S \in SUBSET Nat, IsFiniteSet(S), S # {}
  PROVE  \E x \in S : \A y \in S : x >= y
<1> DEFINE Greatest(A) == \E x \in A : \A y \in A : x >= y
           Without == {n \in Nat : \E A \in SUBSET Nat : IsFiniteSet(A) /\ A # {} /\ Cardinality(A) = n /\ ~Greatest(A)}
<1>1. Without = {}
  <2> SUFFICES ASSUME Without # {} PROVE FALSE
    OBVIOUS
  <2>1. PICK n \in Without : \A m \in Without : n <= m
    BY Least
  <2>2. PICK A \in SUBSET Nat : IsFiniteSet(A) /\ A # {} /\ Cardinality(A) = n /\ ~Greatest(A)
    OBVIOUS
  <2>3. PICK x \in A : TRUE
    BY <2>2
  <2> DEFINE B == A \ {x}
  <2>4. IsFiniteSet(B) /\ Cardinality(B) = n - 1 /\ n \in Nat
    BY <2>2, <2>3, FS_RemoveElement
  <2>5. B # {}
    <3> SUFFICES ASSUME B = {} PROVE FALSE
      OBVIOUS
    <3>1. \A y \in A : y = x
      OBVIOUS
    <3> QED BY <2>2, <2>3, <3>1
  <2>6. n - 1 \in Nat
    BY <2>4, FS_CardinalityType
  <2>7. Greatest(B)
    <3> SUFFICES ASSUME ~Greatest(B) PROVE FALSE
      OBVIOUS
    <3>1. n - 1 \in Without
      BY <2>4, <2>5, <2>6
    <3> QED BY <2>1, <2>4, <3>1
  <2>8. PICK y \in B : \A z \in B : y >= z
    BY <2>7
  <2>9. x \in Nat /\ y \in Nat /\ \A z \in A : z \in Nat /\ (z = x \/ y >= z)
    BY <2>2, <2>3, <2>8
  <2>10. CASE x >= y
    <3>1. \A z \in A : x >= z
      BY <2>9, <2>10
    <3> QED BY <2>2, <2>3, <3>1
  <2>11. CASE ~(x >= y)
    <3>1. \A z \in A : y >= z
      BY <2>9, <2>11
    <3> QED BY <2>2, <2>8, <3>1
  <2> QED BY <2>10, <2>11
<1>2. Cardinality(S) \in Nat
  BY FS_CardinalityType
<1>3. Greatest(S)
  <2> SUFFICES ASSUME ~Greatest(S) PROVE FALSE
    OBVIOUS
  <2>1. Cardinality(S) \in Without
    BY <1>2
  <2> QED BY <1>1, <2>1
<1> QED BY <1>3

LEMMA GreatestIs ==
  ASSUME NEW S \in SUBSET Nat, IsFiniteSet(S), S # {}
  PROVE  Max(S) \in S /\ \A x \in S : Max(S) >= x
<1>1. \E x \in S : \A y \in S : x >= y
  BY HasGreatest
<1> QED BY <1>1 DEF Max

\* A set of positive numbers without gaps counts itself.
LEMMA CountsItself ==
  ASSUME NEW S \in SUBSET (Nat \ {0}), IsFiniteSet(S), \A x \in S : \A y \in 1..x : y \in S
  PROVE  S = 1..Cardinality(S) /\ Cardinality(S) \in Nat
<1>1. CASE S = {}
  <2>1. Cardinality(S) = 0
    BY <1>1, FS_EmptySet
  <2> QED BY <1>1, <2>1
<1>2. CASE S # {}
  <2>1. PICK x \in S : \A y \in S : x >= y
    BY <1>2, HasGreatest
  <2>2. S = 1..x
    <3>1. \A y \in S : y \in 1..x
      BY <2>1
    <3>2. \A y \in 1..x : y \in S
      BY <2>1
    <3> QED BY <3>1, <3>2
  <2>3. Cardinality(S) = x
    BY <2>1, <2>2, FS_Interval
  <2> QED BY <2>1, <2>2, <2>3
<1> QED BY <1>1, <1>2

LEMMA OneIsLeft ==
  ASSUME NEW K, IsFiniteSet(K)
  PROVE  \E n \in 1..(Cardinality(K) + 1) : n \notin K
<1> DEFINE N == 1..(Cardinality(K) + 1)
<1> SUFFICES ASSUME N \subseteq K PROVE FALSE
  OBVIOUS
<1>1. Cardinality(K) \in Nat
  BY FS_CardinalityType
<1>2. IsFiniteSet(N) /\ Cardinality(N) = Cardinality(K) + 1
  BY <1>1, FS_Interval
<1>3. Cardinality(N) <= Cardinality(K)
  BY FS_Subset
<1> QED BY <1>1, <1>2, <1>3

(* The line puts the elements in the order R.                                 *)
Behind(S, R, p) == {q \in S : <<q, p>> \in R}
InOrderOf(S, R, line) ==
  /\ line \in [1..Cardinality(S) -> S] /\ Cardinality(S) \in Nat
  /\ \A p \in S : \E i \in 1..Cardinality(S) : line[i] = p
  /\ \A i, j \in 1..Cardinality(S) : i < j <=> <<line[i], line[j]>> \in R
  /\ \A i, j \in 1..Cardinality(S) : line[i] = line[j] => i = j
  /\ \A i \in 1..Cardinality(S) : Cardinality(Behind(S, R, line[i])) = i - 1

TotalOrder(S, R) ==
  /\ \A p \in S : <<p, p>> \notin R
  /\ \A p, q, r \in S : <<p, q>> \in R /\ <<q, r>> \in R => <<p, r>> \in R
  /\ \A p, q \in S : p = q \/ <<p, q>> \in R \/ <<q, p>> \in R

LEMMA MoreBehind ==
  ASSUME NEW S, IsFiniteSet(S), NEW R, TotalOrder(S, R)
  PROVE  /\ \A p \in S : Cardinality(Behind(S, R, p)) \in 0..(Cardinality(S) - 1)
         /\ Cardinality(S) \in Nat
         /\ \A p, q \in S : <<p, q>> \in R <=> Cardinality(Behind(S, R, p)) < Cardinality(Behind(S, R, q))
<1>1. \A p \in S : IsFiniteSet(Behind(S, R, p)) /\ Cardinality(Behind(S, R, p)) \in Nat
  <2> TAKE p \in S
  <2>1. Behind(S, R, p) \in SUBSET S
    BY DEF Behind
  <2>2. IsFiniteSet(Behind(S, R, p))
    BY <2>1, FS_Subset
  <2> QED BY <2>2, FS_CardinalityType
<1>2. \A p, q \in S : <<p, q>> \in R => Cardinality(Behind(S, R, p)) < Cardinality(Behind(S, R, q))
  <2> SUFFICES ASSUME NEW p \in S, NEW q \in S, <<p, q>> \in R
               PROVE  Cardinality(Behind(S, R, p)) < Cardinality(Behind(S, R, q))
    OBVIOUS
  <2>1. Behind(S, R, p) \in SUBSET Behind(S, R, q)
    BY DEF Behind, TotalOrder
  <2>2. p \in Behind(S, R, q) /\ p \notin Behind(S, R, p)
    BY DEF Behind, TotalOrder
  <2>3. Cardinality(Behind(S, R, p)) <= Cardinality(Behind(S, R, q))
    BY <1>1, <2>1, FS_Subset
  <2>4. Cardinality(Behind(S, R, p)) # Cardinality(Behind(S, R, q))
    <3> SUFFICES ASSUME Cardinality(Behind(S, R, q)) = Cardinality(Behind(S, R, p)) PROVE FALSE
      OBVIOUS
    <3>1. Behind(S, R, q) = Behind(S, R, p)
      BY <1>1, <2>1, FS_Subset
    <3> QED BY <2>2, <3>1
  <2> QED BY <1>1, <2>3, <2>4
<1>3. \A p, q \in S : Cardinality(Behind(S, R, p)) < Cardinality(Behind(S, R, q)) => <<p, q>> \in R
  <2> SUFFICES ASSUME NEW p \in S, NEW q \in S,
                      Cardinality(Behind(S, R, p)) < Cardinality(Behind(S, R, q)), <<p, q>> \notin R
               PROVE  FALSE
    OBVIOUS
  <2>1. p = q \/ <<q, p>> \in R
    BY DEF TotalOrder
  <2>2. CASE p = q
    BY <1>1, <2>2
  <2>3. CASE <<q, p>> \in R
    BY <1>1, <1>2, <2>3
  <2> QED BY <2>1, <2>2, <2>3
<1>4. Cardinality(S) \in Nat
  BY FS_CardinalityType
<1>5. \A p \in S : Cardinality(Behind(S, R, p)) < Cardinality(S)
  <2> TAKE p \in S
  <2>1. Behind(S, R, p) \in SUBSET S /\ p \notin Behind(S, R, p)
    BY DEF Behind, TotalOrder
  <2>2. Cardinality(Behind(S, R, p)) <= Cardinality(S)
    BY <2>1, FS_Subset
  <2>3. Cardinality(S) # Cardinality(Behind(S, R, p))
    <3> SUFFICES ASSUME Cardinality(S) = Cardinality(Behind(S, R, p)) PROVE FALSE
      OBVIOUS
    <3>1. S = Behind(S, R, p)
      BY <2>1, FS_Subset
    <3> QED BY <2>1, <3>1
  <2> QED BY <1>1, <1>4, <2>2, <2>3
<1>6. \A p \in S : Cardinality(Behind(S, R, p)) \in 0..(Cardinality(S) - 1)
  BY <1>1, <1>4, <1>5
<1> QED BY <1>2, <1>3, <1>4, <1>6

\* As many places as elements, and each element at another one.
LEMMA EachPlace ==
  ASSUME NEW S, IsFiniteSet(S), NEW R, TotalOrder(S, R)
  PROVE  \A i \in 1..Cardinality(S) : \E p \in S : Cardinality(Behind(S, R, p)) = i - 1
<1> DEFINE f == [p \in S |-> Cardinality(Behind(S, R, p)) + 1]
           N == 1..Cardinality(S)
<1>1. Cardinality(S) \in Nat /\ IsFiniteSet(N) /\ Cardinality(N) = Cardinality(S)
  BY MoreBehind, FS_Interval
<1>2. f \in [S -> N]
  <2>1. \A p \in S : Cardinality(Behind(S, R, p)) + 1 \in N
    BY <1>1, MoreBehind
  <2> QED BY <2>1
<1>3. \A p, q \in S : f[p] = f[q] => p = q
  <2> SUFFICES ASSUME NEW p \in S, NEW q \in S, f[p] = f[q] PROVE p = q
    OBVIOUS
  <2>1. Cardinality(Behind(S, R, p)) \in Nat /\ Cardinality(Behind(S, R, q)) \in Nat
    BY <1>1, MoreBehind
  <2>2. Cardinality(Behind(S, R, p)) = Cardinality(Behind(S, R, q))
    BY <2>1
  <2>3. <<p, q>> \notin R /\ <<q, p>> \notin R
    BY <2>1, <2>2, MoreBehind
  <2> QED BY <2>3 DEF TotalOrder
<1>4. f \in Injection(S, N)
  BY <1>2, <1>3, Fun_IsInj
<1> HIDE DEF f
<1>5. f \in Surjection(S, N)
  BY <1>1, <1>4, FS_Injection
<1>6. \A i \in N : \E p \in S : f[p] = i
  BY <1>5, Fun_SurjectionProperties
<1> SUFFICES ASSUME NEW i \in N PROVE \E p \in S : Cardinality(Behind(S, R, p)) = i - 1
  OBVIOUS
<1>7. PICK p \in S : f[p] = i
  BY <1>6
<1>8. Cardinality(Behind(S, R, p)) + 1 = i /\ Cardinality(Behind(S, R, p)) \in Nat
  BY <1>1, <1>7, MoreBehind DEF f
<1> QED BY <1>8

LEMMA LineIs ==
  ASSUME NEW S, IsFiniteSet(S), NEW R, TotalOrder(S, R), NEW line,
         line \in [1..Cardinality(S) -> S],
         \A i \in 1..Cardinality(S) : Cardinality(Behind(S, R, line[i])) = i - 1
  PROVE  InOrderOf(S, R, line)
<1>1. Cardinality(S) \in Nat
  BY MoreBehind
<1>2. \A i, j \in 1..Cardinality(S) : i < j <=> <<line[i], line[j]>> \in R
  <2> SUFFICES ASSUME NEW i \in 1..Cardinality(S), NEW j \in 1..Cardinality(S)
               PROVE  i < j <=> <<line[i], line[j]>> \in R
    OBVIOUS
  <2>1. line[i] \in S /\ line[j] \in S
    OBVIOUS
  <2>2. <<line[i], line[j]>> \in R <=> Cardinality(Behind(S, R, line[i])) < Cardinality(Behind(S, R, line[j]))
    BY <2>1, MoreBehind
  <2>3. i \in Nat /\ j \in Nat
    BY <1>1
  <2> QED BY <2>2, <2>3
<1>3. \A i, j \in 1..Cardinality(S) : line[i] = line[j] => i = j
  <2> SUFFICES ASSUME NEW i \in 1..Cardinality(S), NEW j \in 1..Cardinality(S), line[i] = line[j] PROVE i = j
    OBVIOUS
  <2>1. i - 1 = j - 1
    OBVIOUS
  <2> QED BY <1>1, <2>1
<1>4. \A p \in S : \E i \in 1..Cardinality(S) : line[i] = p
  <2> SUFFICES ASSUME NEW p \in S PROVE \E i \in 1..Cardinality(S) : line[i] = p
    OBVIOUS
  <2> DEFINE i == Cardinality(Behind(S, R, p)) + 1
  <2>1. i \in 1..Cardinality(S) /\ Cardinality(Behind(S, R, p)) = i - 1
    BY <1>1, MoreBehind
  <2> HIDE DEF i
  <2>2. line[i] \in S /\ Cardinality(Behind(S, R, line[i])) = Cardinality(Behind(S, R, p))
    BY <2>1
  <2>3. Cardinality(Behind(S, R, p)) \in Nat
    BY <1>1, MoreBehind
  <2>4. <<line[i], p>> \notin R /\ <<p, line[i]>> \notin R
    BY <2>2, <2>3, MoreBehind
  <2>5. line[i] = p
    BY <2>2, <2>4 DEF TotalOrder
  <2> QED BY <2>1, <2>5
<1> QED BY <1>1, <1>2, <1>3, <1>4 DEF InOrderOf

-------------------------------------------------------------------------------
(* The stream, of any rows with positions of their own. *)

LineOf(V) == InLine(V, LAMBDA p, q : p.position < q.position)
StreamOf(V) == KeysOf(LineOf(V))
ByPosition(V) == {pq \in V \X V : pq[1].position < pq[2].position}
Apart(V) == \A p, q \in V : p.position = q.position => p = q

LEMMA StreamIs == Stream = StreamOf(Visible)
  BY DEF Stream, StreamOf, LineOf

LEMMA RowIs ==
  ASSUME NEW p \in Row
  PROVE  /\ p.aggregate \in Nat /\ p.aggregate \in Aggregates /\ p.sequence \in Nat \ {0}
         /\ p.recorded \in Nat /\ p.position \in Nat
         /\ Key(p) \in EventKeys /\ Key(p).aggregate = p.aggregate /\ Key(p).sequence = p.sequence
<1>1. p.aggregate \in Aggregates /\ p.sequence \in 1..MaxEvents /\ p.recorded \in Nat /\ p.position \in Nat
  BY DEF Row
<1>2. p.aggregate \in Nat /\ p.sequence \in Nat \ {0}
  <2>1. p.aggregate \in Nat \ {0}
    BY <1>1, Constants
  <2>2. p.sequence \in Nat \ {0}
    BY <1>1, Constants
  <2> QED BY <2>1, <2>2
<1>3. Key(p).aggregate = p.aggregate /\ Key(p).sequence = p.sequence
  BY DEF Key
<1>4. Key(p) \in EventKeys
  BY <1>2 DEF Key, EventKeys
<1> QED BY <1>1, <1>2, <1>3, <1>4

LEMMA SameKeyIs ==
  ASSUME NEW p, NEW q
  PROVE  Key(p) = Key(q) <=> p.aggregate = q.aggregate /\ p.sequence = q.sequence
  BY DEF Key

LEMMA PositionsOrder ==
  ASSUME NEW V \in SUBSET Row, Apart(V)
  PROVE  /\ TotalOrder(V, ByPosition(V))
         /\ \A p, q \in V : <<p, q>> \in ByPosition(V) <=> p.position < q.position
<1>1. ASSUME NEW p \in V, NEW q \in V
      PROVE  <<p, q>> \in ByPosition(V) <=> p.position < q.position
  <2>1. <<p, q>> \in V \X V /\ <<p, q>>[1] = p /\ <<p, q>>[2] = q
    OBVIOUS
  <2> QED BY ONLY <2>1, Zenon DEF ByPosition
<1>0. \A p, q \in V : <<p, q>> \in ByPosition(V) <=> p.position < q.position
  BY <1>1
<1>2. \A p \in V : p.position \in Nat
  BY RowIs
<1>3. \A p \in V : <<p, p>> \notin ByPosition(V)
  BY <1>0, <1>2
<1>4. \A p, q, r \in V : <<p, q>> \in ByPosition(V) /\ <<q, r>> \in ByPosition(V) => <<p, r>> \in ByPosition(V)
  BY <1>0, <1>2
<1>5. \A p, q \in V : p = q \/ <<p, q>> \in ByPosition(V) \/ <<q, p>> \in ByPosition(V)
  <2> SUFFICES ASSUME NEW p \in V, NEW q \in V, p # q PROVE p.position < q.position \/ q.position < p.position
    BY <1>0
  <2>1. p.position # q.position
    BY DEF Apart
  <2> QED BY <1>2, <2>1
<1> QED BY <1>0, <1>3, <1>4, <1>5 DEF TotalOrder

LEMMA RowsInLine ==
  ASSUME NEW V \in SUBSET Row, Apart(V), IsFiniteSet(V)
  PROVE  /\ InOrderOf(V, ByPosition(V), LineOf(V))
         /\ StreamOf(V) \in Seq(EventKeys) /\ Len(StreamOf(V)) = Cardinality(V)
         /\ \A i \in 1..Cardinality(V) : LineOf(V)[i] \in V /\ StreamOf(V)[i] = Key(LineOf(V)[i])
<1> DEFINE R == ByPosition(V)
           n == Cardinality(V)
<1>1. TotalOrder(V, R) /\ \A p, q \in V : <<p, q>> \in R <=> p.position < q.position
  BY PositionsOrder
<1> HIDE DEF R
<1>2. n \in Nat
  BY FS_CardinalityType
<1>3. \A p \in V : {q \in V : q.position < p.position} = Behind(V, R, p)
  BY <1>1 DEF Behind
<1>4. DOMAIN LineOf(V) = 1..n /\
      \A i \in 1..n : LineOf(V)[i] = CHOOSE p \in V : Cardinality({q \in V : q.position < p.position}) = i - 1
  BY DEF LineOf, InLine
<1>5. \A i \in 1..n : LineOf(V)[i] \in V /\ Cardinality(Behind(V, R, LineOf(V)[i])) = i - 1
  <2> TAKE i \in 1..n
  <2>1. \E p \in V : Cardinality(Behind(V, R, p)) = i - 1
    BY <1>1, EachPlace
  <2>2. \E p \in V : Cardinality({q \in V : q.position < p.position}) = i - 1
    BY <1>3, <2>1
  <2>3. LineOf(V)[i] \in V /\ Cardinality({q \in V : q.position < LineOf(V)[i].position}) = i - 1
    BY <1>4, <2>2
  <2> QED BY <1>3, <2>3
<1>6. LineOf(V) \in [1..n -> V]
  <2>1. LineOf(V) = [i \in 1..n |-> CHOOSE p \in V : Cardinality({q \in V : q.position < p.position}) = i - 1]
    BY Zenon DEF LineOf, InLine
  <2>2. LineOf(V) = [i \in 1..n |-> LineOf(V)[i]]
    BY <2>1, Zenon
  <2> QED BY <1>5, <2>2
<1>7. InOrderOf(V, R, LineOf(V))
  BY <1>1, <1>5, <1>6, LineIs
<1>8. \A i \in 1..n : Key(LineOf(V)[i]) \in EventKeys
  BY <1>5, RowIs
<1>9. StreamOf(V) = [i \in 1..n |-> Key(LineOf(V)[i])]
  BY <1>4 DEF StreamOf, KeysOf
<1>10. StreamOf(V) \in [1..n -> EventKeys]
  BY <1>8, <1>9
<1>11. StreamOf(V) \in Seq(EventKeys) /\ Len(StreamOf(V)) = n
  BY <1>2, <1>10
<1> QED BY <1>5, <1>7, <1>9, <1>11 DEF R

\* If earlier events of an aggregate have lower positions, the stream has each
\* aggregate's events in order.
LEMMA StreamInOrder ==
  ASSUME NEW T \in SUBSET Row, NEW V \in SUBSET T, IsFiniteSet(V), Apart(V), UniqueKeys(T), Dense(T),
         \A p \in V, q \in T : q.aggregate = p.aggregate /\ q.sequence < p.sequence =>
                                 q \in V /\ q.position < p.position
  PROVE  Promise!InOrder(StreamOf(V))
<1> DEFINE line == LineOf(V)
           n == Cardinality(V)
<1>1. InOrderOf(V, ByPosition(V), line) /\ Len(StreamOf(V)) = n /\ StreamOf(V) \in Seq(EventKeys) /\ n \in Nat
  BY RowsInLine, FS_CardinalityType
<1>2. \A i \in 1..n : line[i] \in V /\ line[i] \in Row /\ StreamOf(V)[i] = Key(line[i])
  BY RowsInLine
<1>3. DOMAIN StreamOf(V) = 1..n
  BY <1>1
<1>4. \A i, j \in 1..n : i < j <=> line[i].position < line[j].position
  BY <1>1, <1>2, PositionsOrder DEF InOrderOf
<1>5. \A i, j \in 1..n : line[i] = line[j] => i = j
  BY <1>1 DEF InOrderOf
<1>6. \A p \in V : \E i \in 1..n : line[i] = p
  BY <1>1 DEF InOrderOf
<1> HIDE DEF line
<1>7. \A i \in 1..n : line[i].position \in Nat /\ line[i].sequence \in Nat \ {0}
  BY <1>2, RowIs
<1>8. ASSUME NEW i \in 1..n
      PROVE  line[i].sequence = 1 + Cardinality({j \in 1..(i - 1) : line[j].aggregate = line[i].aggregate})
  <2> DEFINE J == {j \in 1..(i - 1) : line[j].aggregate = line[i].aggregate}
             N == 1..(line[i].sequence - 1)
             f == [j \in J |-> line[j].sequence]
  <2>1. \A j \in J : j \in 1..n /\ j < i /\ line[j].aggregate = line[i].aggregate
    BY <1>1
  <2>2. \A j \in J : line[j].sequence \in N
    <3> SUFFICES ASSUME NEW j \in J PROVE line[j].sequence \in N
      OBVIOUS
    <3>1. j \in 1..n /\ line[j].aggregate = line[i].aggregate /\ line[j].position < line[i].position
      BY <1>4, <2>1
    <3>2. ~(line[i].sequence < line[j].sequence)
      <4> SUFFICES ASSUME line[i].sequence < line[j].sequence PROVE FALSE
        OBVIOUS
      <4>1. line[i].position < line[j].position
        BY <1>2, <3>1
      <4> QED BY <1>7, <3>1, <4>1
    <3>3. line[i].sequence # line[j].sequence
      <4> SUFFICES ASSUME line[i].sequence = line[j].sequence PROVE FALSE
        OBVIOUS
      <4>1. line[i] = line[j]
        BY <1>2, <3>1, SameKeyIs DEF UniqueKeys
      <4> QED BY <1>7, <3>1, <4>1
    <3> QED BY <1>7, <3>1, <3>2, <3>3
  <2>3. \A j, k \in J : line[j].sequence = line[k].sequence => j = k
    <3> SUFFICES ASSUME NEW j \in J, NEW k \in J, line[j].sequence = line[k].sequence PROVE j = k
      OBVIOUS
    <3>1. j \in 1..n /\ k \in 1..n /\ line[j].aggregate = line[k].aggregate
      BY <2>1
    <3>2. line[j] = line[k]
      BY <1>2, <3>1, SameKeyIs DEF UniqueKeys
    <3> QED BY <1>5, <3>1, <3>2
  <2>4. \A m \in N : \E j \in J : line[j].sequence = m
    <3> SUFFICES ASSUME NEW m \in N PROVE \E j \in J : line[j].sequence = m
      OBVIOUS
    <3>1. line[i] \in T /\ m \in 1..line[i].sequence /\ m < line[i].sequence
      BY <1>2, <1>7
    <3>2. Has(T, line[i].aggregate, m)
      BY <3>1 DEF Dense
    <3>3. PICK q \in T : q.aggregate = line[i].aggregate /\ q.sequence = m
      BY <3>2 DEF Has
    <3>4. q \in V /\ q.position < line[i].position
      BY <1>2, <3>1, <3>3
    <3>5. PICK j \in 1..n : line[j] = q
      BY <1>6, <3>4
    <3>6. j < i
      BY <1>4, <3>4, <3>5
    <3>7. j \in J
      BY <3>3, <3>5, <3>6
    <3> QED BY <3>3, <3>5, <3>7
  <2>5. f \in [J -> N] /\ \A j \in J : f[j] = line[j].sequence
    BY <2>2
  <2>6. \A j, k \in J : f[j] = f[k] => j = k
    BY <2>3, <2>5
  <2>7. \A m \in N : \E j \in J : f[j] = m
    BY <2>4, <2>5
  <2> HIDE DEF f
  <2>8. f \in Bijection(J, N)
    <3>1. f \in Surjection(J, N)
      BY <2>5, <2>7, Fun_IsSurj
    <3> QED BY <2>5, <2>6, <3>1, Fun_IsBij
  <2>9. ExistsBijection(J, N)
    BY <2>8, Fun_ExistsBij
  <2>10. IsFiniteSet(J)
    <3>1. IsFiniteSet(1..(i - 1))
      BY <1>1, FS_Interval
    <3>2. J \in SUBSET (1..(i - 1))
      OBVIOUS
    <3> QED BY <3>1, <3>2, FS_Subset
  <2>11. Cardinality(N) = Cardinality(J)
    BY <2>9, <2>10, FS_Bijection
  <2>12. Cardinality(N) = line[i].sequence - 1
    <3>1. line[i].sequence - 1 \in Nat
      BY <1>7
    <3> DEFINE k == line[i].sequence - 1
    <3>2. k \in Nat
      BY <3>1
    <3> HIDE DEF k
    <3>3. Cardinality(1..k) = k
      BY <3>2, FS_Interval
    <3> QED BY <3>3 DEF k
  <2>13. Cardinality(J) \in Nat
    BY <2>10, FS_CardinalityType
  <2> HIDE DEF J, N
  <2>14. line[i].sequence = 1 + Cardinality(J)
    BY <1>7, <2>11, <2>12, <2>13
  <2> QED BY <2>14 DEF J
<1>9. ASSUME NEW i \in 1..n
      PROVE  {j \in 1..(i - 1) : StreamOf(V)[j].aggregate = StreamOf(V)[i].aggregate}
             = {j \in 1..(i - 1) : line[j].aggregate = line[i].aggregate}
  <2>1. \A j \in 1..(i - 1) : j \in 1..n
    BY <1>1
  <2>2. \A j \in 1..n : StreamOf(V)[j].aggregate = line[j].aggregate
    BY <1>2, RowIs
  <2> QED BY <2>1, <2>2
<1>10. \A i \in 1..n : StreamOf(V)[i].sequence = line[i].sequence
  BY <1>2, RowIs
<1>11. ASSUME NEW i \in 1..n
       PROVE  StreamOf(V)[i].sequence =
                1 + Cardinality({j \in 1..(i - 1) : StreamOf(V)[j].aggregate = StreamOf(V)[i].aggregate})
  BY <1>8, <1>9, <1>10, Zenon
<1>12. \A S : Promise!Cardinality(S) = Cardinality(S)
  BY DEF Promise!Cardinality, Cardinality
<1> QED BY <1>3, <1>11, <1>12, Zenon DEF Promise!InOrder

\* Rows that become visible with higher positions than all that are go behind them.
LEMMA StreamGrows ==
  ASSUME NEW W \in SUBSET Row, NEW V \in SUBSET W, IsFiniteSet(W), Apart(W),
         \A p \in V, q \in W \ V : p.position < q.position
  PROVE  IsPrefix(StreamOf(V), StreamOf(W))
<1> DEFINE RV == ByPosition(V)
           RW == ByPosition(W)
<1>1. IsFiniteSet(V) /\ Apart(V) /\ Cardinality(V) <= Cardinality(W)
  BY FS_Subset DEF Apart
<1>2. Cardinality(V) \in Nat /\ Cardinality(W) \in Nat
  BY <1>1, FS_CardinalityType
<1>3. InOrderOf(V, RV, LineOf(V)) /\ InOrderOf(W, RW, LineOf(W))
  BY <1>1, RowsInLine
<1>4. TotalOrder(W, RW) /\ \A p, q \in W : <<p, q>> \in RW <=> p.position < q.position
  BY PositionsOrder
<1>5. \A p, q \in V : <<p, q>> \in RV <=> p.position < q.position
  BY <1>1, PositionsOrder
<1> HIDE DEF RV, RW
<1>6. \A i \in 1..Cardinality(V) : LineOf(V)[i] = LineOf(W)[i]
  <2> SUFFICES ASSUME NEW i \in 1..Cardinality(V) PROVE LineOf(V)[i] = LineOf(W)[i]
    OBVIOUS
  <2> DEFINE p == LineOf(V)[i]
             q == LineOf(W)[i]
  <2>1. i \in 1..Cardinality(W)
    BY <1>1, <1>2
  <2>2. p \in V /\ Cardinality(Behind(V, RV, p)) = i - 1
    BY <1>3 DEF InOrderOf
  <2>3. q \in W /\ Cardinality(Behind(W, RW, q)) = i - 1
    BY <1>3, <2>1 DEF InOrderOf
  <2> HIDE DEF p, q
  <2>4. Behind(V, RV, p) = Behind(W, RW, p)
    <3>1. p \in Row /\ p \in W
      BY <2>2
    <3>2. \A x \in W : x.position \in Nat
      BY RowIs
    <3>3. \A x \in W : x \notin V => ~(x.position < p.position)
      BY <2>2, <3>1, <3>2
    <3>4. \A x \in W : <<x, p>> \in RW <=> x \in V /\ <<x, p>> \in RV
      BY <1>4, <1>5, <2>2, <3>1, <3>3
    <3> QED BY <3>4 DEF Behind
  <2>5. <<p, q>> \notin RW /\ <<q, p>> \notin RW
    <3>1. p \in W /\ Cardinality(Behind(W, RW, p)) = Cardinality(Behind(W, RW, q)) /\ i - 1 \in Nat
      BY <2>2, <2>3, <2>4
    <3> QED BY <1>4, <2>3, <3>1, MoreBehind
  <2>6. p = q
    BY <1>4, <2>2, <2>3, <2>5 DEF TotalOrder
  <2> QED BY <2>6 DEF p, q
<1> DEFINE s == StreamOf(V)
           t == StreamOf(W)
<1>7. s \in Seq(EventKeys) /\ t \in Seq(EventKeys) /\ Len(s) = Cardinality(V) /\ Len(t) = Cardinality(W)
  BY <1>1, RowsInLine
<1>8. \A i \in 1..Len(s) : s[i] = t[i]
  <2> TAKE i \in 1..Len(s)
  <2>1. i \in 1..Cardinality(V) /\ i \in 1..Cardinality(W)
    BY <1>1, <1>2, <1>7
  <2>2. s[i] = Key(LineOf(V)[i]) /\ t[i] = Key(LineOf(W)[i])
    BY <1>1, <2>1, RowsInLine
  <2> QED BY <1>6, <2>1, <2>2
<1>9. Len(s) \in Nat /\ Len(s) <= Len(t)
  BY <1>1, <1>2, <1>7
<1> HIDE DEF s, t
<1>10. SubSeq(s, 1, Len(s)) = SubSeq(t, 1, Len(s))
  BY <1>7, <1>8, <1>9
<1>11. IsPrefix(s, t)
  BY <1>9, <1>10 DEF IsPrefix
<1> QED BY <1>11 DEF s, t

-------------------------------------------------------------------------------
(* What the invariant says at once. *)

LEMMA InsertedIs ==
  ASSUME EInv
  PROVE  /\ \A u \in Units : InsertedBy(u) \in SUBSET Row /\ InsertedBy(u) \in SUBSET Inserted
         /\ \A u \in Units : SeenBy(u) \in SUBSET Row /\ SeenBy(u) \in SUBSET Inserted /\ IsFiniteSet(SeenBy(u))
         /\ \A u \in Units : own[u] \in Seq(Row) /\ Len(own[u]) \in Nat /\ DOMAIN own[u] = 1..Len(own[u])
         /\ table \in SUBSET Inserted /\ IsFiniteSet(table) /\ IsFiniteSet(Inserted)
<1>1. \A u \in Units : own[u] \in Seq(Row) /\ Len(own[u]) \in Nat /\ DOMAIN own[u] = 1..Len(own[u])
  <2>1. \A u \in Units : own[u] \in Seq(Row)
    BY DEF EInv, EventTypes
  <2> QED BY <2>1
<1>2. \A u \in Units : InsertedBy(u) \in SUBSET Row /\ InsertedBy(u) \in SUBSET Inserted
  <2> TAKE u \in Units
  <2>1. \A i \in DOMAIN own[u] : own[u][i] \in Row
    BY <1>1
  <2> QED BY <2>1 DEF InsertedBy, ToSet, Inserted
<1>3. table \in SUBSET Inserted /\ IsFiniteSet(Inserted) /\ table \in SUBSET Row
  BY DEF Inserted, EInv, Finite, EventTypes
<1>4. IsFiniteSet(table)
  BY <1>3, FS_Subset
<1>5. \A u \in Units : SeenBy(u) \in SUBSET Row /\ SeenBy(u) \in SUBSET Inserted
  BY <1>2, <1>3 DEF SeenBy
<1>6. \A u \in Units : IsFiniteSet(SeenBy(u))
  BY <1>3, <1>5, FS_Subset
<1> QED BY <1>1, <1>2, <1>3, <1>4, <1>5, <1>6

\* The version of an aggregate is its last sequence.
LEMMA VersionIs ==
  ASSUME NEW rows \in SUBSET Row, IsFiniteSet(rows), UniqueKeys(rows), Dense(rows), NEW a
  PROVE  LET n == Cardinality({r \in rows : r.aggregate = a})
         IN  n \in Nat /\ \A k \in Nat \ {0} : Has(rows, a, k) <=> k <= n
<1> DEFINE A == {r \in rows : r.aggregate = a}
           S == {r.sequence : r \in A}
           f == [r \in A |-> r.sequence]
<1>1. IsFiniteSet(A)
  BY FS_Subset
<1>2. \A r \in rows : r.sequence \in Nat \ {0}
  BY RowIs
<1>3. f \in [A -> S] /\ \A r \in A : f[r] = r.sequence
  OBVIOUS
<1>4. \A p, q \in A : f[p] = f[q] => p = q
  BY <1>3, SameKeyIs DEF UniqueKeys
<1>5. \A n \in S : \E r \in A : f[r] = n
  BY <1>3
<1> HIDE DEF f
<1>6. f \in Bijection(A, S)
  <2>1. f \in Surjection(A, S)
    BY <1>3, <1>5, Fun_IsSurj
  <2> QED BY <1>3, <1>4, <2>1, Fun_IsBij
<1>7. IsFiniteSet(S) /\ Cardinality(S) = Cardinality(A)
  <2>1. ExistsBijection(A, S)
    BY <1>6, Fun_ExistsBij
  <2> QED BY <1>1, <2>1, FS_Bijection
<1>8. S \in SUBSET (Nat \ {0})
  BY <1>2
<1>9. \A k : Has(rows, a, k) <=> k \in S
  BY DEF Has
<1>10. \A x \in S : \A y \in 1..x : y \in S
  <2> SUFFICES ASSUME NEW x \in S, NEW y \in 1..x PROVE y \in S
    OBVIOUS
  <2>1. PICK r \in rows : r.aggregate = a /\ r.sequence = x
    OBVIOUS
  <2>2. Has(rows, a, y)
    BY <2>1 DEF Dense
  <2> QED BY <1>9, <2>2
<1> HIDE DEF S
<1>11. S = 1..Cardinality(S) /\ Cardinality(S) \in Nat
  BY <1>7, <1>8, <1>10, CountsItself
<1> HIDE DEF A
<1>12. Cardinality(A) \in Nat /\ \A k \in Nat \ {0} : Has(rows, a, k) <=> k <= Cardinality(A)
  <2>1. Cardinality(A) \in Nat /\ S = 1..Cardinality(A)
    BY <1>7, <1>11
  <2> QED BY <1>9, <2>1
<1> QED BY <1>12 DEF A

LEMMA ByStrategy ==
  ASSUME EInv
  PROVE  strategy = "xid8" \/ strategy = "head-row"
<1>1. strategy \in Strategies
  BY DEF EInv, EventTypes
<1> QED BY <1>1, Constants

\* The events that are visible have positions of their own, and with each the
\* earlier events of its aggregate.
LEMMA VisibleIs ==
  ASSUME EInv
  PROVE  /\ Visible \in SUBSET Row /\ Visible \in SUBSET table /\ IsFiniteSet(Visible) /\ Apart(Visible)
         /\ \A p \in Visible, q \in table : q.aggregate = p.aggregate /\ q.sequence < p.sequence =>
                                              q \in Visible /\ q.position < p.position
<1>1. table \in SUBSET Row /\ IsFiniteSet(table)
  BY InsertedIs DEF EInv, EventTypes
<1>2. Visible \in SUBSET table
  BY DEF Visible
<1>3. IsFiniteSet(Visible)
  BY <1>1, <1>2, FS_Subset
<1>4. \A p \in table : p.position \in Nat
  BY <1>1, RowIs
<1>5. CASE strategy = "xid8"
  <2>1. Visible = {r \in table : r.position < Horizon}
    BY <1>5 DEF Visible
  <2>2. Apart(table) /\ Rises(table)
    BY <1>5 DEF EInv, Transactions, Apart
  <2>3. Apart(Visible)
    BY <1>2, <2>2 DEF Apart
  <2>4. Horizon \in Nat
    <3>1. \A u \in Units : xid[u] \in Nat
      BY DEF EInv, EventTypes
    <3>2. Running \cup {lastXid + 1} \in SUBSET Nat /\ Running \cup {lastXid + 1} # {}
      BY <3>1 DEF Running, EInv, EventTypes
    <3>3. Min(Running \cup {lastXid + 1}) \in Nat
      BY <3>2, MinIs
    <3> QED BY <3>3, Constants DEF Horizon
  <2>5. \A p \in Visible, q \in table : q.aggregate = p.aggregate /\ q.sequence < p.sequence =>
                                          q \in Visible /\ q.position < p.position
    <3> SUFFICES ASSUME NEW p \in Visible, NEW q \in table, q.aggregate = p.aggregate, q.sequence < p.sequence
                 PROVE  q \in Visible /\ q.position < p.position
      OBVIOUS
    <3>1. q.position < p.position
      BY <1>2, <2>2 DEF Rises
    <3>2. p.position < Horizon /\ p.position \in Nat /\ q.position \in Nat
      BY <1>2, <1>4, <2>1
    <3> QED BY <2>1, <2>4, <3>1, <3>2
  <2> QED BY <1>1, <1>2, <1>3, <2>3, <2>5
<1>6. CASE strategy = "head-row"
  <2>1. Visible = {r \in table : r.position # 0}
    BY <1>6 DEF Visible, Waiting
  <2>2. Apart(Visible)
    BY <1>6, <2>1 DEF Apart, EInv, HeadRow
  <2>3. \A p \in Visible, q \in table : q.aggregate = p.aggregate /\ q.sequence < p.sequence =>
                                          q \in Visible /\ q.position < p.position
    BY <1>6, <2>1 DEF EInv, HeadRow
  <2> QED BY <1>1, <1>2, <1>3, <2>2, <2>3
<1> QED BY <1>5, <1>6, ByStrategy

LEMMA AlwaysInOrder ==
  ASSUME EInv
  PROVE  Promise!InOrder(Stream)
<1>1. table \in SUBSET Row /\ UniqueKeys(table) /\ Dense(table)
  BY DEF EInv, EventTypes, Sequenced
<1>2. Promise!InOrder(StreamOf(Visible))
  BY <1>1, VisibleIs, StreamInOrder
<1> QED BY <1>2, StreamIs

-------------------------------------------------------------------------------
(* The writers. *)

LEMMA Multiples ==
  ASSUME NEW a \in Nat, NEW b \in Nat, a < b
  PROVE  a * Scale \in Nat /\ b * Scale \in Nat /\ (a + 1) * Scale = a * Scale + Scale /\ (a + 1) * Scale <= b * Scale
<1>1. Scale \in Nat
  BY Constants
<1> QED BY <1>1, SMTT(30)

\* The transaction id of a unit, once it has one, stays, and is its own.
LEMMA TakesXidIs ==
  ASSUME EventTypes, XidsKept, OwnXids, NEW u \in Units, TakesXid(u)
  PROVE  /\ xid' \in [Units -> Nat] /\ lastXid' \in Nat /\ lastXid <= lastXid'
         /\ \A v \in Units : v # u => xid'[v] = xid[v]
         /\ xid[u] # 0 => xid'[u] = xid[u] /\ lastXid' = lastXid
         /\ strategy = "xid8" => xid'[u] = Xid(u) /\ xid'[u] # 0
         /\ strategy = "xid8" /\ xid[u] = 0 => xid'[u] = lastXid + 1 /\ lastXid' = lastXid + 1
         /\ XidsKept' /\ OwnXids'
<1>1. \A v \in Units : xid[v] \in Nat /\ xid[v] <= lastXid
  BY DEF EventTypes, XidsKept
<1>2. lastXid \in Nat /\ xid \in [Units -> Nat]
  BY DEF EventTypes
<1>3. CASE strategy = "xid8"
  <2>1. xid' = [xid EXCEPT ![u] = Xid(u)] /\ lastXid' = (IF xid[u] = 0 THEN lastXid + 1 ELSE lastXid)
    BY <1>3 DEF TakesXid
  <2>2. Xid(u) = (IF xid[u] = 0 THEN lastXid + 1 ELSE xid[u]) /\ Xid(u) \in Nat /\ Xid(u) # 0
    BY <1>1, <1>2 DEF Xid
  <2>3. xid' \in [Units -> Nat] /\ xid'[u] = Xid(u) /\ \A v \in Units : v # u => xid'[v] = xid[v]
    BY <1>2, <2>1, <2>2
  <2>4. lastXid' \in Nat /\ lastXid <= lastXid' /\ xid'[u] <= lastXid'
    BY <1>1, <1>2, <2>1, <2>2, <2>3
  <2>5. XidsKept'
    <3> SUFFICES ASSUME NEW v \in Units PROVE xid'[v] <= lastXid'
      BY DEF XidsKept
    <3>1. xid[v] <= lastXid /\ xid[v] \in Nat
      BY <1>1
    <3> QED BY <1>2, <2>3, <2>4, <3>1
  <2>6. OwnXids'
    <3> SUFFICES ASSUME NEW v \in Units, NEW w \in Units, v # w, xid'[v] = xid'[w], xid'[v] # 0 PROVE FALSE
      BY DEF OwnXids
    <3>1. CASE v # u /\ w # u
      BY <2>3, <3>1 DEF OwnXids
    <3>2. ASSUME NEW x \in Units, x # u, xid'[x] = xid'[u] PROVE FALSE
      <4>1. xid[x] = Xid(u) /\ xid[x] <= lastXid /\ xid[x] \in Nat
        BY <1>1, <2>3, <3>2
      <4>2. CASE xid[u] = 0
        BY <1>2, <2>2, <4>1, <4>2
      <4>3. CASE xid[u] # 0
        BY <2>2, <3>2, <4>1, <4>3 DEF OwnXids
      <4> QED BY <4>2, <4>3
    <3> QED BY <3>1, <3>2
  <2> QED BY <2>1, <2>2, <2>3, <2>4, <2>5, <2>6
<1>4. CASE strategy # "xid8"
  <2>1. xid' = xid /\ lastXid' = lastXid
    BY <1>4 DEF TakesXid
  <2>2. XidsKept' /\ OwnXids'
    BY <2>1 DEF XidsKept, OwnXids
  <2> QED BY <1>2, <1>4, <2>1, <2>2
<1> QED BY <1>3, <1>4

\* What a unit that does nothing knows stays true while the table does not change.
LEMMA ContinuesStays ==
  ASSUME NEW v \in Units, Continues(v), table' = table,
         own'[v] = own[v], writer'[v] = writer[v], aim'[v] = aim[v]
  PROVE  Continues(v)'
<1>1. InsertedBy(v)' = InsertedBy(v) /\ SeenBy(v)' = SeenBy(v)
  BY DEF InsertedBy, SeenBy
<1>2. SameKey(v, SeenBy(v))' = SameKey(v, SeenBy(v))
  BY <1>1 DEF SameKey
<1> QED BY <1>1, <1>2 DEF Continues

LEMMA OrdinalsStay ==
  ASSUME NEW v \in Units, Ordinals(v), table' = table,
         own'[v] = own[v], writer'[v] = writer[v], aim'[v] = aim[v], xid'[v] = xid[v]
  PROVE  Ordinals(v)'
<1>1. InsertedBy(v)' = InsertedBy(v) /\ SeenBy(v)' = SeenBy(v)
  BY DEF InsertedBy, SeenBy
<1> QED BY <1>1 DEF Ordinals

LEMMA ListsStay ==
  ASSUME ListsKept, table' = table, head' = head, backlog' = backlog, round' = round
  PROVE  ListsKept'
  BY DEF ListsKept

\* What a unit gets from its transaction id: a range of positions above every
\* row it may follow.
LEMMA TakesXidOrdinals ==
  ASSUME EInv, strategy = "xid8", NEW u \in Units, TakesXid(u), table' = table,
         own'[u] = own[u], writer[u] = "open", writer'[u] = "open" \/ writer'[u] = "checked"
  PROVE  /\ \A i \in DOMAIN own[u] : own[u][i].position = xid'[u] * Scale + (i - 1)
         /\ \A p \in table : p.position < xid'[u] * Scale \/ p.position >= (xid'[u] + 1) * Scale
         /\ \A p \in table : p.position < (lastXid' + 1) * Scale
<1>1. Ordinals(u) /\ OwnXids /\ \A p \in table : p.position < (lastXid + 1) * Scale
  BY DEF EInv, Transactions
<1>2. /\ xid' \in [Units -> Nat] /\ lastXid' \in Nat /\ lastXid <= lastXid'
      /\ xid[u] # 0 => xid'[u] = xid[u] /\ lastXid' = lastXid
      /\ xid[u] = 0 => xid'[u] = lastXid + 1 /\ lastXid' = lastXid + 1
  BY <1>1, TakesXidIs DEF EInv
<1>3. \A p \in table : p.position \in Nat
  BY RowIs DEF EInv, EventTypes
<1>4. lastXid \in Nat /\ (lastXid + 1) * Scale \in Nat
  <2>1. lastXid \in Nat
    BY DEF EInv, EventTypes
  <2> QED BY <2>1, Constants
<1>5. CASE xid[u] # 0
  BY <1>1, <1>2, <1>5 DEF Ordinals
<1>6. CASE xid[u] = 0
  <2>1. own[u] = <<>>
    BY <1>1, <1>6 DEF Ordinals
  <2>2. \A p \in table : p.position < xid'[u] * Scale
    BY <1>1, <1>2, <1>6
  <2>3. (lastXid + 1) * Scale <= (lastXid' + 1) * Scale /\ (lastXid' + 1) * Scale \in Nat
    <3>1. lastXid + 1 \in Nat /\ lastXid' + 1 \in Nat /\ lastXid + 1 < lastXid' + 1
      BY <1>2, <1>4, <1>6
    <3>2. (lastXid + 1) * Scale \in Nat /\ (lastXid' + 1) * Scale \in Nat /\ (lastXid + 1) * Scale + Scale <= (lastXid' + 1) * Scale
      BY <3>1, Multiples
    <3> QED BY <3>2, Constants
  <2>4. \A p \in table : p.position < (lastXid' + 1) * Scale
    BY <1>1, <1>3, <1>4, <2>3
  <2> QED BY <2>1, <2>2, <2>4
<1> QED BY <1>5, <1>6

LEMMA RefusesKeeps ==
  ASSUME EInv, NEW u \in Units, RefusesAppend(u)
  PROVE  EInv'
<1>1. /\ strategy = "xid8" /\ TakesXid(u) /\ writer[u] = "open"
      /\ UNCHANGED <<strategy, storeOf, table, head, backlog, round, own, writer, aim>>
  BY DEF RefusesAppend
<1>2. OwnXids
  BY <1>1 DEF EInv, Transactions
<1>3. EventTypes' /\ XidsKept' /\ OwnXids' /\ xid'[u] # 0 /\ \A v \in Units : v # u => xid'[v] = xid[v]
  <2>1. /\ xid' \in [Units -> Nat] /\ lastXid' \in Nat /\ XidsKept' /\ OwnXids' /\ xid'[u] # 0
        /\ \A v \in Units : v # u => xid'[v] = xid[v]
    BY <1>1, <1>2, TakesXidIs DEF EInv
  <2>2. EventTypes'
    BY <1>1, <2>1 DEF EInv, EventTypes
  <2> QED BY <2>1, <2>2
<1>4. Finite'
  <2>1. Inserted' = Inserted /\ Ids' = Ids
    BY <1>1 DEF Inserted, InsertedBy, Ids
  <2> QED BY <2>1 DEF EInv, Finite
<1>5. Sequenced'
  <2>1. \A v \in Units : Continues(v)'
    BY <1>1, ContinuesStays DEF EInv, Sequenced
  <2>2. OneWriter'
    BY <1>1 DEF EInv, Sequenced, OneWriter, InsertedBy
  <2>3. UniqueKeys(table)' /\ Dense(table)'
    BY <1>1 DEF EInv, Sequenced
  <2> QED BY <2>1, <2>2, <2>3 DEF Sequenced
<1>6. Transactions'
  <2>1. \A v \in Units : v # u => Ordinals(v)'
    <3>1. \A v \in Units : Ordinals(v)
      BY <1>1 DEF EInv, Transactions
    <3> QED BY <1>1, <1>3, <3>1, OrdinalsStay
  <2>2. /\ \A i \in DOMAIN own[u] : own[u][i].position = xid'[u] * Scale + (i - 1)
        /\ \A p \in table : p.position < xid'[u] * Scale \/ p.position >= (xid'[u] + 1) * Scale
        /\ \A p \in table : p.position < (lastXid' + 1) * Scale
    BY <1>1, TakesXidOrdinals
  <2>3. Ordinals(u)'
    <3>1. Ordinals(u)
      BY <1>1 DEF EInv, Transactions
    <3>2. SeenBy(u)' = SeenBy(u) /\ own' = own /\ writer' = writer /\ aim' = aim
      BY <1>1 DEF SeenBy, InsertedBy
    <3> QED BY <1>1, <1>3, <2>2, <3>1, <3>2 DEF Ordinals
  <2> QED BY <1>1, <1>3, <2>1, <2>2, <2>3 DEF EInv, Transactions, Rises
<1>7. HeadRow'
  BY <1>1 DEF HeadRow
<1>8. ListsKept'
  BY <1>1, ListsStay DEF EInv
<1> QED BY <1>3, <1>4, <1>5, <1>6, <1>7, <1>8 DEF EInv

\* An own row is one of those inserted, so their number is bounded.
LEMMA OwnCounted ==
  ASSUME EInv, NEW u \in Units, strategy = "xid8"
  PROVE  Len(own[u]) <= Cardinality(Inserted) /\ Cardinality(Inserted) \in Nat
<1> DEFINE N == 1..Len(own[u])
           f == [i \in N |-> own[u][i]]
<1>1. own[u] \in Seq(Row) /\ Len(own[u]) \in Nat /\ DOMAIN own[u] = N /\ IsFiniteSet(Inserted)
  BY InsertedIs
<1>2. f \in [N -> Inserted]
  <2>1. \A i \in N : own[u][i] \in Inserted
    BY <1>1 DEF Inserted, InsertedBy, ToSet
  <2> QED BY <2>1
<1>3. \A i \in N : own[u][i].position = xid[u] * Scale + (i - 1)
  BY <1>1 DEF EInv, Transactions, Ordinals
<1>4. xid[u] * Scale \in Nat
  <2>1. xid[u] \in Nat
    BY DEF EInv, EventTypes
  <2> QED BY <2>1, Constants
<1>5. \A i, j \in N : f[i] = f[j] => i = j
  <2> SUFFICES ASSUME NEW i \in N, NEW j \in N, own[u][i] = own[u][j] PROVE i = j
    OBVIOUS
  <2>1. xid[u] * Scale + (i - 1) = xid[u] * Scale + (j - 1)
    BY <1>3
  <2> QED BY <1>1, <1>4, <2>1
<1> HIDE DEF f
<1>6. f \in Injection(N, Inserted)
  BY <1>2, <1>5, Fun_IsInj
<1>7. Cardinality(N) <= Cardinality(Inserted)
  BY <1>1, <1>6, FS_Injection
<1>8. Cardinality(N) = Len(own[u])
  BY <1>1, FS_Interval
<1> QED BY <1>1, <1>7, <1>8, FS_CardinalityType

LEMMA OwnPositions ==
  ASSUME EInv, strategy = "xid8", NEW u \in Units, NEW q \in InsertedBy(u)
  PROVE  /\ xid[u] * Scale \in Nat /\ q.position \in Nat
         /\ q.position >= xid[u] * Scale /\ q.position < xid[u] * Scale + Len(own[u])
         /\ q.position < (xid[u] + 1) * Scale /\ (xid[u] + 1) * Scale \in Nat
<1>1. own[u] \in Seq(Row) /\ Len(own[u]) \in Nat /\ DOMAIN own[u] = 1..Len(own[u])
  BY InsertedIs
<1>2. xid[u] \in Nat /\ Scale \in Nat /\ Scale = MaxEvents + 1 /\ MaxEvents \in Nat
  BY Constants DEF EInv, EventTypes, Scale
<1>3. xid[u] * Scale \in Nat /\ (xid[u] + 1) * Scale = xid[u] * Scale + Scale
  BY <1>2, Multiples
<1>4. PICK i \in 1..Len(own[u]) : own[u][i] = q
  BY <1>1 DEF InsertedBy, ToSet
<1>5. q.position = xid[u] * Scale + (i - 1) /\ Len(own[u]) <= MaxEvents
  BY <1>1, <1>4 DEF EInv, Transactions, Ordinals
<1>6. (xid[u] + 1) * Scale \in Nat
  BY ONLY <1>2, <1>3
<1>7. \A base, scale, max, len, k \in Nat :
        scale = max + 1 /\ len <= max /\ k \in 1..len
          => base + (k - 1) \in Nat /\ base + (k - 1) >= base /\ base + (k - 1) < base + len
             /\ base + (k - 1) < base + scale
  OBVIOUS
<1>8. i \in Nat /\ i \in 1..Len(own[u])
  BY ONLY <1>1, <1>4
<1> QED BY ONLY <1>1, <1>2, <1>3, <1>5, <1>6, <1>7, <1>8

LEMMA ReadsVersionKeeps ==
  ASSUME EInv, NEW u \in Units, NEW a \in Aggregates, ReadsVersion(u, a)
  PROVE  EInv'
<1> DEFINE n == Cardinality(RowsSeen(u, a))
<1>1. /\ writer[u] = "open" /\ Cardinality(Inserted) < MaxEvents /\ ~OutOfOrder(u, a) /\ TakesXid(u)
      /\ writer' = [writer EXCEPT ![u] = "checked"]
      /\ aim' = [aim EXCEPT ![u] = [aggregate |-> a, sequence |-> n + 1]]
      /\ UNCHANGED <<strategy, storeOf, table, head, backlog, round, own>>
  BY DEF ReadsVersion
<1>2. n \in Nat /\ (\A k \in Nat \ {0} : Has(SeenBy(u), a, k) <=> k <= n) /\ n + 1 \in 1..MaxEvents
  <2>1. SeenBy(u) \in SUBSET Row /\ SeenBy(u) \in SUBSET Inserted /\ IsFiniteSet(SeenBy(u)) /\ IsFiniteSet(Inserted)
    BY InsertedIs
  <2>2. UniqueKeys(SeenBy(u)) /\ Dense(SeenBy(u))
    BY DEF EInv, Sequenced, Continues
  <2>3. RowsSeen(u, a) = {r \in SeenBy(u) : r.aggregate = a}
    BY DEF RowsSeen, SeenBy
  <2>4. n \in Nat /\ \A k \in Nat \ {0} : Has(SeenBy(u), a, k) <=> k <= n
    BY <2>1, <2>2, <2>3, VersionIs
  <2>5. RowsSeen(u, a) \in SUBSET Inserted
    BY <2>1, <2>3
  <2>6. n <= Cardinality(Inserted) /\ Cardinality(Inserted) \in Nat
    BY <2>1, <2>5, FS_Subset, FS_CardinalityType
  <2> QED BY <1>1, <2>4, <2>6, Constants
<1>3. /\ xid' \in [Units -> Nat] /\ lastXid' \in Nat
      /\ \A v \in Units : v # u => xid'[v] = xid[v]
      /\ XidsKept' /\ (strategy = "xid8" => OwnXids' /\ xid'[u] # 0 /\ xid'[u] = Xid(u))
  <2>1. CASE strategy = "xid8"
    <3>1. OwnXids
      BY <2>1 DEF EInv, Transactions
    <3> QED BY <1>1, <2>1, <3>1, TakesXidIs DEF EInv
  <2>2. CASE strategy # "xid8"
    <3>1. xid' = xid /\ lastXid' = lastXid
      BY <1>1, <2>2 DEF TakesXid
    <3>2. XidsKept' /\ xid' \in [Units -> Nat] /\ lastXid' \in Nat
      BY <3>1 DEF EInv, EventTypes, XidsKept
    <3> QED BY <2>2, <3>1, <3>2
  <2> QED BY <2>1, <2>2
<1>4. aim \in [Units -> EventKeys] /\ writer \in [Units -> {"open", "checked", "ended"}]
  BY DEF EInv, EventTypes
<1>5. /\ aim'[u].aggregate = a /\ aim'[u].sequence = n + 1 /\ writer'[u] = "checked"
      /\ \A v \in Units : v # u => aim'[v] = aim[v] /\ writer'[v] = writer[v]
  BY <1>1, <1>4
<1> HIDE DEF n
<1>6. EventTypes'
  <2>1. aim' \in [Units -> EventKeys] /\ writer' \in [Units -> {"open", "checked", "ended"}]
    <3>1. [aggregate |-> a, sequence |-> n + 1] \in EventKeys
      BY <1>2, Constants DEF EventKeys
    <3> QED BY <1>1, <1>4, <3>1
  <2>2. \A v \in Units : writer'[v] = "checked" => aim'[v].aggregate \in Aggregates /\ aim'[v].sequence \in 1..MaxEvents
    BY <1>2, <1>5 DEF EInv, EventTypes
  <2> QED BY <1>1, <1>3, <2>1, <2>2 DEF EInv, EventTypes
<1>7. Finite'
  <2>1. Inserted' = Inserted /\ Ids' = Ids
    BY <1>1 DEF Inserted, InsertedBy, Ids
  <2> QED BY <2>1 DEF EInv, Finite
<1>8. InsertedBy(u)' = InsertedBy(u) /\ SeenBy(u)' = SeenBy(u)
  BY <1>1 DEF InsertedBy, SeenBy
<1>9. Continues(u)'
  <2>1. Continues(u)
    BY DEF EInv, Sequenced
  <2>2. \A k \in 1..(aim'[u].sequence - 1) : Has(SeenBy(u), aim'[u].aggregate, k)
    BY <1>2, <1>5
  <2>3. ~\E r \in SeenBy(u) : Key(r) = aim'[u]
    <3> SUFFICES ASSUME NEW r \in SeenBy(u), Key(r) = aim'[u] PROVE FALSE
      OBVIOUS
    <3>1. r.aggregate = a /\ r.sequence = n + 1
      BY <1>5 DEF Key
    <3>2. Has(SeenBy(u), a, n + 1)
      BY <3>1 DEF Has
    <3> QED BY <1>2, <3>2
  <2>4. ~SameKey(u, SeenBy(u))'
    BY <1>8, <2>3 DEF SameKey
  <2> QED BY <1>1, <1>5, <1>8, <2>1, <2>2, <2>4 DEF Continues
<1>10. Sequenced'
  <2>1. \A v \in Units : v # u => Continues(v)'
    BY <1>1, <1>5, ContinuesStays DEF EInv, Sequenced
  <2>2. OneWriter'
    BY <1>1 DEF EInv, Sequenced, OneWriter, InsertedBy
  <2>3. UniqueKeys(table)' /\ Dense(table)'
    BY <1>1 DEF EInv, Sequenced
  <2> QED BY <1>9, <2>1, <2>2, <2>3 DEF Sequenced
<1>11. Transactions'
  <2> SUFFICES ASSUME strategy = "xid8" PROVE Transactions'
    BY <1>1 DEF Transactions
  <2>1. \A v \in Units : v # u => Ordinals(v)'
    <3>1. \A v \in Units : Ordinals(v)
      BY DEF EInv, Transactions
    <3> QED BY <1>1, <1>3, <1>5, <3>1, OrdinalsStay
  <2>2. /\ \A i \in DOMAIN own[u] : own[u][i].position = xid'[u] * Scale + (i - 1)
        /\ \A p \in table : p.position < xid'[u] * Scale \/ p.position >= (xid'[u] + 1) * Scale
        /\ \A p \in table : p.position < (lastXid' + 1) * Scale
    BY <1>1, <1>5, TakesXidOrdinals
  <2>3. Len(own[u]) < MaxEvents /\ Len(own[u]) \in Nat /\ DOMAIN own[u] = 1..Len(own[u])
    BY <1>1, OwnCounted, InsertedIs, Constants
  <2>4. Rises(SeenBy(u))
    BY DEF EInv, Transactions, Ordinals
  <2>5. \A p \in SeenBy(u) : p.aggregate = a /\ p.sequence < n + 1 => p.position < xid'[u] * Scale + Len(own[u])
    <3> SUFFICES ASSUME NEW p \in SeenBy(u), p.aggregate = a, p.sequence < n + 1
                 PROVE  p.position < xid'[u] * Scale + Len(own[u])
      OBVIOUS
    <3>1. SeenBy(u) \in SUBSET Row
      BY InsertedIs
    <3>2. p.sequence \in Nat \ {0} /\ p.position \in Nat /\ n # 0
      BY <1>2, <3>1, RowIs
    <3>3. Has(SeenBy(u), a, n)
      BY <1>2, <3>2
    <3>4. PICK r \in SeenBy(u) : r.aggregate = a /\ r.sequence = n
      BY <3>3 DEF Has
    <3>5. r.position \in Nat /\ xid'[u] * Scale \in Nat
      BY <1>3, <3>1, RowIs, Constants
    <3>6. r.position < xid'[u] * Scale + Len(own[u])
      <4>1. CASE r \in table
        <5>1. r \in RowsSeen(u, a) /\ r.sequence = Cardinality(RowsSeen(u, a))
          BY <3>4, <4>1 DEF RowsSeen, n
        <5>2. ~(r.position >= (Xid(u) + 1) * Scale)
          BY <1>1, <5>1 DEF OutOfOrder
        <5>3. r.position < xid'[u] * Scale
          BY <1>3, <2>2, <4>1, <5>2
        <5> QED BY <2>3, <3>5, <5>3
      <4>2. CASE r \in InsertedBy(u)
        <5>1. PICK i \in 1..Len(own[u]) : own[u][i] = r
          BY <2>3, <4>2 DEF InsertedBy, ToSet
        <5>2. r.position = xid'[u] * Scale + (i - 1)
          BY <2>2, <2>3, <5>1
        <5> QED BY <2>3, <3>5, <5>2
      <4> QED BY <3>4, <4>1, <4>2 DEF SeenBy
    <3>7. p = r \/ p.position < r.position
      <4>1. CASE p.sequence = n
        <5>1. Key(p) = Key(r)
          BY <3>4, <4>1 DEF Key
        <5> QED BY <5>1 DEF EInv, Sequenced, Continues, UniqueKeys
      <4>2. CASE p.sequence < n
        BY <2>4, <3>4, <4>2 DEF Rises
      <4> QED BY <1>2, <3>2, <4>1, <4>2
    <3> QED BY <2>3, <3>2, <3>5, <3>6, <3>7
  <2>6. Ordinals(u)'
    <3>1. own' = own /\ table' = table /\ xid'[u] # 0 /\ Rises(SeenBy(u))'
      BY <1>1, <1>3, <1>8, <2>4 DEF Rises
    <3>2. \A i \in DOMAIN own'[u] : own'[u][i].position = xid'[u] * Scale + (i - 1)
      BY <2>2, <3>1
    <3>3. \A p \in SeenBy(u)' : p.aggregate = aim'[u].aggregate /\ p.sequence < aim'[u].sequence =>
                                   p.position < xid'[u] * Scale + Len(own'[u])
      BY <1>5, <1>8, <2>5, <3>1
    <3>4. Len(own'[u]) <= MaxEvents /\ Len(own'[u]) < MaxEvents
      BY <2>3, <3>1, Constants
    <3>5. \A p \in table' : p.position < xid'[u] * Scale \/ p.position >= (xid'[u] + 1) * Scale
      BY <2>2, <3>1
    <3> QED BY <3>1, <3>2, <3>3, <3>4, <3>5, Zenon DEF Ordinals
  <2> QED BY <1>1, <1>3, <2>1, <2>2, <2>6 DEF EInv, Transactions, Rises
<1>12. HeadRow'
  BY <1>1 DEF EInv, HeadRow
<1>13. ListsKept'
  BY <1>1, ListsStay DEF EInv
<1> QED BY <1>3, <1>6, <1>7, <1>10, <1>11, <1>12, <1>13 DEF EInv

\* The key that a checked append inserts, if it is not there, is nobody's.
LEMMA AimIsNew ==
  ASSUME EInv, NEW u \in Units, writer[u] = "checked", ~SameKey(u, table),
         \A v \in Units \ {u} : ~SameKey(u, InsertedBy(v))
  PROVE  /\ ~SameKey(u, SeenBy(u))
         /\ \A v \in Units \ {u} : \A q \in InsertedBy(v) : q.aggregate # aim[u].aggregate
<1> DEFINE a == aim[u].aggregate
           n == aim[u].sequence
<1>1. Continues(u) /\ OneWriter /\ aim[u] \in EventKeys /\ n \in 1..MaxEvents /\ a \in Aggregates
  BY DEF EInv, Sequenced, EventTypes
<1>2. \A p : Key(p) = aim[u] <=> p.aggregate = a /\ p.sequence = n
  BY <1>1 DEF Key, EventKeys
<1>3. ~SameKey(u, SeenBy(u))
  <2> SUFFICES ASSUME NEW q \in InsertedBy(u), Key(q) = aim[u] PROVE FALSE
    BY DEF SameKey, SeenBy
  <2>1. q.aggregate = a
    BY <1>2
  <2>2. ~SameKey(u, SeenBy(u))
    BY <1>1, <2>1 DEF Continues
  <2> QED BY <2>2 DEF SameKey, SeenBy
<1>4. ASSUME NEW v \in Units, v # u, NEW q \in InsertedBy(v), q.aggregate = a
      PROVE  FALSE
  <2>1. Continues(v) /\ q \in SeenBy(v) /\ SeenBy(v) \in SUBSET Row
    BY <1>4, InsertedIs DEF EInv, Sequenced, SeenBy
  <2>2. \A p \in InsertedBy(u) : p.aggregate # a
    BY <1>1, <1>4 DEF OneWriter
  <2>3. q.sequence \in Nat \ {0} /\ n \in Nat \ {0}
    BY <1>1, <2>1, RowIs, Constants
  <2>4. CASE q.sequence < n
    <3>1. q.sequence \in 1..(n - 1)
      BY <2>3, <2>4
    <3>2. Has(SeenBy(u), a, q.sequence)
      BY <1>1, <3>1 DEF Continues
    <3>3. PICK p \in SeenBy(u) : p.aggregate = a /\ p.sequence = q.sequence
      BY <3>2 DEF Has
    <3>4. p \in table
      BY <2>2, <3>3 DEF SeenBy
    <3>5. Key(p) = Key(q)
      BY <1>4, <3>3 DEF Key
    <3> QED BY <2>1, <3>4, <3>5 DEF Continues
  <2>5. CASE ~(q.sequence < n)
    <3>1. n \in 1..q.sequence
      BY <2>3, <2>5
    <3>2. Has(SeenBy(v), a, n)
      BY <1>4, <2>1, <3>1 DEF Continues, Dense
    <3>3. PICK p \in SeenBy(v) : p.aggregate = a /\ p.sequence = n
      BY <3>2 DEF Has
    <3>4. Key(p) = aim[u]
      BY <1>2, <3>3
    <3> QED BY <1>4, <3>3, <3>4 DEF SameKey, SeenBy
  <2> QED BY <2>4, <2>5
<1> QED BY <1>3, <1>4

LEMMA InsertsKeeps ==
  ASSUME EInv, NEW u \in Units, InsertsEvent(u)
  PROVE  EInv'
<1> DEFINE a == aim[u].aggregate
           n == aim[u].sequence
<1>1. /\ writer[u] = "checked" /\ \A v \in Units \ {u} : ~SameKey(u, InsertedBy(v))
      /\ writer' = [writer EXCEPT ![u] = "open"] /\ aim' = [aim EXCEPT ![u] = NoAim]
      /\ UNCHANGED <<strategy, storeOf, table, head, backlog, round, xid, lastXid>>
  BY DEF InsertsEvent
<1>2. /\ aim \in [Units -> EventKeys] /\ writer \in [Units -> {"open", "checked", "ended"}]
      /\ own \in [Units -> Seq(Row)] /\ a \in Aggregates /\ n \in 1..MaxEvents
  BY <1>1 DEF EInv, EventTypes
<1>3. /\ writer'[u] = "open" /\ \A v \in Units : v # u => aim'[v] = aim[v] /\ writer'[v] = writer[v]
      /\ writer' \in [Units -> {"open", "checked", "ended"}] /\ aim' \in [Units -> EventKeys]
  <2>1. NoAim \in EventKeys
    BY DEF NoAim, EventKeys
  <2> QED BY <1>1, <1>2, <2>1
<1>4. Ids' = Ids /\ XidsKept' /\ (strategy = "xid8" => OwnXids /\ OwnXids')
  BY <1>1 DEF Ids, EInv, XidsKept, OwnXids, Transactions
<1>5. ListsKept'
  BY <1>1, ListsStay DEF EInv
<1>6. CASE own' = own
  <2>1. EventTypes'
    BY <1>1, <1>3, <1>6 DEF EInv, EventTypes
  <2>2. Finite'
    <3>1. Inserted' = Inserted
      BY <1>1, <1>6 DEF Inserted, InsertedBy
    <3> QED BY <1>4, <3>1 DEF EInv, Finite
  <2>3. InsertedBy(u)' = InsertedBy(u) /\ SeenBy(u)' = SeenBy(u)
    BY <1>1, <1>6 DEF InsertedBy, SeenBy
  <2>4. Sequenced'
    <3>1. \A v \in Units : v # u => Continues(v)'
      BY <1>1, <1>3, <1>6, ContinuesStays DEF EInv, Sequenced
    <3>2. OneWriter' /\ UniqueKeys(table)' /\ Dense(table)'
      BY <1>1, <1>6 DEF EInv, Sequenced, OneWriter, InsertedBy
    <3>3. Continues(u)
      BY DEF EInv, Sequenced
    <3>4. Continues(u)'
      BY <1>1, <1>3, <1>6, <2>3, <3>3 DEF Continues
    <3> QED BY <3>1, <3>2, <3>4 DEF Sequenced
  <2>5. Transactions'
    <3> SUFFICES ASSUME strategy = "xid8" PROVE Transactions'
      BY <1>1 DEF Transactions
    <3>1. \A v \in Units : Ordinals(v)
      BY DEF EInv, Transactions
    <3>2. \A v \in Units : v # u => Ordinals(v)'
      BY <1>1, <1>3, <1>6, <3>1, OrdinalsStay
    <3>3. Ordinals(u)'
      BY <1>1, <1>3, <1>6, <2>3, <3>1 DEF Ordinals
    <3> QED BY <1>1, <1>4, <3>2, <3>3 DEF EInv, Transactions, Rises
  <2>6. HeadRow'
    BY <1>1, <1>6 DEF EInv, HeadRow
  <2> QED BY <1>4, <1>5, <2>1, <2>2, <2>4, <2>5, <2>6 DEF EInv
<1>7. CASE own' # own
  <2>1. ~SameKey(u, table)
    BY <1>1, <1>7 DEF InsertsEvent
  <2>2. PICK now \in Times :
          own' = [own EXCEPT ![u] = Append(@,
                   [aggregate |-> a, sequence |-> n, recorded |-> now,
                    position |-> IF strategy = "xid8" THEN xid[u] * Scale + Len(own[u]) ELSE 0])]
    BY <2>1 DEF InsertsEvent
  <2> DEFINE r == [aggregate |-> a, sequence |-> n, recorded |-> now,
                   position |-> IF strategy = "xid8" THEN xid[u] * Scale + Len(own[u]) ELSE 0]
  <2>3. r \in Row /\ r.aggregate = a /\ r.sequence = n
        /\ r.position = (IF strategy = "xid8" THEN xid[u] * Scale + Len(own[u]) ELSE 0)
    <3>1. xid[u] \in Nat /\ Len(own[u]) \in Nat /\ Scale \in Nat
      BY InsertedIs, Constants DEF EInv, EventTypes
    <3>2. xid[u] * Scale \in Nat
      BY <3>1
    <3>3. r.position \in Nat
      BY <3>1, <3>2
    <3>4. now \in Nat
      BY Constants
    <3> QED BY <1>2, <3>3, <3>4 DEF Row
  <2>4. own' = [own EXCEPT ![u] = Append(@, r)]
    BY <2>2
  <2>5. Key(r) = aim[u]
    BY <1>2, <2>3 DEF Key, EventKeys
  <2> HIDE DEF r
  <2>6. /\ own' \in [Units -> Seq(Row)] /\ own'[u] = Append(own[u], r)
        /\ \A v \in Units : v # u => own'[v] = own[v]
    BY <1>2, <2>3, <2>4
  <2>7. own[u] \in Seq(Row) /\ Len(own[u]) \in Nat /\ DOMAIN own[u] = 1..Len(own[u])
    BY InsertedIs
  <2>8. /\ Len(own'[u]) = Len(own[u]) + 1 /\ DOMAIN own'[u] = 1..(Len(own[u]) + 1)
        /\ \A i \in 1..Len(own[u]) : own'[u][i] = own[u][i]
        /\ own'[u][Len(own[u]) + 1] = r
    BY <2>3, <2>6, <2>7
  <2>9. InsertedBy(u)' = InsertedBy(u) \cup {r} /\ SeenBy(u)' = SeenBy(u) \cup {r}
    <3>1. \A x : x \in InsertedBy(u)' <=> x \in InsertedBy(u) \/ x = r
      <4>1. \A x : x \in InsertedBy(u)' <=> \E i \in 1..(Len(own[u]) + 1) : own'[u][i] = x
        BY <2>8 DEF InsertedBy, ToSet
      <4>2. \A x : x \in InsertedBy(u) <=> \E i \in 1..Len(own[u]) : own[u][i] = x
        BY <2>7 DEF InsertedBy, ToSet
      <4>3. \A i : i \in 1..(Len(own[u]) + 1) <=> i \in 1..Len(own[u]) \/ i = Len(own[u]) + 1
        BY ONLY <2>7
      <4> QED BY ONLY <2>8, <4>1, <4>2, <4>3
    <3>2. InsertedBy(u)' = InsertedBy(u) \cup {r}
      BY <3>1
    <3> QED BY <1>1, <3>2 DEF SeenBy
  <2>10. \A v \in Units : v # u => InsertedBy(v)' = InsertedBy(v)
    BY <2>6 DEF InsertedBy
  <2>11. /\ ~SameKey(u, SeenBy(u))
         /\ \A v \in Units \ {u} : \A q \in InsertedBy(v) : q.aggregate # a
    BY <1>1, <2>1, AimIsNew
  <2>12. EventTypes'
    BY <1>1, <1>3, <2>6 DEF EInv, EventTypes
  <2>13. Finite'
    <3>1. Inserted' = Inserted \cup {r}
      <4>1. \A x : (\E v \in Units : x \in InsertedBy(v)') <=> (\E v \in Units : x \in InsertedBy(v)) \/ x = r
        BY <2>9, <2>10
      <4> QED BY <1>1, <4>1 DEF Inserted
    <3>2. IsFiniteSet(Inserted')
      BY <3>1, FS_AddElement DEF EInv, Finite
    <3> QED BY <1>4, <3>2 DEF EInv, Finite
  <2>14. Continues(u) /\ SeenBy(u) \in SUBSET Row
    BY InsertedIs DEF EInv, Sequenced
  <2>15. Continues(u)'
    <3>1. UniqueKeys(SeenBy(u) \cup {r})
      BY <2>5, <2>11, <2>14 DEF Continues, UniqueKeys, SameKey
    <3>2. Dense(SeenBy(u) \cup {r})
      <4> SUFFICES ASSUME NEW p \in SeenBy(u) \cup {r}, NEW k \in 1..p.sequence
                   PROVE  Has(SeenBy(u) \cup {r}, p.aggregate, k)
        BY DEF Dense
      <4>1. CASE p \in SeenBy(u)
        <5>1. Has(SeenBy(u), p.aggregate, k)
          BY <2>14, <4>1 DEF Continues, Dense
        <5> QED BY <5>1 DEF Has
      <4>2. CASE p = r
        <5>1. k = n \/ k \in 1..(n - 1)
          BY <1>2, <2>3, <4>2, Constants
        <5>2. CASE k = n
          BY <2>3, <4>2, <5>2 DEF Has
        <5>3. CASE k \in 1..(n - 1)
          <6>1. Has(SeenBy(u), a, k)
            BY <1>1, <2>14, <5>3 DEF Continues
          <6> QED BY <2>3, <4>2, <6>1 DEF Has
        <5> QED BY <5>1, <5>2, <5>3
      <4> QED BY <4>1, <4>2
    <3>3. \A p \in table, q \in InsertedBy(u) \cup {r} : Key(p) # Key(q)
      <4>1. \A p \in table : Key(p) # Key(r)
        BY <2>1, <2>5 DEF SameKey
      <4> QED BY <2>14, <4>1 DEF Continues
    <3> QED BY <1>1, <1>3, <2>9, <3>1, <3>2, <3>3 DEF Continues
  <2>16. Sequenced'
    <3>1. \A v \in Units : v # u => Continues(v)'
      BY <1>1, <1>3, <2>6, ContinuesStays DEF EInv, Sequenced
    <3>2. OneWriter'
      <4> SUFFICES ASSUME NEW v \in Units, NEW w \in Units, v # w,
                          NEW p \in InsertedBy(v)', NEW q \in InsertedBy(w)'
                   PROVE  p.aggregate # q.aggregate
        BY DEF OneWriter
      <4>1. CASE v # u /\ w # u
        BY <2>10, <4>1 DEF EInv, Sequenced, OneWriter
      <4>2. CASE v = u
        BY <2>3, <2>9, <2>10, <2>11, <4>2 DEF EInv, Sequenced, OneWriter
      <4>3. CASE w = u
        BY <2>3, <2>9, <2>10, <2>11, <4>3 DEF EInv, Sequenced, OneWriter
      <4> QED BY <4>1, <4>2, <4>3
    <3>3. UniqueKeys(table)' /\ Dense(table)'
      BY <1>1 DEF EInv, Sequenced
    <3> QED BY <2>15, <3>1, <3>2, <3>3 DEF Sequenced
  <2>17. Transactions'
    <3> SUFFICES ASSUME strategy = "xid8" PROVE Transactions'
      BY <1>1 DEF Transactions
    <3>1. \A v \in Units : Ordinals(v)
      BY DEF EInv, Transactions
    <3>2. \A v \in Units : v # u => Ordinals(v)'
      BY <1>1, <1>3, <2>6, <3>1, OrdinalsStay
    <3>3. r.position = xid[u] * Scale + Len(own[u])
      BY <2>3
    <3>4. \A i \in DOMAIN own'[u] : own'[u][i].position = xid'[u] * Scale + (i - 1)
      <4> SUFFICES ASSUME NEW i \in 1..(Len(own[u]) + 1) PROVE own'[u][i].position = xid[u] * Scale + (i - 1)
        BY <1>1, <2>8
      <4>1. CASE i \in 1..Len(own[u])
        BY <2>7, <2>8, <3>1, <4>1 DEF Ordinals
      <4>2. CASE i = Len(own[u]) + 1
        <5>1. i - 1 = Len(own[u])
          BY <2>7, <4>2
        <5> QED BY <2>8, <3>3, <4>2, <5>1
      <4> QED BY <2>7, <4>1, <4>2
    <3>5. Rises(SeenBy(u) \cup {r})
      <4> SUFFICES ASSUME NEW p \in SeenBy(u) \cup {r}, NEW q \in SeenBy(u) \cup {r},
                          p.aggregate = q.aggregate, p.sequence < q.sequence
                   PROVE  p.position < q.position
        BY DEF Rises
      <4>1. CASE p \in SeenBy(u) /\ q \in SeenBy(u)
        BY <3>1, <4>1 DEF Ordinals, Rises
      <4>2. CASE p \in SeenBy(u) /\ q = r
        BY <1>1, <2>3, <3>1, <3>3, <4>2 DEF Ordinals
      <4>3. CASE p = r /\ q \in SeenBy(u)
        <5>1. n \in 1..q.sequence
          BY <1>2, <2>3, <2>14, <4>3, RowIs, Constants
        <5>2. Has(SeenBy(u), a, n)
          BY <2>3, <2>14, <4>3, <5>1 DEF Continues, Dense
        <5>3. PICK x \in SeenBy(u) : x.aggregate = a /\ x.sequence = n
          BY <5>2 DEF Has
        <5>4. Key(x) = aim[u]
          BY <2>3, <2>5, <5>3 DEF Key
        <5> QED BY <2>11, <5>4 DEF SameKey
      <4>4. CASE p = r /\ q = r
        BY <1>2, <2>3, <4>4, Constants
      <4> QED BY <4>1, <4>2, <4>3, <4>4
    <3>6. Ordinals(u)'
      <4>1. Len(own'[u]) <= MaxEvents
        BY <1>1, <2>7, <2>8, <3>1, Constants DEF Ordinals
      <4>2. xid'[u] # 0 /\ \A p \in table' : p.position < xid'[u] * Scale \/ p.position >= (xid'[u] + 1) * Scale
        BY <1>1, <3>1 DEF Ordinals
      <4>3. Rises(SeenBy(u))'
        BY <2>9, <3>5
      <4> QED BY <1>3, <3>4, <4>1, <4>2, <4>3 DEF Ordinals
    <3> QED BY <1>1, <1>4, <3>2, <3>6 DEF EInv, Transactions, Rises
  <2>18. HeadRow'
    <3> SUFFICES ASSUME strategy = "head-row" PROVE HeadRow'
      BY <1>1 DEF HeadRow
    <3>1. \A v \in Units : \A i \in DOMAIN own'[v] : own'[v][i].position = 0
      <4> SUFFICES ASSUME NEW v \in Units, NEW i \in DOMAIN own'[v] PROVE own'[v][i].position = 0
        OBVIOUS
      <4>1. CASE v # u
        BY <2>6, <4>1 DEF EInv, HeadRow
      <4>2. CASE v = u
        <5>1. CASE i \in 1..Len(own[u])
          BY <2>7, <2>8, <4>2, <5>1 DEF EInv, HeadRow
        <5>2. CASE i = Len(own[u]) + 1
          BY <2>3, <2>8, <4>2, <5>2
        <5> QED BY <2>7, <2>8, <4>2, <5>1, <5>2
      <4> QED BY <4>1, <4>2
    <3> QED BY <1>1, <3>1 DEF EInv, HeadRow
  <2> QED BY <1>4, <1>5, <2>12, <2>13, <2>16, <2>17, <2>18 DEF EInv
<1> QED BY <1>6, <1>7

LEMMA EndsWriterIs ==
  ASSUME EInv, NEW u \in Units, EndsWriter(u)
  PROVE  /\ UNCHANGED <<strategy, storeOf, head, backlog, round, xid, lastXid>>
         /\ own' \in [Units -> Seq(Row)] /\ own'[u] = <<>> /\ writer'[u] = "ended"
         /\ writer' \in [Units -> {"open", "checked", "ended"}] /\ aim' \in [Units -> EventKeys]
         /\ \A v \in Units : v # u => own'[v] = own[v] /\ writer'[v] = writer[v] /\ aim'[v] = aim[v]
         /\ InsertedBy(u)' = {} /\ \A v \in Units : v # u => InsertedBy(v)' = InsertedBy(v)
         /\ Ids' = Ids /\ XidsKept' /\ (strategy = "xid8" => OwnXids')
<1>1. /\ writer' = [writer EXCEPT ![u] = "ended"] /\ own' = [own EXCEPT ![u] = <<>>]
      /\ aim' = [aim EXCEPT ![u] = NoAim] /\ UNCHANGED <<strategy, storeOf, head, backlog, round, xid, lastXid>>
  BY DEF EndsWriter
<1>2. /\ aim \in [Units -> EventKeys] /\ writer \in [Units -> {"open", "checked", "ended"}]
      /\ own \in [Units -> Seq(Row)]
  BY DEF EInv, EventTypes
<1>3. NoAim \in EventKeys /\ <<>> \in Seq(Row)
  BY DEF NoAim, EventKeys
<1>4. /\ own' \in [Units -> Seq(Row)] /\ own'[u] = <<>> /\ writer'[u] = "ended"
      /\ writer' \in [Units -> {"open", "checked", "ended"}] /\ aim' \in [Units -> EventKeys]
      /\ \A v \in Units : v # u => own'[v] = own[v] /\ writer'[v] = writer[v] /\ aim'[v] = aim[v]
  BY <1>1, <1>2, <1>3
<1>5. InsertedBy(u)' = {} /\ \A v \in Units : v # u => InsertedBy(v)' = InsertedBy(v)
  BY <1>4 DEF InsertedBy, ToSet
<1>6. Ids' = Ids /\ XidsKept' /\ (strategy = "xid8" => OwnXids')
  BY <1>1 DEF Ids, EInv, XidsKept, OwnXids, Transactions
<1> QED BY <1>1, <1>4, <1>5, <1>6

LEMMA AbandonsKeeps ==
  ASSUME EInv, NEW u \in Units, AbandonsEvents(u)
  PROVE  EInv'
<1>1. EndsWriter(u) /\ table' = table
  BY DEF AbandonsEvents
<1>2. /\ UNCHANGED <<strategy, storeOf, head, backlog, round, xid, lastXid>>
      /\ own' \in [Units -> Seq(Row)] /\ own'[u] = <<>> /\ writer'[u] = "ended"
      /\ writer' \in [Units -> {"open", "checked", "ended"}] /\ aim' \in [Units -> EventKeys]
      /\ \A v \in Units : v # u => own'[v] = own[v] /\ writer'[v] = writer[v] /\ aim'[v] = aim[v]
      /\ InsertedBy(u)' = {} /\ \A v \in Units : v # u => InsertedBy(v)' = InsertedBy(v)
      /\ Ids' = Ids /\ XidsKept' /\ (strategy = "xid8" => OwnXids')
  BY <1>1, EndsWriterIs
<1>3. SeenBy(u)' = table
  BY <1>1, <1>2 DEF SeenBy
<1>4. EventTypes'
  <2>1. \A v \in Units : writer'[v] = "checked" => aim'[v].aggregate \in Aggregates /\ aim'[v].sequence \in 1..MaxEvents
    BY <1>2 DEF EInv, EventTypes
  <2> QED BY <1>1, <1>2, <2>1 DEF EInv, EventTypes
<1>5. Finite'
  <2>1. Inserted' \in SUBSET Inserted
    <3>1. \A v \in Units : InsertedBy(v)' \in SUBSET InsertedBy(v)
      BY <1>2
    <3>2. \A p : p \in Inserted <=> p \in table \/ \E v \in Units : p \in InsertedBy(v)
      BY DEF Inserted
    <3>3. \A p : p \in Inserted' <=> p \in table' \/ \E v \in Units : p \in InsertedBy(v)'
      BY DEF Inserted
    <3> QED BY ONLY <1>1, <3>1, <3>2, <3>3
  <2>2. IsFiniteSet(Inserted')
    BY <2>1, FS_Subset DEF EInv, Finite
  <2> QED BY <1>2, <2>2 DEF EInv, Finite
<1>6. Sequenced'
  <2>1. \A v \in Units : v # u => Continues(v)'
    BY <1>1, <1>2, ContinuesStays DEF EInv, Sequenced
  <2>2. OneWriter'
    <3>1. \A v \in Units : \A q : q \in InsertedBy(v)' => q \in InsertedBy(v)
      BY <1>2
    <3> QED BY <3>1 DEF EInv, Sequenced, OneWriter
  <2>3. UniqueKeys(table)' /\ Dense(table)' /\ UniqueKeys(table) /\ Dense(table)
    BY <1>1 DEF EInv, Sequenced
  <2>4. Continues(u)'
    BY <1>2, <1>3, <2>3 DEF Continues
  <2> QED BY <2>1, <2>2, <2>3, <2>4 DEF Sequenced
<1>7. Transactions'
  <2> SUFFICES ASSUME strategy = "xid8" PROVE Transactions'
    BY <1>2 DEF Transactions
  <2>1. \A v \in Units : v # u => Ordinals(v)'
    <3>1. \A v \in Units : Ordinals(v)
      BY DEF EInv, Transactions
    <3> QED BY <1>1, <1>2, <3>1, OrdinalsStay
  <2>2. Rises(table)
    BY DEF EInv, Transactions
  <2>3. Ordinals(u)'
    BY <1>2, <1>3, <2>2, Constants DEF Ordinals
  <2> QED BY <1>1, <1>2, <2>1, <2>2, <2>3 DEF EInv, Transactions
<1>8. HeadRow'
  <2>1. \A v \in Units : v # u => own'[v] = own[v]
    BY <1>2
  <2> QED BY <1>1, <1>2 DEF EInv, HeadRow
<1>9. ListsKept'
  BY <1>1, <1>2, ListsStay DEF EInv
<1> QED BY <1>2, <1>4, <1>5, <1>6, <1>7, <1>8, <1>9 DEF EInv

LEMMA CommitsKeeps ==
  ASSUME EInv, NEW u \in Units, CommitsEvents(u)
  PROVE  EInv'
<1>1. EndsWriter(u) /\ table' = SeenBy(u) /\ own[u] # <<>> /\ writer[u] = "open"
  BY DEF CommitsEvents, SeenBy
<1>2. /\ UNCHANGED <<strategy, storeOf, head, backlog, round, xid, lastXid>>
      /\ own' \in [Units -> Seq(Row)] /\ own'[u] = <<>> /\ writer'[u] = "ended"
      /\ writer' \in [Units -> {"open", "checked", "ended"}] /\ aim' \in [Units -> EventKeys]
      /\ \A v \in Units : v # u => own'[v] = own[v] /\ writer'[v] = writer[v] /\ aim'[v] = aim[v]
      /\ InsertedBy(u)' = {} /\ \A v \in Units : v # u => InsertedBy(v)' = InsertedBy(v)
      /\ Ids' = Ids /\ XidsKept' /\ (strategy = "xid8" => OwnXids')
  BY <1>1, EndsWriterIs
<1>3. SeenBy(u)' = SeenBy(u) /\ \A v \in Units : v # u => SeenBy(v)' = SeenBy(u) \cup SeenBy(v)
  BY <1>1, <1>2 DEF SeenBy
<1>4. /\ \A v \in Units : Continues(v) /\ SeenBy(v) \in SUBSET Row /\ SeenBy(v) = table \cup InsertedBy(v)
      /\ OneWriter /\ UniqueKeys(table) /\ Dense(table)
  BY InsertedIs DEF EInv, Sequenced, SeenBy
<1>5. EventTypes'
  <2>1. \A v \in Units : writer'[v] = "checked" => aim'[v].aggregate \in Aggregates /\ aim'[v].sequence \in 1..MaxEvents
    BY <1>2 DEF EInv, EventTypes
  <2> QED BY <1>1, <1>2, <1>4, <2>1 DEF EInv, EventTypes
<1>6. Finite'
  <2>1. Inserted' \in SUBSET Inserted
    BY <1>1, <1>2 DEF Inserted, SeenBy
  <2>2. IsFiniteSet(Inserted')
    BY <2>1, FS_Subset DEF EInv, Finite
  <2> QED BY <1>2, <2>2 DEF EInv, Finite
\* No row of the unit is at a place in an aggregate that another row has.
<1>7. ASSUME NEW v \in Units, v # u, NEW q \in InsertedBy(u), Has(SeenBy(v), q.aggregate, q.sequence)
      PROVE  FALSE
  <2>1. PICK p \in SeenBy(v) : p.aggregate = q.aggregate /\ p.sequence = q.sequence
    BY <1>7 DEF Has
  <2>2. CASE p \in table
    BY <1>4, <2>1, <2>2, SameKeyIs DEF Continues
  <2>3. CASE p \in InsertedBy(v)
    BY <1>4, <1>7, <2>1, <2>3 DEF OneWriter
  <2> QED BY <1>4, <2>1, <2>2, <2>3
<1>8. ASSUME NEW p \in table, NEW q \in InsertedBy(u), q.aggregate = p.aggregate, ~(p.sequence < q.sequence)
      PROVE  FALSE
  <2>1. p \in Row /\ q \in Row
    BY <1>4
  <2>2. q.sequence \in 1..p.sequence
    BY <1>8, <2>1, RowIs
  <2>3. Has(table, p.aggregate, q.sequence)
    BY <1>4, <2>2 DEF Dense
  <2>4. PICK x \in table : x.aggregate = q.aggregate /\ x.sequence = q.sequence
    BY <1>8, <2>3 DEF Has
  <2> QED BY <1>4, <2>4, SameKeyIs DEF Continues
<1>9. Sequenced'
  <2>1. UniqueKeys(SeenBy(u)) /\ Dense(SeenBy(u))
    BY <1>4 DEF Continues
  <2>2. OneWriter'
    BY <1>2, <1>4 DEF OneWriter
  <2>3. Continues(u)'
    BY <1>2, <1>3, <2>1 DEF Continues
  <2>4. ASSUME NEW v \in Units, v # u
        PROVE  Continues(v)'
    <3>1. UniqueKeys(SeenBy(u) \cup SeenBy(v))
      <4> SUFFICES ASSUME NEW p \in SeenBy(u) \cup SeenBy(v), NEW q \in SeenBy(u) \cup SeenBy(v), Key(p) = Key(q)
                   PROVE  p = q
        BY DEF UniqueKeys
      <4>1. p.aggregate = q.aggregate
        BY SameKeyIs
      <4>2. CASE p \in SeenBy(u) /\ q \in SeenBy(u)
        BY <2>1, <4>2 DEF UniqueKeys
      <4>3. CASE p \in SeenBy(v) /\ q \in SeenBy(v)
        BY <1>4, <4>3 DEF Continues, UniqueKeys
      <4>4. CASE p \in InsertedBy(u) /\ q \in InsertedBy(v)
        BY <1>4, <2>4, <4>1, <4>4 DEF OneWriter
      <4>5. CASE p \in InsertedBy(v) /\ q \in InsertedBy(u)
        BY <1>4, <2>4, <4>1, <4>5 DEF OneWriter
      <4> QED BY <1>4, <4>2, <4>3, <4>4, <4>5
    <3>2. Dense(SeenBy(u) \cup SeenBy(v))
      <4>1. \A a, k : Has(SeenBy(u), a, k) \/ Has(SeenBy(v), a, k) => Has(SeenBy(u) \cup SeenBy(v), a, k)
        BY DEF Has
      <4> QED BY <1>4, <4>1 DEF Continues, Dense
    <3>3. \A p \in SeenBy(u), q \in InsertedBy(v) : Key(p) # Key(q)
      <4> SUFFICES ASSUME NEW p \in SeenBy(u), NEW q \in InsertedBy(v), Key(p) = Key(q) PROVE FALSE
        OBVIOUS
      <4>1. CASE p \in table
        BY <1>4, <4>1 DEF Continues
      <4>2. CASE p \in InsertedBy(u)
        BY <1>4, <2>4, <4>2, SameKeyIs DEF OneWriter
      <4> QED BY <1>4, <4>1, <4>2
    <3>4. ASSUME writer[v] = "checked"
          PROVE  /\ \A k \in 1..(aim[v].sequence - 1) : Has(SeenBy(u) \cup SeenBy(v), aim[v].aggregate, k)
                 /\ (\E q \in InsertedBy(v) : q.aggregate = aim[v].aggregate) =>
                      ~\E x \in SeenBy(u) \cup SeenBy(v) : Key(x) = aim[v]
      <4>1. \A k \in 1..(aim[v].sequence - 1) : Has(SeenBy(v), aim[v].aggregate, k)
        BY <1>4, <3>4 DEF Continues
      <4>2. \A a, k : Has(SeenBy(v), a, k) => Has(SeenBy(u) \cup SeenBy(v), a, k)
        BY DEF Has
      <4>3. ASSUME NEW q \in InsertedBy(v), q.aggregate = aim[v].aggregate, NEW x \in SeenBy(u) \cup SeenBy(v),
                   Key(x) = aim[v]
            PROVE  FALSE
        <5>1. ~\E y \in SeenBy(v) : Key(y) = aim[v]
          BY <1>4, <3>4, <4>3 DEF Continues, SameKey
        <5>2. x \in InsertedBy(u)
          BY <1>4, <4>3, <5>1
        <5>3. x.aggregate = aim[v].aggregate
          BY <4>3 DEF Key
        <5> QED BY <1>4, <2>4, <4>3, <5>2, <5>3 DEF OneWriter
      <4> QED BY <4>1, <4>2, <4>3
    <3>5. /\ InsertedBy(v)' = InsertedBy(v) /\ SeenBy(v)' = SeenBy(u) \cup SeenBy(v) /\ own'[v] = own[v]
          /\ writer'[v] = writer[v] /\ aim'[v] = aim[v] /\ table' = SeenBy(u)
      BY <1>1, <1>2, <1>3, <2>4
    <3>6. writer[v] = "ended" => own[v] = <<>>
      BY <1>4 DEF Continues
    <3> QED BY <3>1, <3>2, <3>3, <3>4, <3>5, <3>6 DEF Continues, SameKey
  <2> QED BY <1>1, <2>1, <2>2, <2>3, <2>4 DEF Sequenced
<1>10. Transactions'
  <2> SUFFICES ASSUME strategy = "xid8" PROVE Transactions'
    BY <1>2 DEF Transactions
  <2>1. /\ OwnXids /\ Rises(table) /\ \A v \in Units : Ordinals(v)
        /\ \A p, q \in table : p.position = q.position => p = q
        /\ \A p \in table : p.position < (lastXid + 1) * Scale
    BY DEF EInv, Transactions
  <2>2. \A v \in Units : xid[v] \in Nat /\ xid[v] <= lastXid /\ lastXid \in Nat
    BY DEF EInv, EventTypes, XidsKept
  <2>3. ASSUME NEW v \in Units, NEW q \in InsertedBy(v)
        PROVE  /\ q.position \in Nat /\ xid[v] * Scale \in Nat /\ (xid[v] + 1) * Scale \in Nat
               /\ q.position >= xid[v] * Scale /\ q.position < (xid[v] + 1) * Scale
    BY OwnPositions
  <2>4. xid[u] # 0
    BY <1>1, <2>1 DEF Ordinals
  <2>5. \A p \in table : p.position \in Nat /\ (p.position < xid[u] * Scale \/ p.position >= (xid[u] + 1) * Scale)
    <3>1. \A p \in table : p.position < xid[u] * Scale \/ p.position >= (xid[u] + 1) * Scale
      BY <1>1, <2>1, <2>4 DEF Ordinals
    <3> QED BY <1>4, <3>1, RowIs
  <2>6. \A p, q \in SeenBy(u) : p.position = q.position => p = q
    <3> SUFFICES ASSUME NEW p \in SeenBy(u), NEW q \in SeenBy(u), p.position = q.position PROVE p = q
      OBVIOUS
    <3>1. CASE p \in table /\ q \in table
      BY <2>1, <3>1
    <3>2. CASE p \in InsertedBy(u) /\ q \in InsertedBy(u)
      <4>1. PICK i \in DOMAIN own[u] : own[u][i] = p
        BY <3>2 DEF InsertedBy, ToSet
      <4>2. PICK j \in DOMAIN own[u] : own[u][j] = q
        BY <3>2 DEF InsertedBy, ToSet
      <4>3. xid[u] * Scale + (i - 1) = xid[u] * Scale + (j - 1)
        BY <2>1, <4>1, <4>2 DEF Ordinals
      <4>4. i \in Nat /\ j \in Nat /\ xid[u] * Scale \in Nat
        BY <2>3, <3>2, InsertedIs
      <4>5. i = j
        BY <4>3, <4>4
      <4> QED BY <4>1, <4>2, <4>5
    <3>3. CASE p \in table /\ q \in InsertedBy(u)
      BY <2>3, <2>5, <3>3
    <3>4. CASE p \in InsertedBy(u) /\ q \in table
      BY <2>3, <2>5, <3>4
    <3> QED BY <1>4, <3>1, <3>2, <3>3, <3>4
  <2>7. \A p \in SeenBy(u) : p.position < (lastXid + 1) * Scale
    <3> SUFFICES ASSUME NEW p \in InsertedBy(u) PROVE p.position < (lastXid + 1) * Scale
      BY <1>4, <2>1
    <3>1. (xid[u] + 1) * Scale <= (lastXid + 1) * Scale /\ (lastXid + 1) * Scale \in Nat
      <4>1. xid[u] < lastXid + 1 /\ xid[u] \in Nat /\ lastXid + 1 \in Nat
        BY <2>2
      <4> QED BY <4>1, Multiples
    <3> QED BY <2>3, <3>1
  <2>8. Rises(SeenBy(u))
    BY <2>1 DEF Ordinals
  <2>9. Ordinals(u)'
    BY <1>2, <1>3, <2>8, Constants DEF Ordinals
  <2>10. ASSUME NEW v \in Units, v # u
         PROVE  Ordinals(v)'
    <3>1. ASSUME writer[v] # "ended", xid[v] # 0, NEW p \in SeenBy(u)
          PROVE  p.position < xid[v] * Scale \/ p.position >= (xid[v] + 1) * Scale
      <4>1. CASE p \in table
        BY <2>1, <3>1, <4>1 DEF Ordinals
      <4>2. CASE p \in InsertedBy(u)
        <5>1. xid[u] # xid[v]
          BY <2>1, <2>10, <3>1 DEF OwnXids
        <5>2. CASE xid[u] < xid[v]
          <6>1. (xid[u] + 1) * Scale <= xid[v] * Scale /\ xid[v] * Scale \in Nat
            BY <2>2, <5>2, Multiples
          <6> QED BY <2>3, <4>2, <6>1
        <5>3. CASE xid[v] < xid[u]
          <6>1. (xid[v] + 1) * Scale <= xid[u] * Scale /\ (xid[v] + 1) * Scale \in Nat
            <7>1. xid[v] + 1 \in Nat
              BY <2>2
            <7> QED BY <2>2, <5>3, <7>1, Multiples, Constants
          <6> QED BY <2>3, <4>2, <6>1
        <5> QED BY <2>2, <5>1, <5>2, <5>3
      <4> QED BY <1>4, <4>1, <4>2
    <3>2. Rises(SeenBy(u) \cup SeenBy(v))
      <4> SUFFICES ASSUME NEW p \in SeenBy(u) \cup SeenBy(v), NEW q \in SeenBy(u) \cup SeenBy(v),
                          p.aggregate = q.aggregate, p.sequence < q.sequence
                   PROVE  p.position < q.position
        BY DEF Rises
      <4>1. CASE p \in SeenBy(u) /\ q \in SeenBy(u)
        BY <2>8, <4>1 DEF Rises
      <4>2. CASE p \in SeenBy(v) /\ q \in SeenBy(v)
        BY <2>1, <4>2 DEF Ordinals, Rises
      <4>3. CASE p \in InsertedBy(u) /\ q \in InsertedBy(v)
        BY <1>4, <2>10, <4>3 DEF OneWriter
      <4>4. CASE p \in InsertedBy(v) /\ q \in InsertedBy(u)
        BY <1>4, <2>10, <4>4 DEF OneWriter
      <4> QED BY <1>4, <4>1, <4>2, <4>3, <4>4
    <3>3. ASSUME writer[v] = "checked", NEW p \in SeenBy(u) \cup SeenBy(v),
                 p.aggregate = aim[v].aggregate, p.sequence < aim[v].sequence
          PROVE  p.position < xid[v] * Scale + Len(own[v])
      <4>1. CASE p \in SeenBy(v)
        BY <2>1, <3>3, <4>1 DEF Ordinals
      <4>2. CASE p \in InsertedBy(u)
        <5>1. p.sequence \in 1..(aim[v].sequence - 1)
          <6>1. aim[v].sequence \in Nat
            BY DEF EInv, EventTypes, EventKeys
          <6> QED BY <1>4, <3>3, <4>2, <6>1, RowIs
        <5>2. Has(SeenBy(v), p.aggregate, p.sequence)
          BY <1>4, <3>3, <5>1 DEF Continues
        <5> QED BY <1>7, <2>10, <4>2, <5>2
      <4> QED BY <1>4, <3>3, <4>1, <4>2
    <3>4. /\ SeenBy(v)' = SeenBy(u) \cup SeenBy(v) /\ own'[v] = own[v] /\ xid' = xid
          /\ writer'[v] = writer[v] /\ aim'[v] = aim[v] /\ table' = SeenBy(u)
      BY <1>1, <1>2, <1>3, <2>10
    <3> QED BY <2>1, <3>1, <3>2, <3>3, <3>4 DEF Ordinals
  <2>11. \A v \in Units : Ordinals(v)'
    BY <2>9, <2>10
  <2> QED BY <1>1, <1>2, <2>6, <2>7, <2>8, <2>11 DEF Transactions
<1>11. HeadRow'
  <2> SUFFICES ASSUME strategy = "head-row" PROVE HeadRow'
    BY <1>2 DEF HeadRow
  <2>1. /\ \A v \in Units : \A i \in DOMAIN own[v] : own[v][i].position = 0
        /\ \A p \in table : p.position <= head
        /\ \A p, q \in table : p.position = q.position /\ p.position # 0 => p = q
        /\ \A p, q \in table : p.aggregate = q.aggregate /\ p.sequence < q.sequence /\ q.position # 0 =>
                                 p.position # 0 /\ p.position < q.position
    BY DEF EInv, HeadRow
  <2>2. \A v \in Units : \A i \in DOMAIN own'[v] : own'[v][i].position = 0
    <3> TAKE v \in Units
    <3>1. CASE v = u
      BY <1>2, <3>1
    <3>2. CASE v # u
      <4>1. own'[v] = own[v]
        BY <1>2, <3>2
      <4> QED BY <2>1, <4>1
    <3> QED BY <3>1, <3>2
  <2>3. \A q \in InsertedBy(u) : q.position = 0
    BY <2>1 DEF InsertedBy, ToSet
  <2>4. head \in Nat
    BY DEF EInv, EventTypes
  <2>5. \A p \in SeenBy(u) : p.position <= head
    BY <1>4, <2>1, <2>3, <2>4
  <2>6. \A p, q \in SeenBy(u) : p.position = q.position /\ p.position # 0 => p = q
    BY <1>4, <2>1, <2>3
  <2>7. ASSUME NEW p \in SeenBy(u), NEW q \in SeenBy(u),
               p.aggregate = q.aggregate, p.sequence < q.sequence, q.position # 0
        PROVE  p.position # 0 /\ p.position < q.position
    <3>1. q \in table
      BY <1>4, <2>3, <2>7
    <3>2. CASE p \in table
      BY <2>1, <2>7, <3>1, <3>2
    <3>3. CASE p \in InsertedBy(u)
      <4>1. ~(q.sequence < p.sequence)
        <5>1. p.sequence \in Nat /\ q.sequence \in Nat
          BY <1>4, RowIs
        <5> QED BY <2>7, <5>1
      <4> QED BY <1>8, <2>7, <3>1, <3>3, <4>1
    <3> QED BY <1>4, <3>2, <3>3
  <2> QED BY <1>1, <1>2, <2>2, <2>5, <2>6, <2>7 DEF HeadRow
<1>12. ListsKept'
  <2>1. ASSUME NEW list \in Lists, ListOK(list, table, head)
        PROVE  ListOK(list, SeenBy(u), head)
    <3>1. ASSUME NEW i \in DOMAIN list.left, NEW q \in InsertedBy(u), q.aggregate = list.left[i].aggregate,
                 ~(list.left[i].sequence < q.sequence)
          PROVE  FALSE
      <4>1. PICK p \in table : Key(p) = list.left[i]
        BY <2>1 DEF ListOK
      <4>2. p.aggregate = list.left[i].aggregate /\ p.sequence = list.left[i].sequence
        BY <4>1 DEF Key
      <4> QED BY <1>8, <3>1, <4>2
    <3>2. \A i \in DOMAIN list.left : list.left[i].sequence \in Nat
      <4>1. list.left \in Seq(EventKeys)
        BY <2>1 DEF Lists
      <4>2. \A i \in DOMAIN list.left : list.left[i] \in EventKeys
        BY <4>1
      <4> QED BY <4>2 DEF EventKeys
    <3>3. \A q \in InsertedBy(u) : q.sequence \in Nat
      BY <1>4, RowIs
    <3>4. \A i \in DOMAIN list.left, q \in SeenBy(u) :
            q.aggregate = list.left[i].aggregate /\ q.sequence < list.left[i].sequence =>
              q.position # 0 \/ \E j \in 1..(i - 1) : list.left[j] = Key(q)
      <4> SUFFICES ASSUME NEW i \in DOMAIN list.left, NEW q \in SeenBy(u),
                          q.aggregate = list.left[i].aggregate, q.sequence < list.left[i].sequence
                   PROVE  q.position # 0 \/ \E j \in 1..(i - 1) : list.left[j] = Key(q)
        OBVIOUS
      <4>1. CASE q \in table
        BY <2>1, <4>1 DEF ListOK
      <4>2. CASE q \in InsertedBy(u)
        <5>1. ~(list.left[i].sequence < q.sequence)
          BY <3>2, <3>3, <4>2
        <5> QED BY <3>1, <4>2, <5>1
      <4> QED BY <1>4, <4>1, <4>2
    <3>5. list.head = head => \A i \in DOMAIN list.left : \A p \in SeenBy(u) : Key(p) = list.left[i] => p.position = 0
      <4> SUFFICES ASSUME list.head = head, NEW i \in DOMAIN list.left, NEW p \in SeenBy(u), Key(p) = list.left[i]
                   PROVE  p.position = 0
        OBVIOUS
      <4>1. CASE p \in table
        BY <2>1, <4>1 DEF ListOK
      <4>2. CASE p \in InsertedBy(u)
        <5>1. p.aggregate = list.left[i].aggregate /\ p.sequence = list.left[i].sequence
          BY DEF Key
        <5>2. ~(list.left[i].sequence < p.sequence)
          BY <3>2, <3>3, <4>2, <5>1
        <5> QED BY <3>1, <4>2, <5>1, <5>2
      <4> QED BY <1>4, <4>1, <4>2
    <3>6. /\ \A i, j \in DOMAIN list.left : list.left[i] = list.left[j] => i = j
          /\ \A i \in DOMAIN list.left : \E p \in SeenBy(u) : Key(p) = list.left[i]
          /\ list.head >= -1 /\ list.head <= head
      BY <1>4, <2>1 DEF ListOK
    <3> QED BY <3>4, <3>5, <3>6 DEF ListOK
  <2>2. \A s \in Stores : backlog[s] \in Lists
    BY DEF EInv, EventTypes
  <2>3. \A r \in Readers : round[r].list \in Lists
    BY DEF EInv, EventTypes
  <2>4. \A s \in Stores : ListOK(backlog[s], SeenBy(u), head)
    BY <2>1, <2>2 DEF EInv, ListsKept
  <2>5. \A r \in Readers : ListOK(round[r].list, SeenBy(u), head)
    BY <2>1, <2>3 DEF EInv, ListsKept
  <2> QED BY <1>1, <1>2, <2>4, <2>5 DEF ListsKept
<1> QED BY <1>2, <1>5, <1>6, <1>9, <1>10, <1>11, <1>12 DEF EInv

-------------------------------------------------------------------------------
(* Numbering a batch: waiting events, each once, and none before an earlier    *)
(* event of its aggregate that waits.                                          *)

Precedes(keys, i, q) ==
  q.aggregate = keys[i].aggregate /\ q.sequence < keys[i].sequence =>
    q.position # 0 \/ \E j \in 1..(i - 1) : keys[j] = Key(q)
Batched(keys) ==
  /\ keys \in Seq(EventKeys) /\ \A i, j \in DOMAIN keys : keys[i] = keys[j] => i = j
  /\ \A i \in DOMAIN keys : \E p \in Waiting : Key(p) = keys[i]
  /\ \A i \in DOMAIN keys, q \in table : Precedes(keys, i, q)

Place(keys, p) == CHOOSE i \in DOMAIN keys : keys[i] = Key(p)
NumberedRow(base, keys, p) ==
  IF Key(p) \in ToSet(keys) THEN [p EXCEPT !.position = base + Place(keys, p), !.recorded = 0] ELSE p

\* Numbering changes the position of the batch's rows only.
LEMMA NumberedIs ==
  ASSUME EInv, NEW keys, Batched(keys), NumbersFrom(head, keys)
  PROVE  /\ head' = head + Len(keys) /\ head \in Nat /\ Len(keys) \in Nat
         /\ \A p \in table : NumberedRow(head, keys, p) \in table'
         /\ \A q \in table' : \E p \in table : q = NumberedRow(head, keys, p)
         /\ \A p \in table : /\ NumberedRow(head, keys, p) \in Row /\ Key(NumberedRow(head, keys, p)) = Key(p)
                             /\ p.position # 0 \/ (\A i \in DOMAIN keys : keys[i] # Key(p)) => NumberedRow(head, keys, p) = p
                             /\ \A i \in DOMAIN keys : keys[i] = Key(p) => NumberedRow(head, keys, p).position = head + i
         /\ DOMAIN keys = 1..Len(keys)
         /\ table' = {NumberedRow(head, keys, p) : p \in table}
<1> DEFINE N(p) == NumberedRow(head, keys, p)
<1>1. head \in Nat /\ Len(keys) \in Nat /\ DOMAIN keys = 1..Len(keys)
  BY DEF EInv, EventTypes, Batched
<1>2. table' = {N(p) : p \in table} /\ head' = head + Len(keys)
  BY DEF NumbersFrom, NumberedRow, Place
<1>3. \A x : x \in ToSet(keys) <=> \E i \in DOMAIN keys : keys[i] = x
  BY DEF ToSet
<1>4. ASSUME NEW p \in table
      PROVE  /\ N(p) \in Row /\ Key(N(p)) = Key(p)
             /\ p.position # 0 \/ (\A i \in DOMAIN keys : keys[i] # Key(p)) => N(p) = p
             /\ \A i \in DOMAIN keys : keys[i] = Key(p) => N(p).position = head + i
  <2>1. p \in Row
    BY DEF EInv, EventTypes
  <2>2. CASE \E i \in DOMAIN keys : keys[i] = Key(p)
    <3>1. PICK i \in DOMAIN keys : keys[i] = Key(p)
      BY <2>2
    <3>2. Place(keys, p) \in DOMAIN keys /\ keys[Place(keys, p)] = Key(p)
      BY <3>1 DEF Place
    <3>3. \A j \in DOMAIN keys : keys[j] = Key(p) => j = Place(keys, p)
      BY <3>2 DEF Batched
    <3> DEFINE at == head + Place(keys, p)
    <3>4. at \in Nat
      BY <1>1, <3>2
    <3> HIDE DEF at
    <3>5. N(p) = [p EXCEPT !.position = at, !.recorded = 0]
      BY <1>3, <2>2 DEF NumberedRow, at
    <3> HIDE DEF N
    <3>6. N(p) \in Row /\ N(p).position = at /\ N(p).aggregate = p.aggregate /\ N(p).sequence = p.sequence
      <4> DEFINE q == [p EXCEPT !.position = at, !.recorded = 0]
      <4>1. q \in Row /\ q.position = at /\ q.aggregate = p.aggregate /\ q.sequence = p.sequence
        BY <2>1, <3>4 DEF Row
      <4>2. N(p) = q
        BY <3>5
      <4> QED BY <4>1, <4>2, Zenon
    <3>7. p.position = 0
      <4>1. PICK w \in Waiting : Key(w) = Key(p)
        BY <3>1 DEF Batched
      <4>2. w = p
        BY <4>1 DEF EInv, Sequenced, UniqueKeys, Waiting
      <4> QED BY <4>1, <4>2 DEF Waiting
    <3>8. Key(N(p)) = Key(p)
      BY <3>6 DEF Key
    <3> QED BY <2>2, <3>3, <3>6, <3>7, <3>8 DEF at
  <2>3. CASE ~\E i \in DOMAIN keys : keys[i] = Key(p)
    <3>1. N(p) = p
      BY <1>3, <2>3 DEF NumberedRow
    <3> QED BY <2>1, <2>3, <3>1
  <2> QED BY <2>2, <2>3
<1> HIDE DEF N
<1>5. (\A p \in table : N(p) \in table') /\ \A q \in table' : \E p \in table : q = N(p)
  BY <1>2
<1> QED BY <1>1, <1>2, <1>4, <1>5 DEF N

\* A list remains one to number from, whoever numbers.
LEMMA ListsStayOK ==
  ASSUME EInv, NEW keys, Batched(keys), NumbersFrom(head, keys), NEW list \in Lists, ListOK(list, table, head)
  PROVE  ListOK(list, table', head')
<1> DEFINE N(p) == NumberedRow(head, keys, p)
<1>1. /\ head' = head + Len(keys) /\ head \in Nat /\ Len(keys) \in Nat /\ DOMAIN keys = 1..Len(keys)
      /\ \A p \in table : N(p) \in table'
      /\ \A q \in table' : \E p \in table : q = N(p)
      /\ \A p \in table : /\ N(p) \in Row /\ Key(N(p)) = Key(p)
                          /\ p.position # 0 \/ (\A i \in DOMAIN keys : keys[i] # Key(p)) => N(p) = p
  BY NumberedIs
<1> HIDE DEF N
<1>2. \A i \in DOMAIN list.left : \E p \in table' : Key(p) = list.left[i]
  <2> SUFFICES ASSUME NEW i \in DOMAIN list.left PROVE \E p \in table' : Key(p) = list.left[i]
    OBVIOUS
  <2>1. PICK p \in table : Key(p) = list.left[i]
    BY DEF ListOK
  <2> QED BY <1>1, <2>1
<1>3. ASSUME NEW i \in DOMAIN list.left, NEW q \in table',
             q.aggregate = list.left[i].aggregate, q.sequence < list.left[i].sequence
      PROVE  q.position # 0 \/ \E j \in 1..(i - 1) : list.left[j] = Key(q)
  <2>1. PICK p \in table : q = N(p)
    BY <1>1
  <2>2. p.aggregate = q.aggregate /\ p.sequence = q.sequence /\ Key(q) = Key(p)
    BY <1>1, <2>1, SameKeyIs
  <2>3. CASE p.position # 0
    BY <1>1, <2>1, <2>3
  <2>4. CASE \E j \in 1..(i - 1) : list.left[j] = Key(p)
    BY <2>2, <2>4
  <2> QED BY <1>3, <2>2, <2>3, <2>4 DEF ListOK
<1>4. list.head >= -1 /\ list.head <= head /\ list.head <= head' /\ list.head \in Int
  BY <1>1 DEF ListOK, Lists
<1>5. ASSUME list.head = head', NEW i \in DOMAIN list.left, NEW q \in table', Key(q) = list.left[i]
      PROVE  q.position = 0
  <2>1. head = head' /\ Len(keys) = 0
    BY <1>1, <1>4, <1>5
  <2>2. PICK p \in table : q = N(p)
    BY <1>1
  <2>3. q = p
    BY <1>1, <2>1, <2>2
  <2> QED BY <1>5, <2>1, <2>3 DEF ListOK
<1> QED BY <1>2, <1>3, <1>4, <1>5 DEF ListOK

LEMMA NumbersKeeps ==
  ASSUME EInv, strategy = "head-row", NEW keys, Batched(keys), NumbersFrom(head, keys),
         UNCHANGED <<strategy, storeOf, writerVars>>
  PROVE  /\ table' \in SUBSET Row /\ head' \in Nat /\ IsFiniteSet(Inserted)'
         /\ XidsKept' /\ Sequenced' /\ Transactions' /\ HeadRow'
<1> DEFINE N(p) == NumberedRow(head, keys, p)
<1>1. /\ head' = head + Len(keys) /\ head \in Nat /\ Len(keys) \in Nat /\ DOMAIN keys = 1..Len(keys)
      /\ table' = {N(p) : p \in table}
  BY NumberedIs
<1>2. /\ \A p \in table : N(p) \in table'
      /\ \A q \in table' : \E p \in table : q = N(p)
      /\ \A p \in table : /\ N(p) \in Row /\ Key(N(p)) = Key(p)
                          /\ p.position # 0 \/ (\A i \in DOMAIN keys : keys[i] # Key(p)) => N(p) = p
                          /\ \A i \in DOMAIN keys : keys[i] = Key(p) => N(p).position = head + i
  BY NumberedIs
<1> HIDE DEF N
<1>3. UNCHANGED <<strategy, own, writer, aim, xid, lastXid>>
  BY DEF writerVars
<1>4. table' \in SUBSET Row /\ head' \in Nat
  BY <1>1, <1>2
<1>5. IsFiniteSet(Inserted')
  <2> DEFINE f == [p \in table |-> N(p)]
  <2>1. f \in [table -> table'] /\ \A q \in table' : \E p \in table : f[p] = q
    BY <1>2
  <2> HIDE DEF f
  <2>2. f \in Surjection(table, table')
    BY <2>1, Fun_IsSurj
  <2>3. IsFiniteSet(table')
    BY <2>2, InsertedIs, FS_Surjection
  <2>4. Inserted' \in SUBSET (table' \cup Inserted)
    BY <1>3 DEF Inserted, InsertedBy
  <2>5. IsFiniteSet(table' \cup Inserted)
    BY <2>3, InsertedIs, FS_Union
  <2> QED BY <2>4, <2>5, FS_Subset
<1>6. \A p \in table : N(p).aggregate = p.aggregate /\ N(p).sequence = p.sequence
  BY <1>2, SameKeyIs
<1>7. \A v \in Units : InsertedBy(v)' = InsertedBy(v)
  BY <1>3 DEF InsertedBy
<1>8. Sequenced'
  <2>1. UniqueKeys(table) /\ Dense(table) /\ OneWriter /\ \A u \in Units : Continues(u)
    BY DEF EInv, Sequenced
  <2>2. UniqueKeys(table')
    BY <1>2, <2>1 DEF UniqueKeys
  <2>3. \A a, n : Has(table, a, n) => Has(table', a, n)
    BY <1>2, <1>6 DEF Has
  <2>4. Dense(table')
    <3> SUFFICES ASSUME NEW q \in table', NEW n \in 1..q.sequence PROVE Has(table', q.aggregate, n)
      BY DEF Dense
    <3>1. PICK p \in table : q = N(p)
      BY <1>2
    <3>2. Has(table, p.aggregate, n)
      BY <1>6, <2>1, <3>1 DEF Dense
    <3> QED BY <1>6, <2>3, <3>1, <3>2
  <2>5. OneWriter'
    BY <1>7, <2>1 DEF OneWriter
  <2>6. ASSUME NEW v \in Units
        PROVE  Continues(v)'
    <3>1. \A p \in table', q \in InsertedBy(v) : Key(p) # Key(q)
      BY <1>2, <2>1 DEF Continues
    <3>2. UniqueKeys(InsertedBy(v))
      BY <2>1 DEF Continues, UniqueKeys, SeenBy
    <3>3. UniqueKeys(table' \cup InsertedBy(v))
      BY <2>2, <3>1, <3>2 DEF UniqueKeys
    <3>4. \A a, n : Has(SeenBy(v), a, n) => Has(table' \cup InsertedBy(v), a, n)
      BY <2>3 DEF Has, SeenBy
    <3>5. Dense(table' \cup InsertedBy(v))
      <4> SUFFICES ASSUME NEW q \in table' \cup InsertedBy(v), NEW n \in 1..q.sequence
                   PROVE  Has(table' \cup InsertedBy(v), q.aggregate, n)
        BY DEF Dense
      <4>1. CASE q \in table'
        <5>1. Has(table', q.aggregate, n)
          BY <2>4, <4>1 DEF Dense
        <5> QED BY <5>1 DEF Has
      <4>2. CASE q \in InsertedBy(v)
        <5>1. Has(SeenBy(v), q.aggregate, n)
          BY <2>1, <4>2 DEF Continues, Dense, SeenBy
        <5> QED BY <3>4, <5>1
      <4> QED BY <4>1, <4>2
    <3>6. SameKey(v, table' \cup InsertedBy(v)) => SameKey(v, SeenBy(v))
      BY <1>2 DEF SameKey, SeenBy
    <3>7. SeenBy(v)' = table' \cup InsertedBy(v) /\ SameKey(v, SeenBy(v))' = SameKey(v, table' \cup InsertedBy(v))
      BY <1>3, <1>7 DEF SeenBy, SameKey
    <3>8. writer[v] = "ended" => own[v] = <<>>
      BY <2>1 DEF Continues
    <3>9. writer[v] = "checked" =>
            /\ \A n \in 1..(aim[v].sequence - 1) : Has(table' \cup InsertedBy(v), aim[v].aggregate, n)
            /\ (\E q \in InsertedBy(v) : q.aggregate = aim[v].aggregate) => ~SameKey(v, table' \cup InsertedBy(v))
      BY <2>1, <3>4, <3>6 DEF Continues
    <3> QED BY <1>3, <1>7, <3>1, <3>3, <3>5, <3>7, <3>8, <3>9 DEF Continues
  <2> QED BY <2>2, <2>4, <2>5, <2>6 DEF Sequenced
<1>9. HeadRow'
  <2>1. /\ \A u \in Units : \A i \in DOMAIN own[u] : own[u][i].position = 0
        /\ \A p \in table : p.position <= head /\ p.position \in Nat
        /\ \A p, q \in table : p.position = q.position /\ p.position # 0 => p = q
        /\ \A p, q \in table : p.aggregate = q.aggregate /\ p.sequence < q.sequence /\ q.position # 0 =>
                                 p.position # 0 /\ p.position < q.position
    <3>1. \A p \in table : p.position \in Nat
      BY RowIs DEF EInv, EventTypes
    <3> QED BY <3>1 DEF EInv, HeadRow
  <2>2. ASSUME NEW p \in table
        PROVE  \/ N(p) = p /\ \A i \in DOMAIN keys : keys[i] # Key(p)
               \/ \E i \in 1..Len(keys) : keys[i] = Key(p) /\ N(p).position = head + i
    BY <1>1, <1>2
  <2>3. \A q \in table' : q.position <= head'
    <3> SUFFICES ASSUME NEW p \in table PROVE N(p).position <= head'
      BY <1>2
    <3> QED BY <1>1, <2>1, <2>2
  <2>4. ASSUME NEW p \in table, NEW q \in table, N(p).position = N(q).position, N(p).position # 0
        PROVE  N(p) = N(q)
    <3>1. CASE N(p) = p /\ N(q) = q
      BY <2>1, <2>4, <3>1
    <3>2. ASSUME NEW i \in 1..Len(keys), keys[i] = Key(p), N(p).position = head + i,
                 NEW j \in 1..Len(keys), keys[j] = Key(q), N(q).position = head + j
          PROVE  p = q
      <4>0. head + i = head + j
        BY <2>4, <3>2
      <4>1. i = j
        BY <1>1, <4>0
      <4>2. Key(p) = Key(q)
        BY <3>2, <4>1
      <4> QED BY <4>2 DEF EInv, Sequenced, UniqueKeys
    <3>3. ASSUME NEW i \in 1..Len(keys), NEW x \in table, head + i = x.position
          PROVE  FALSE
      BY <1>1, <2>1, <3>3
    <3> QED BY <2>2, <2>4, <3>1, <3>2, <3>3
  <2>5. ASSUME NEW p \in table, NEW q \in table, p.aggregate = q.aggregate, p.sequence < q.sequence, N(q).position # 0
        PROVE  N(p).position # 0 /\ N(p).position < N(q).position
    <3>1. CASE N(q) = q
      <4>1. p.position # 0 /\ p.position < q.position
        BY <2>1, <2>5, <3>1
      <4>2. N(p) = p
        BY <1>2, <4>1
      <4> QED BY <3>1, <4>1, <4>2
    <3>2. CASE \E i \in 1..Len(keys) : keys[i] = Key(q) /\ N(q).position = head + i
      <4>1. PICK i \in 1..Len(keys) : keys[i] = Key(q) /\ N(q).position = head + i
        BY <3>2
      <4>2. keys[i].aggregate = q.aggregate /\ keys[i].sequence = q.sequence
        BY <4>1 DEF Key
      <4>3. Precedes(keys, i, p)
        BY <1>1 DEF Batched
      <4>4. p.position # 0 \/ \E j \in 1..(i - 1) : keys[j] = Key(p)
        BY <2>5, <4>2, <4>3 DEF Precedes
      <4>5. CASE p.position # 0
        <5>1. N(p) = p
          BY <1>2, <4>5
        <5> QED BY <1>1, <2>1, <4>1, <4>5, <5>1
      <4>6. CASE \E j \in 1..(i - 1) : keys[j] = Key(p)
        <5>1. PICK j \in 1..(i - 1) : keys[j] = Key(p)
          BY <4>6
        <5>2. j \in 1..Len(keys) /\ j < i
          BY <1>1
        <5>3. N(p).position = head + j
          BY <1>1, <1>2, <5>1, <5>2
        <5> QED BY <1>1, <4>1, <5>2, <5>3
      <4> QED BY <4>4, <4>5, <4>6
    <3> QED BY <2>2, <3>1, <3>2
  <2>6. \A p, q \in table' : p.position = q.position /\ p.position # 0 => p = q
    BY <1>2, <2>4
  <2>7. \A p, q \in table' : p.aggregate = q.aggregate /\ p.sequence < q.sequence /\ q.position # 0 =>
                               p.position # 0 /\ p.position < q.position
    <3> SUFFICES ASSUME NEW p \in table', NEW q \in table', p.aggregate = q.aggregate, p.sequence < q.sequence, q.position # 0
                 PROVE  p.position # 0 /\ p.position < q.position
      OBVIOUS
    <3>1. PICK p0 \in table : p = N(p0)
      BY <1>2
    <3>2. PICK q0 \in table : q = N(q0)
      BY <1>2
    <3>3. p0.aggregate = q0.aggregate /\ p0.sequence < q0.sequence
      BY <1>6, <3>1, <3>2
    <3> QED BY <2>5, <3>1, <3>2, <3>3
  <2> QED BY <1>3, <2>1, <2>3, <2>6, <2>7 DEF HeadRow
<1>10. XidsKept' /\ Transactions'
  BY <1>3 DEF EInv, XidsKept, Transactions
<1> QED BY <1>4, <1>5, <1>8, <1>9, <1>10

-------------------------------------------------------------------------------
(* The lists that rounds number from, and their batches. *)

ByNumber(at) == {ij \in at \X at : ij[1] < ij[2]}
AtLine(at) == InLine(at, LAMBDA i, j : i < j)

LEMMA PlacesInLine ==
  ASSUME NEW at \in SUBSET Nat, IsFiniteSet(at)
  PROVE  /\ Cardinality(at) \in Nat /\ AtLine(at) \in [1..Cardinality(at) -> at]
         /\ \A i, j \in 1..Cardinality(at) : i < j <=> AtLine(at)[i] < AtLine(at)[j]
         /\ \A k \in at : \E i \in 1..Cardinality(at) : AtLine(at)[i] = k
<1> DEFINE R == ByNumber(at)
           n == Cardinality(at)
<1>1. ASSUME NEW i \in at, NEW j \in at
      PROVE  <<i, j>> \in R <=> i < j
  <2>1. <<i, j>> \in at \X at /\ <<i, j>>[1] = i /\ <<i, j>>[2] = j
    OBVIOUS
  <2> QED BY ONLY <2>1, Zenon DEF ByNumber
<1>2. \A i, j \in at : <<i, j>> \in R <=> i < j
  BY <1>1
<1> HIDE DEF R
<1>3. TotalOrder(at, R)
  <2>1. \A i \in at : i \in Nat
    OBVIOUS
  <2>2. \A i \in at : <<i, i>> \notin R
    BY <1>2, <2>1
  <2>3. \A i, j, k \in at : <<i, j>> \in R /\ <<j, k>> \in R => <<i, k>> \in R
    BY <1>2, <2>1
  <2>4. \A i, j \in at : i = j \/ <<i, j>> \in R \/ <<j, i>> \in R
    <3> SUFFICES ASSUME NEW i \in at, NEW j \in at PROVE i = j \/ i < j \/ j < i
      BY <1>2
    <3> QED BY <2>1
  <2> QED BY <2>2, <2>3, <2>4 DEF TotalOrder
<1>4. \A k \in at : {j \in at : j < k} = Behind(at, R, k)
  BY <1>2 DEF Behind
<1>5. AtLine(at) = [i \in 1..n |-> CHOOSE k \in at : Cardinality({j \in at : j < k}) = i - 1]
  BY Zenon DEF AtLine, InLine
<1>6. \A i \in 1..n : AtLine(at)[i] \in at /\ Cardinality(Behind(at, R, AtLine(at)[i])) = i - 1
  <2> TAKE i \in 1..n
  <2>1. \E k \in at : Cardinality(Behind(at, R, k)) = i - 1
    BY <1>3, EachPlace
  <2>2. \E k \in at : Cardinality({j \in at : j < k}) = i - 1
    BY <1>4, <2>1
  <2>3. AtLine(at)[i] = CHOOSE k \in at : Cardinality({j \in at : j < k}) = i - 1
    BY <1>5, Zenon
  <2>4. AtLine(at)[i] \in at /\ Cardinality({j \in at : j < AtLine(at)[i]}) = i - 1
    BY <2>2, <2>3
  <2> QED BY <1>4, <2>4
<1>7. AtLine(at) \in [1..n -> at]
  <2>1. AtLine(at) = [i \in 1..n |-> AtLine(at)[i]]
    BY <1>5, Zenon
  <2> QED BY <1>6, <2>1
<1>8. InOrderOf(at, R, AtLine(at))
  BY <1>3, <1>6, <1>7, LineIs
<1>9. \A i, j \in 1..n : i < j <=> AtLine(at)[i] < AtLine(at)[j]
  BY <1>2, <1>7, <1>8 DEF InOrderOf
<1> QED BY <1>7, <1>8, <1>9 DEF InOrderOf

\* In time an event is placed no earlier than those of its aggregate before it.
Earlier(p) == {w \in Waiting : w.aggregate = p.aggregate /\ w.sequence <= p.sequence}

LEMMA PlacedAtIs ==
  ASSUME EInv, NEW p \in Waiting
  PROVE  /\ PlacedAt(p) \in Nat /\ p \in Row /\ p \in table
         /\ \A q \in Waiting : q.aggregate = p.aggregate /\ q.sequence < p.sequence => PlacedAt(q) <= PlacedAt(p)
<1> DEFINE T(x) == {q.recorded : q \in Earlier(x)}
<1>1. Waiting \in SUBSET table /\ \A x \in Waiting : x \in Row /\ x.recorded \in Nat /\ x.sequence \in Nat
  <2>1. Waiting \in SUBSET table /\ table \in SUBSET Row
    BY DEF Waiting, EInv, EventTypes
  <2> QED BY <2>1, RowIs
<1>2. ASSUME NEW x \in Waiting
      PROVE  /\ T(x) \in SUBSET Nat /\ IsFiniteSet(T(x)) /\ T(x) # {} /\ PlacedAt(x) = Max(T(x))
  <2>1. x \in Earlier(x) /\ Earlier(x) \in SUBSET table
    BY <1>1 DEF Earlier
  <2>2. IsFiniteSet(Earlier(x))
    BY <2>1, InsertedIs, FS_Subset
  <2> DEFINE f == [q \in Earlier(x) |-> q.recorded]
  <2>3. f \in [Earlier(x) -> T(x)] /\ \A n \in T(x) : \E q \in Earlier(x) : f[q] = n
    OBVIOUS
  <2> HIDE DEF f
  <2>4. f \in Surjection(Earlier(x), T(x))
    BY <2>3, Fun_IsSurj
  <2>5. IsFiniteSet(T(x))
    BY <2>2, <2>4, FS_Surjection
  <2>6. T(x) \in SUBSET Nat
    BY <1>1 DEF Earlier
  <2>7. PlacedAt(x) = Max(T(x))
    BY DEF PlacedAt, Earlier
  <2> QED BY <2>1, <2>5, <2>6, <2>7
<1>3. \A x \in Waiting : PlacedAt(x) \in T(x) /\ PlacedAt(x) \in Nat /\ \A n \in T(x) : PlacedAt(x) >= n
  <2> TAKE x \in Waiting
  <2>1. T(x) \in SUBSET Nat /\ IsFiniteSet(T(x)) /\ T(x) # {} /\ PlacedAt(x) = Max(T(x))
    BY <1>2
  <2> HIDE DEF T
  <2> QED BY <2>1, GreatestIs
<1>4. ASSUME NEW q \in Waiting, q.aggregate = p.aggregate, q.sequence < p.sequence
      PROVE  PlacedAt(q) <= PlacedAt(p)
  <2>1. Earlier(q) \in SUBSET Earlier(p)
    BY <1>1, <1>4 DEF Earlier
  <2>2. PlacedAt(q) \in T(p)
    <3>1. PlacedAt(q) \in T(q)
      BY <1>3
    <3> QED BY <2>1, <3>1
  <2> QED BY <1>3, <2>2
<1> QED BY <1>1, <1>3, <1>4

ByPlace == {pq \in Waiting \X Waiting : PlacedBefore(pq[1], pq[2])}
WaitingLine == InLine(Waiting, PlacedBefore)

LEMMA PlacesOrder ==
  ASSUME EInv
  PROVE  /\ TotalOrder(Waiting, ByPlace) /\ IsFiniteSet(Waiting)
         /\ \A p, q \in Waiting : <<p, q>> \in ByPlace <=> PlacedBefore(p, q)
<1>1. ASSUME NEW p \in Waiting, NEW q \in Waiting
      PROVE  <<p, q>> \in ByPlace <=> PlacedBefore(p, q)
  <2>1. <<p, q>> \in Waiting \X Waiting /\ <<p, q>>[1] = p /\ <<p, q>>[2] = q
    OBVIOUS
  <2> QED BY ONLY <2>1, Zenon DEF ByPlace
<1>2. \A p, q \in Waiting : <<p, q>> \in ByPlace <=> PlacedBefore(p, q)
  BY <1>1
<1>3. \A p \in Waiting : PlacedAt(p) \in Nat /\ p.aggregate \in Nat /\ p.sequence \in Nat /\ p \in table
  BY PlacedAtIs, RowIs
<1>4. \A p \in Waiting : <<p, p>> \notin ByPlace
  BY <1>2, <1>3 DEF PlacedBefore
<1>5. ASSUME NEW p \in Waiting, NEW q \in Waiting, NEW r \in Waiting, PlacedBefore(p, q), PlacedBefore(q, r)
      PROVE  PlacedBefore(p, r)
  <2> DEFINE a == PlacedAt(p)
             b == PlacedAt(q)
             c == PlacedAt(r)
  <2>1. a \in Nat /\ b \in Nat /\ c \in Nat
    BY <1>3
  <2>2. /\ a < b \/ (a = b /\ p.aggregate < q.aggregate) \/ (a = b /\ p.aggregate = q.aggregate /\ p.sequence < q.sequence)
        /\ b < c \/ (b = c /\ q.aggregate < r.aggregate) \/ (b = c /\ q.aggregate = r.aggregate /\ q.sequence < r.sequence)
    BY <1>5 DEF PlacedBefore
  <2> HIDE DEF a, b, c
  <2>3. a < c \/ (a = c /\ p.aggregate < r.aggregate) \/ (a = c /\ p.aggregate = r.aggregate /\ p.sequence < r.sequence)
    BY <1>3, <2>1, <2>2
  <2> QED BY <2>3 DEF PlacedBefore, a, b, c
<1>6. ASSUME NEW p \in Waiting, NEW q \in Waiting
      PROVE  p = q \/ PlacedBefore(p, q) \/ PlacedBefore(q, p)
  <2>1. p = q \/ p.aggregate # q.aggregate \/ p.sequence # q.sequence
    BY <1>3, SameKeyIs DEF EInv, Sequenced, UniqueKeys
  <2> QED BY <1>3, <2>1 DEF PlacedBefore
<1>7. IsFiniteSet(Waiting)
  BY InsertedIs, FS_Subset DEF Waiting
<1>8. \A p, q, r \in Waiting : <<p, q>> \in ByPlace /\ <<q, r>> \in ByPlace => <<p, r>> \in ByPlace
  BY <1>2, <1>5
<1>9. \A p, q \in Waiting : p = q \/ <<p, q>> \in ByPlace \/ <<q, p>> \in ByPlace
  BY <1>2, <1>6
<1> QED BY <1>2, <1>4, <1>7, <1>8, <1>9 DEF TotalOrder

LEMMA WaitingInLine ==
  ASSUME EInv
  PROVE  /\ Cardinality(Waiting) \in Nat /\ WaitingLine \in [1..Cardinality(Waiting) -> Waiting]
         /\ \A i, j \in 1..Cardinality(Waiting) : i < j <=> PlacedBefore(WaitingLine[i], WaitingLine[j])
         /\ \A i, j \in 1..Cardinality(Waiting) : WaitingLine[i] = WaitingLine[j] => i = j
         /\ \A p \in Waiting : \E i \in 1..Cardinality(Waiting) : WaitingLine[i] = p
<1> DEFINE R == ByPlace
           n == Cardinality(Waiting)
<1>1. TotalOrder(Waiting, R) /\ IsFiniteSet(Waiting) /\ \A p, q \in Waiting : <<p, q>> \in R <=> PlacedBefore(p, q)
  BY PlacesOrder
<1> HIDE DEF R
<1>2. \A p \in Waiting : {q \in Waiting : PlacedBefore(q, p)} = Behind(Waiting, R, p)
  BY <1>1 DEF Behind
<1>3. WaitingLine = [i \in 1..n |-> CHOOSE p \in Waiting : Cardinality({q \in Waiting : PlacedBefore(q, p)}) = i - 1]
  BY Zenon DEF WaitingLine, InLine
<1>4. \A i \in 1..n : WaitingLine[i] \in Waiting /\ Cardinality(Behind(Waiting, R, WaitingLine[i])) = i - 1
  <2> TAKE i \in 1..n
  <2>1. \E p \in Waiting : Cardinality(Behind(Waiting, R, p)) = i - 1
    BY <1>1, EachPlace
  <2>2. \E p \in Waiting : Cardinality({q \in Waiting : PlacedBefore(q, p)}) = i - 1
    BY <1>2, <2>1
  <2>3. WaitingLine[i] = CHOOSE p \in Waiting : Cardinality({q \in Waiting : PlacedBefore(q, p)}) = i - 1
    BY <1>3, Zenon
  <2>4. WaitingLine[i] \in Waiting /\ Cardinality({q \in Waiting : PlacedBefore(q, WaitingLine[i])}) = i - 1
    BY <2>2, <2>3
  <2> QED BY <1>2, <2>4
<1>5. WaitingLine \in [1..n -> Waiting]
  <2> DEFINE F(i) == CHOOSE p \in Waiting : Cardinality({q \in Waiting : PlacedBefore(q, p)}) = i - 1
  <2>1. WaitingLine = [i \in 1..n |-> F(i)]
    BY <1>3
  <2> HIDE DEF F
  <2>2. \A i \in 1..n : F(i) \in Waiting
    BY <1>4, <2>1
  <2> QED BY <2>1, <2>2
<1>6. InOrderOf(Waiting, R, WaitingLine)
  BY <1>1, <1>4, <1>5, LineIs
<1>7. \A i, j \in 1..n : i < j <=> PlacedBefore(WaitingLine[i], WaitingLine[j])
  BY <1>1, <1>5, <1>6 DEF InOrderOf
<1> QED BY <1>5, <1>6, <1>7 DEF InOrderOf

\* A list read afresh.
LEMMA FreshIs ==
  ASSUME EInv, Waiting # {}
  PROVE  /\ FreshList \in Lists /\ FreshList.left # <<>> /\ FreshList.head = head
         /\ ListOK(FreshList, table, head)
         /\ \A i \in DOMAIN FreshList.left : \E p \in Waiting : Key(p) = FreshList.left[i]
         /\ Len(FreshList.left) # NumberingWindow =>
              \A p \in Waiting : \E i \in DOMAIN FreshList.left : FreshList.left[i] = Key(p)
<1> DEFINE n == Cardinality(Waiting)
           line == WaitingLine
           placed == KeysOf(line)
           m == Min({NumberingWindow, Len(placed)})
           left == SubSeq(placed, 1, m)
           id == CHOOSE k \in 1..(Cardinality(Ids) + 1) : k \notin Ids
<1>1. /\ n \in Nat /\ line \in [1..n -> Waiting]
      /\ \A i, j \in 1..n : i < j <=> PlacedBefore(line[i], line[j])
      /\ \A i, j \in 1..n : line[i] = line[j] => i = j
      /\ \A p \in Waiting : \E i \in 1..n : line[i] = p
  BY WaitingInLine
<1>2. \A p \in Waiting : p \in Row /\ p \in table /\ Key(p) \in EventKeys /\ p.sequence \in Nat /\ p.position = 0
  BY PlacedAtIs, RowIs DEF Waiting
<1> HIDE DEF line
<1>3. placed \in Seq(EventKeys) /\ Len(placed) = n /\ \A i \in 1..n : placed[i] = Key(line[i])
  <2>1. placed \in [1..n -> EventKeys] /\ \A i \in 1..n : placed[i] = Key(line[i])
    BY <1>1, <1>2 DEF KeysOf
  <2> HIDE DEF placed
  <2> QED BY <1>1, <2>1
<1>4. FreshList = [id |-> id, left |-> left, head |-> head]
  <2>1. ReadsBacklog = left
    BY DEF ReadsBacklog, WaitingLine, line
  <2> QED BY <2>1 DEF FreshList, Ids
<1> HIDE DEF placed
<1>5. n # 0
  <2>1. PICK p \in Waiting : TRUE
    OBVIOUS
  <2>2. PICK i \in 1..n : line[i] = p
    BY <1>1
  <2> QED BY <1>1, <2>2
<1>6. m \in Nat /\ m # 0 /\ m <= n /\ (m = NumberingWindow \/ m = n)
  <2>1. {NumberingWindow, Len(placed)} \in SUBSET Nat /\ {NumberingWindow, Len(placed)} # {}
    BY <1>1, <1>3, Constants
  <2>2. m \in {NumberingWindow, Len(placed)} /\ \A x \in {NumberingWindow, Len(placed)} : m <= x
    BY <2>1, MinIs
  <2> QED BY <1>1, <1>3, <1>5, <2>2, Constants
<1> HIDE DEF m
<1>7. left \in Seq(EventKeys) /\ Len(left) = m /\ DOMAIN left = 1..m /\ \A i \in 1..m : left[i] = placed[i]
  BY <1>3, <1>6
<1> HIDE DEF left
<1>8. id \in Nat
  <2>1. \E k \in 1..(Cardinality(Ids) + 1) : k \notin Ids
    BY OneIsLeft DEF EInv, Finite
  <2>2. id \in 1..(Cardinality(Ids) + 1)
    BY <2>1
  <2>3. Cardinality(Ids) \in Nat
    BY FS_CardinalityType DEF EInv, Finite
  <2> QED BY <2>2, <2>3
<1> HIDE DEF id
<1>9. head \in Nat
  BY DEF EInv, EventTypes
<1>10. FreshList \in Lists /\ FreshList.left = left /\ FreshList.head = head
  <2>1. FreshList.left = left /\ FreshList.head = head
    BY <1>4
  <2>2. head \in Int
    BY <1>9
  <2> QED BY <1>4, <1>7, <1>8, <2>1, <2>2 DEF Lists
<1>11. \A i \in 1..m : i \in 1..n /\ left[i] = Key(line[i]) /\ line[i] \in Waiting
  <2> SUFFICES ASSUME NEW i \in 1..m
               PROVE  i \in 1..n /\ left[i] = Key(line[i]) /\ line[i] \in Waiting
    OBVIOUS
  <2>1. i \in 1..n
    BY <1>1, <1>6
  <2>2. line[i] \in Waiting
    BY <1>1, <2>1
  <2>3. left[i] = placed[i] /\ placed[i] = Key(line[i])
    BY <1>3, <1>7, <2>1
  <2> QED BY <2>1, <2>2, <2>3
<1>12. \A i, j \in 1..m : left[i] = left[j] => i = j
  <2> SUFFICES ASSUME NEW i \in 1..m, NEW j \in 1..m, left[i] = left[j] PROVE i = j
    OBVIOUS
  <2>1. Key(line[i]) = Key(line[j]) /\ line[i] \in table /\ line[j] \in table
    BY <1>2, <1>11
  <2>2. line[i] = line[j]
    BY <2>1 DEF EInv, Sequenced, UniqueKeys
  <2> QED BY <1>1, <1>11, <2>2
<1>13. ASSUME NEW i \in 1..m, NEW q \in table, q.aggregate = left[i].aggregate, q.sequence < left[i].sequence
       PROVE  q.position # 0 \/ \E j \in 1..(i - 1) : left[j] = Key(q)
  <2> SUFFICES ASSUME q.position = 0 PROVE \E j \in 1..(i - 1) : left[j] = Key(q)
    OBVIOUS
  <2>1. q \in Waiting
    BY DEF Waiting
  <2>2. PICK j \in 1..n : line[j] = q
    BY <1>1, <2>1
  <2> DEFINE p == line[i]
  <2>3. p \in Waiting /\ q.aggregate = p.aggregate /\ q.sequence < p.sequence /\ i \in 1..n
    <3>1. p \in Waiting /\ i \in 1..n /\ left[i] = Key(p)
      BY <1>11
    <3>2. Key(p).aggregate = p.aggregate /\ Key(p).sequence = p.sequence
      BY <1>2, <3>1, RowIs
    <3> HIDE DEF p
    <3> QED BY <1>13, <3>1, <3>2
  <2>4. PlacedAt(q) <= PlacedAt(p) /\ PlacedAt(q) \in Nat /\ PlacedAt(p) \in Nat
    BY <2>1, <2>3, PlacedAtIs
  <2>5. PlacedBefore(q, p)
    BY <2>3, <2>4 DEF PlacedBefore
  <2>6. j < i
    BY <1>1, <2>2, <2>3, <2>5
  <2>7. j \in 1..(i - 1) /\ j \in 1..m
    BY <1>1, <1>6, <2>6
  <2> QED BY <1>11, <2>2, <2>7
<1>14. \A i \in 1..m : \A p \in table : Key(p) = left[i] => p.position = 0
  <2> SUFFICES ASSUME NEW i \in 1..m, NEW p \in table, Key(p) = left[i] PROVE p.position = 0
    OBVIOUS
  <2>1. p = line[i]
    BY <1>2, <1>11 DEF EInv, Sequenced, UniqueKeys
  <2> QED BY <1>2, <1>11, <2>1
<1>15. \A i \in 1..m : \E p \in Waiting : Key(p) = left[i]
  BY <1>11
<1>16. ListOK(FreshList, table, head)
  BY <1>2, <1>7, <1>9, <1>10, <1>12, <1>13, <1>14, <1>15 DEF ListOK
<1>17. ASSUME m # NumberingWindow, NEW p \in Waiting
       PROVE  \E i \in 1..m : left[i] = Key(p)
  BY <1>1, <1>6, <1>11, <1>17
<1>18. left # <<>>
  BY <1>6, <1>7
<1> QED BY <1>7, <1>10, <1>15, <1>16, <1>17, <1>18

\* Each place of a list is in one batch.
LEMMA Steps ==
  ASSUME NEW k \in Nat \ {0}
  PROVE  \E i \in Nat : i < k /\ i * NumberingBatch \in Nat /\ i * NumberingBatch < k /\ k <= i * NumberingBatch + NumberingBatch
<1> DEFINE S == {x \in Nat : k <= x * NumberingBatch}
<1>1. NumberingBatch \in Nat /\ NumberingBatch >= 1 /\ k \in Nat
  BY Constants
<1>2. \A x \in Nat : x * NumberingBatch \in Nat /\ x <= x * NumberingBatch /\ (x + 1) * NumberingBatch = x * NumberingBatch + NumberingBatch
  BY <1>1, SMTT(30)
<1>3. k \in S
  BY <1>1, <1>2
<1>4. PICK x \in S : \A y \in S : x <= y
  BY <1>3, Least
<1>5. x # 0
  <2> SUFFICES ASSUME x = 0 PROVE FALSE
    OBVIOUS
  <2>1. k <= 0 * NumberingBatch
    OBVIOUS
  <2> QED BY <1>1, <2>1
<1> DEFINE i == x - 1
<1>6. i \in Nat /\ x = i + 1 /\ i < x
  BY <1>5
<1> HIDE DEF i
<1>7. i \notin S
  BY <1>4, <1>6
<1>8. i * NumberingBatch < k /\ i * NumberingBatch \in Nat /\ i <= i * NumberingBatch
  BY <1>1, <1>2, <1>6, <1>7
<1>9. k <= i * NumberingBatch + NumberingBatch
  BY <1>2, <1>4, <1>6
<1> QED BY <1>1, <1>6, <1>8, <1>9

LastOf(list, n) == Min({n + NumberingBatch, Len(list.left)})

LEMMA ListedIs ==
  ASSUME NEW list \in Lists, NEW n \in Nat, n < Len(list.left)
  PROVE  /\ LastOf(list, n) \in Nat /\ n < LastOf(list, n) /\ LastOf(list, n) <= Len(list.left) /\ Len(list.left) \in Nat
         /\ LastOf(list, n) = n + NumberingBatch \/ (LastOf(list, n) = Len(list.left) /\ LastOf(list, n) < n + NumberingBatch)
         /\ Listed(list, n) \in Seq(EventKeys) /\ Len(Listed(list, n)) = LastOf(list, n) - n
         /\ \A i \in 1..(LastOf(list, n) - n) : Listed(list, n)[i] = list.left[n + i]
<1> DEFINE left == list.left
           S == {n + NumberingBatch, Len(left)}
           last == LastOf(list, n)
<1>1. left \in Seq(EventKeys) /\ Len(left) \in Nat
  BY DEF Lists
<1>2. last \in S /\ \A x \in S : last <= x
  <2>1. S \in SUBSET Nat /\ S # {}
    BY <1>1, Constants
  <2> QED BY <2>1, MinIs DEF LastOf
<1> HIDE DEF last
<1>3. last \in Nat /\ n < last /\ last <= Len(left)
  BY <1>1, <1>2, Constants
<1>4. last = n + NumberingBatch \/ (last = Len(left) /\ last < n + NumberingBatch)
  BY <1>1, <1>2, Constants
<1>5. Listed(list, n) = SubSeq(left, n + 1, last)
  BY DEF Listed, LastOf, last
<1> HIDE DEF left
<1>6. SubSeq(left, n + 1, last) \in Seq(EventKeys) /\ Len(SubSeq(left, n + 1, last)) = last - n
      /\ \A i \in 1..(last - n) : SubSeq(left, n + 1, last)[i] = left[n + i]
  <2>1. Len(SubSeq(left, n + 1, last)) = last - n
    BY <1>1, <1>3
  <2>2. \A i \in 1..(last - n) : SubSeq(left, n + 1, last)[i] = left[n + i]
    BY <1>1, <1>3
  <2>3. SubSeq(left, n + 1, last) \in Seq(EventKeys)
    <3>1. \A i \in (n + 1)..last : left[i] \in EventKeys
      BY <1>1, <1>3
    <3> QED BY <1>1, <1>3, <3>1
  <2> QED BY <2>1, <2>2, <2>3
<1> QED BY <1>1, <1>3, <1>4, <1>5, <1>6 DEF last, left

\* A batch takes from its part of the list, in the list's order, what waits.
Picks(list, n, keys, line) ==
  /\ keys \in Seq(EventKeys) /\ line \in [1..Len(keys) -> (n + 1)..LastOf(list, n)]
  /\ \A i \in 1..Len(keys) : keys[i] = list.left[line[i]]
  /\ \A i, j \in 1..Len(keys) : i < j => line[i] < line[j]
  /\ \A i \in 1..Len(keys) : \E p \in Waiting : Key(p) = keys[i]
  /\ \A k \in (n + 1)..LastOf(list, n) :
       (\E p \in Waiting : Key(p) = list.left[k]) => \E i \in 1..Len(keys) : line[i] = k

LEMMA BatchPicks ==
  ASSUME EInv, NEW list \in Lists, ListOK(list, table, head), NEW n \in Nat, n < Len(list.left)
  PROVE  \E line : Picks(list, n, Batch(list, n), line)
<1> DEFINE left == list.left
           last == LastOf(list, n)
           L == Listed(list, n)
<1>1. /\ last \in Nat /\ n < last /\ last <= Len(left) /\ Len(left) \in Nat
      /\ L \in Seq(EventKeys) /\ Len(L) = last - n
      /\ \A i \in 1..(last - n) : L[i] = left[n + i]
  BY ListedIs
<1>2. left \in Seq(EventKeys) /\ DOMAIN left = 1..Len(left)
  BY DEF Lists
<1>3. CASE list.head = head
  <2>1. Batch(list, n) = L
    BY <1>3 DEF Batch
  <2> HIDE DEF L, last
  <2> DEFINE line == [i \in 1..Len(L) |-> n + i]
  <2>2. line \in [1..Len(L) -> (n + 1)..last]
    BY <1>1
  <2>3. \A i \in 1..Len(L) : L[i] = left[line[i]] /\ line[i] = n + i
    BY <1>1
  <2>4. \A i, j \in 1..Len(L) : i < j => line[i] < line[j]
    BY <1>1
  <2>5. \A k \in (n + 1)..last : \E i \in 1..Len(L) : line[i] = k
    <3> SUFFICES ASSUME NEW k \in (n + 1)..last PROVE \E i \in 1..Len(L) : line[i] = k
      OBVIOUS
    <3>1. k - n \in 1..Len(L) /\ n + (k - n) = k
      BY <1>1
    <3> QED BY <2>3, <3>1
  <2>6. \A i \in 1..Len(L) : \E p \in Waiting : Key(p) = L[i]
    <3> SUFFICES ASSUME NEW i \in 1..Len(L) PROVE \E p \in Waiting : Key(p) = L[i]
      OBVIOUS
    <3>1. n + i \in DOMAIN left /\ L[i] = left[n + i]
      BY <1>1, <1>2
    <3>2. PICK p \in table : Key(p) = left[n + i]
      BY <3>1 DEF ListOK
    <3>3. p.position = 0
      BY <1>3, <3>1, <3>2 DEF ListOK
    <3> QED BY <3>1, <3>2, <3>3 DEF Waiting
  <2> HIDE DEF line
  <2>7. Picks(list, n, L, line)
    BY <1>1, <2>2, <2>3, <2>4, <2>5, <2>6 DEF Picks, last
  <2> QED BY <2>1, <2>7
<1>4. CASE list.head # head
  <2>1. Batch(list, n) = StillUnnumbered(L)
    BY <1>4 DEF Batch
  <2> HIDE DEF L, last
  <2> DEFINE at == {i \in DOMAIN L : \E p \in Waiting : Key(p) = L[i]}
             a == AtLine(at)
             keys == StillUnnumbered(L)
             line == [i \in 1..Cardinality(at) |-> n + a[i]]
  <2>2. DOMAIN L = 1..(last - n) /\ \A i \in 1..(last - n) : L[i] \in EventKeys
    BY <1>1
  <2>3. at \in SUBSET Nat /\ IsFiniteSet(at) /\ at \in SUBSET (1..(last - n))
    <3>1. IsFiniteSet(1..(last - n))
      BY <1>1, FS_Interval
    <3>2. at \in SUBSET (1..(last - n))
      BY <2>2
    <3>3. 1..(last - n) \in SUBSET Nat
      BY <1>1
    <3> HIDE DEF at
    <3> QED BY <3>1, <3>2, <3>3, FS_Subset
  <2>4. \A k \in at : \E p \in Waiting : Key(p) = L[k]
    OBVIOUS
  <2>5. \A k \in 1..(last - n) : (\E p \in Waiting : Key(p) = L[k]) => k \in at
    BY <2>2
  <2>6. keys = [i \in DOMAIN a |-> L[a[i]]]
    BY DEF StillUnnumbered, AtLine
  <2> HIDE DEF at
  <2>7. /\ Cardinality(at) \in Nat /\ a \in [1..Cardinality(at) -> at]
        /\ \A i, j \in 1..Cardinality(at) : i < j <=> a[i] < a[j]
        /\ \A k \in at : \E i \in 1..Cardinality(at) : a[i] = k
    BY <2>3, PlacesInLine
  <2> HIDE DEF a
  <2>8. keys \in [1..Cardinality(at) -> EventKeys] /\ \A i \in 1..Cardinality(at) : keys[i] = L[a[i]] /\ a[i] \in at
    <3>1. \A i \in 1..Cardinality(at) : a[i] \in at /\ a[i] \in 1..(last - n)
      BY <2>3, <2>7
    <3> QED BY <2>2, <2>6, <2>7, <3>1
  <2> HIDE DEF keys
  <2>9. keys \in Seq(EventKeys) /\ Len(keys) = Cardinality(at)
    BY <2>7, <2>8
  <2>10. \A i \in 1..Len(keys) : /\ line[i] = n + a[i] /\ a[i] \in 1..(last - n) /\ line[i] \in (n + 1)..last
                                 /\ keys[i] = left[line[i]]
    <3> SUFFICES ASSUME NEW i \in 1..Len(keys)
                 PROVE  /\ line[i] = n + a[i] /\ a[i] \in 1..(last - n) /\ line[i] \in (n + 1)..last
                        /\ keys[i] = left[line[i]]
      OBVIOUS
    <3>1. line[i] = n + a[i] /\ a[i] \in 1..(last - n) /\ keys[i] = L[a[i]]
      BY <2>3, <2>8, <2>9
    <3>2. line[i] \in (n + 1)..last
      BY <1>1, <3>1
    <3> QED BY <1>1, <3>1, <3>2
  <2>11. line \in [1..Len(keys) -> (n + 1)..last]
    BY <2>9, <2>10
  <2>12. \A i, j \in 1..Len(keys) : i < j => line[i] < line[j]
    <3> SUFFICES ASSUME NEW i \in 1..Len(keys), NEW j \in 1..Len(keys), i < j PROVE line[i] < line[j]
      OBVIOUS
    <3>1. a[i] < a[j]
      BY <2>7, <2>9
    <3> HIDE DEF line
    <3>2. line[i] = n + a[i] /\ line[j] = n + a[j] /\ a[i] \in 1..(last - n) /\ a[j] \in 1..(last - n)
      BY <2>10
    <3> QED BY <1>1, <3>1, <3>2
  <2>13. \A i \in 1..Len(keys) : \E p \in Waiting : Key(p) = keys[i]
    BY <2>4, <2>8, <2>9
  <2>14. \A k \in (n + 1)..last :
           (\E p \in Waiting : Key(p) = left[k]) => \E i \in 1..Len(keys) : line[i] = k
    <3> SUFFICES ASSUME NEW k \in (n + 1)..last, \E p \in Waiting : Key(p) = left[k]
                 PROVE  \E i \in 1..Len(keys) : line[i] = k
      OBVIOUS
    <3>1. k - n \in 1..(last - n) /\ n + (k - n) = k
      BY <1>1
    <3>2. L[k - n] = left[k]
      BY <1>1, <3>1
    <3>3. k - n \in at
      BY <2>5, <3>1, <3>2
    <3>4. PICK i \in 1..Cardinality(at) : a[i] = k - n
      BY <2>7, <3>3
    <3> QED BY <2>9, <2>10, <3>1, <3>4
  <2> HIDE DEF line
  <2>15. Picks(list, n, keys, line)
    BY <2>9, <2>10, <2>11, <2>12, <2>13, <2>14 DEF Picks, last
  <2> QED BY <2>1, <2>15 DEF keys
<1> QED BY <1>3, <1>4

\* What a list's first batch with something to number passes over is numbered.
LEMMA FirstBatch ==
  ASSUME EInv, NEW list \in Lists, ListOK(list, table, head), BatchesLeft(list) # {}
  PROVE  LET n == Min(BatchesLeft(list))
         IN  /\ n \in Nat /\ n < Len(list.left) /\ Batch(list, n) # <<>>
             /\ \A k \in 1..n, p \in Waiting : Key(p) # list.left[k]
<1> DEFINE B == BatchesLeft(list)
           n == Min(B)
           left == list.left
<1>1. \A i \in Nat : i * NumberingBatch \in Nat
  BY Constants
<1>2. left \in Seq(EventKeys) /\ Len(left) \in Nat /\ DOMAIN left = 1..Len(left)
  BY DEF Lists
<1>3. \A m \in B : m \in Nat /\ m < Len(left) /\ Batch(list, m) # <<>>
  BY <1>1, <1>2 DEF BatchesLeft
<1>4. \A i \in Nat : i <= Len(left) /\ i * NumberingBatch < Len(left) /\ Batch(list, i * NumberingBatch) # <<>> =>
                      i * NumberingBatch \in B
  BY <1>2 DEF BatchesLeft
<1> HIDE DEF B
<1>5. n \in B /\ \A m \in B : n <= m
  BY <1>3, MinIs DEF B
<1> HIDE DEF n
<1>6. n \in Nat /\ n < Len(left) /\ Batch(list, n) # <<>>
  BY <1>3, <1>5
<1>7. ASSUME NEW k \in 1..n, NEW p \in Waiting, Key(p) = left[k]
      PROVE  FALSE
  <2>1. k \in Nat \ {0} /\ k <= n
    BY <1>6
  <2>2. PICK i \in Nat : /\ i < k /\ i * NumberingBatch \in Nat /\ i * NumberingBatch < k
                         /\ k <= i * NumberingBatch + NumberingBatch
    BY <2>1, Steps
  <2> DEFINE m == i * NumberingBatch
  <2>3. m \in Nat /\ m < n /\ m < Len(left) /\ i <= Len(left) /\ ~(n <= m)
    BY <1>2, <1>6, <2>1, <2>2
  <2>4. Batch(list, m) = <<>>
    BY <1>4, <1>5, <2>3
  <2>5. k \in (m + 1)..LastOf(list, m)
    <3>1. m < k /\ k <= m + NumberingBatch /\ k <= Len(left)
      BY <1>2, <1>6, <2>1, <2>2
    <3>2. /\ LastOf(list, m) \in Nat
          /\ LastOf(list, m) = m + NumberingBatch \/ (LastOf(list, m) = Len(left) /\ LastOf(list, m) < m + NumberingBatch)
      BY <2>3, ListedIs
    <3> QED BY <2>1, <2>3, <3>1, <3>2
  <2> HIDE DEF m
  <2>6. PICK line : Picks(list, m, Batch(list, m), line)
    BY <2>3, BatchPicks
  <2>7. \E j \in 1..Len(Batch(list, m)) : line[j] = k
    BY <1>7, <2>5, <2>6 DEF Picks
  <2>8. Len(Batch(list, m)) = 0
    BY <2>4
  <2> QED BY <2>7, <2>8
<1> QED BY <1>6, <1>7 DEF n, B

LEMMA BatchIsBatched ==
  ASSUME EInv, NEW list \in Lists, ListOK(list, table, head), NEW n \in Nat, n < Len(list.left),
         \A k \in 1..n, p \in Waiting : Key(p) # list.left[k]
  PROVE  Batched(Batch(list, n))
<1> DEFINE left == list.left
           keys == Batch(list, n)
           last == LastOf(list, n)
<1>1. last \in Nat /\ n < last /\ last <= Len(left) /\ Len(left) \in Nat
  BY ListedIs
<1>2. left \in Seq(EventKeys) /\ DOMAIN left = 1..Len(left)
  BY DEF Lists
<1>3. PICK line : Picks(list, n, keys, line)
  BY BatchPicks
<1> HIDE DEF keys, last
<1>4. /\ keys \in Seq(EventKeys) /\ DOMAIN keys = 1..Len(keys) /\ Len(keys) \in Nat
      /\ \A i \in 1..Len(keys) : line[i] \in (n + 1)..last /\ line[i] \in DOMAIN left /\ keys[i] = left[line[i]]
      /\ \A i, j \in 1..Len(keys) : i < j => line[i] < line[j]
      /\ \A i \in 1..Len(keys) : \E p \in Waiting : Key(p) = keys[i]
      /\ \A k \in (n + 1)..last :
           (\E p \in Waiting : Key(p) = left[k]) => \E i \in 1..Len(keys) : line[i] = k
  <2>1. keys \in Seq(EventKeys) /\ DOMAIN keys = 1..Len(keys) /\ Len(keys) \in Nat
    BY <1>3 DEF Picks
  <2>2. line \in [1..Len(keys) -> (n + 1)..last]
    BY <1>3 DEF Picks, last
  <2>3. \A i \in 1..Len(keys) : line[i] \in (n + 1)..last
    BY <2>2
  <2>4. \A i \in 1..Len(keys) : line[i] \in DOMAIN left
    BY <1>1, <1>2, <2>3
  <2> QED BY <1>3, <2>1, <2>3, <2>4 DEF Picks, last
<1>5. ASSUME NEW i \in 1..Len(keys), NEW j \in 1..Len(keys), keys[i] = keys[j]
      PROVE  i = j
  <2>1. line[i] = line[j] /\ line[i] \in Int
    BY <1>1, <1>4, <1>5 DEF ListOK
  <2>2. ~(i < j) /\ ~(j < i) /\ i \in Nat /\ j \in Nat
    BY <1>4, <2>1
  <2> QED BY <2>2
<1>6. ASSUME NEW i \in 1..Len(keys), NEW q \in table
      PROVE  Precedes(keys, i, q)
  <2> SUFFICES ASSUME q.aggregate = keys[i].aggregate, q.sequence < keys[i].sequence, q.position = 0
               PROVE  \E j \in 1..(i - 1) : keys[j] = Key(q)
    BY DEF Precedes
  <2>1. q \in Waiting
    BY DEF Waiting
  <2>2. PICK k \in 1..(line[i] - 1) : left[k] = Key(q)
    <3> DEFINE m == line[i]
    <3>1. m \in DOMAIN left /\ q.aggregate = left[m].aggregate /\ q.sequence < left[m].sequence
      BY <1>4
    <3> HIDE DEF m
    <3>2. q.position # 0 \/ \E j \in 1..(m - 1) : left[j] = Key(q)
      BY <3>1 DEF ListOK
    <3> QED BY <3>2 DEF m
  <2>3. line[i] \in Nat /\ line[i] <= last /\ k \in Nat /\ k < line[i] /\ k >= 1
    BY <1>1, <1>4
  <2>4. ~(k <= n)
    BY <2>1, <2>2, <2>3
  <2>5. k \in (n + 1)..last
    BY <1>1, <2>3, <2>4
  <2>6. PICK j \in 1..Len(keys) : line[j] = k
    BY <1>4, <2>1, <2>2, <2>5
  <2>7. j < i
    <3>1. ~(i < j) /\ i # j
      BY <1>4, <2>3, <2>6
    <3> QED BY <1>4, <3>1
  <2>8. j \in 1..(i - 1) /\ keys[j] = Key(q)
    BY <1>4, <2>2, <2>6, <2>7
  <2> QED BY <2>8
<1> QED BY <1>4, <1>5, <1>6 DEF Batched, keys

-------------------------------------------------------------------------------
(* The rounds. *)

\* What is left of a list after its batch is a list to number from.
LEMMA RestStays ==
  ASSUME EInv, NEW list \in Lists, ListOK(list, table, head), BatchesLeft(list) # {},
         NEW n, n = Min(BatchesLeft(list)), NEW keys, keys = Batch(list, n), NumbersFrom(head, keys),
         NEW after, after = [list EXCEPT !.left = SubSeq(list.left, n + NumberingBatch + 1, Len(list.left)),
                                         !.head = IF @ = head THEN head + Len(keys) ELSE -1]
  PROVE  after \in Lists /\ ListOK(after, table', head')
<1> DEFINE left == list.left
           last == LastOf(list, n)
           b == n + NumberingBatch
           rest == SubSeq(left, b + 1, Len(left))
           N(p) == NumberedRow(head, keys, p)
<1>1. n \in Nat /\ n < Len(left) /\ \A k \in 1..n, p \in Waiting : Key(p) # left[k]
  BY FirstBatch
<1>2. /\ last \in Nat /\ n < last /\ last <= Len(left) /\ Len(left) \in Nat
      /\ last = b \/ (last = Len(left) /\ last < b)
  BY <1>1, ListedIs
<1>3. left \in Seq(EventKeys) /\ DOMAIN left = 1..Len(left) /\ b \in Nat
  BY <1>1, Constants DEF Lists
<1>4. PICK line : Picks(list, n, keys, line)
  BY <1>1, BatchPicks
<1>5. Batched(keys)
  BY <1>1, BatchIsBatched
<1>6. /\ head' = head + Len(keys) /\ head \in Nat /\ Len(keys) \in Nat /\ DOMAIN keys = 1..Len(keys)
      /\ \A p \in table : N(p) \in table'
      /\ \A q \in table' : \E p \in table : q = N(p)
      /\ \A p \in table : /\ N(p) \in Row /\ Key(N(p)) = Key(p)
                          /\ p.position # 0 \/ (\A i \in DOMAIN keys : keys[i] # Key(p)) => N(p) = p
                          /\ \A i \in DOMAIN keys : keys[i] = Key(p) => N(p).position = head + i
  BY <1>5, NumberedIs
<1> HIDE DEF N, last, b
<1>7. /\ rest \in Seq(EventKeys) /\ DOMAIN rest = 1..Len(rest)
      /\ \A i \in DOMAIN rest : b + i \in DOMAIN left /\ rest[i] = left[b + i] /\ i \in Nat \ {0}
      /\ \A k \in DOMAIN left : b < k => k - b \in DOMAIN rest /\ rest[k - b] = left[k]
  <2> DEFINE z == left
  <2>0. z \in Seq(EventKeys) /\ Len(z) \in Nat /\ DOMAIN z = 1..Len(z) /\ b \in Nat
    BY <1>3
  <2> HIDE DEF z
  <2>1. CASE b < Len(z)
    <3>1. Len(SubSeq(z, b + 1, Len(z))) = Len(z) - b
      BY <2>0, <2>1
    <3>2. \A i \in 1..(Len(z) - b) : SubSeq(z, b + 1, Len(z))[i] = z[b + i]
      BY <2>0, <2>1
    <3>3. SubSeq(z, b + 1, Len(z)) \in Seq(EventKeys)
      <4>1. \A i \in (b + 1)..Len(z) : z[i] \in EventKeys
        BY <2>0
      <4> QED BY <2>0, <2>1, <4>1
    <3> DEFINE x == SubSeq(z, b + 1, Len(z))
    <3>4. x \in Seq(EventKeys) /\ Len(x) = Len(z) - b /\ \A i \in 1..(Len(z) - b) : x[i] = z[b + i]
      BY <3>1, <3>2, <3>3
    <3>5. rest = x
      BY DEF z
    <3> HIDE DEF x, rest
    <3>6. DOMAIN x = 1..(Len(z) - b)
      BY <3>4
    <3>7. \A i \in DOMAIN x : b + i \in DOMAIN z /\ x[i] = z[b + i] /\ i \in Nat \ {0}
      BY <2>0, <2>1, <3>4, <3>6
    <3>8. \A k \in DOMAIN z : b < k => k - b \in DOMAIN x /\ x[k - b] = z[k]
      <4> SUFFICES ASSUME NEW k \in DOMAIN z, b < k PROVE k - b \in DOMAIN x /\ x[k - b] = z[k]
        OBVIOUS
      <4>1. k - b \in 1..(Len(z) - b) /\ b + (k - b) = k
        BY <2>0, <2>1
      <4> QED BY <3>4, <3>6, <4>1
    <3> QED BY <3>4, <3>5, <3>6, <3>7, <3>8 DEF z
  <2>2. CASE ~(b < Len(z))
    <3>1. SubSeq(z, b + 1, Len(z)) = <<>>
      BY <2>0, <2>2
    <3>2. \A k \in DOMAIN z : ~(b < k)
      BY <2>0, <2>2
    <3>3. rest = <<>> /\ <<>> \in Seq(EventKeys) /\ DOMAIN <<>> = 1..Len(<<>>) /\ DOMAIN <<>> = {}
      BY <3>1 DEF z
    <3> HIDE DEF rest
    <3> QED BY <3>2, <3>3 DEF z
  <2> QED BY <2>1, <2>2
<1> DEFINE h == IF list.head = head THEN head + Len(keys) ELSE -1
<1>8. h \in Int /\ (list.head = head => h = head') /\ (list.head # head => h = -1)
  BY <1>6
<1> HIDE DEF h, rest
<1>9. after \in Lists /\ after.left = rest /\ after.head = h
  <2>1. after = [list EXCEPT !.left = rest, !.head = h]
    BY DEF rest, h, b
  <2>2. after.left = rest /\ after.head = h /\ after.id = list.id /\ after = [id |-> list.id, left |-> rest, head |-> h]
    BY <2>1 DEF Lists
  <2>3. list.id \in Nat
    BY DEF Lists
  <2> QED BY <1>7, <1>8, <2>2, <2>3 DEF Lists
<1>10. \A i, j \in DOMAIN rest : rest[i] = rest[j] => i = j
  <2> SUFFICES ASSUME NEW i \in DOMAIN rest, NEW j \in DOMAIN rest, rest[i] = rest[j] PROVE i = j
    OBVIOUS
  <2>1. b + i \in DOMAIN left /\ b + j \in DOMAIN left /\ left[b + i] = left[b + j] /\ i \in Nat /\ j \in Nat
    BY <1>7
  <2>2. b + i = b + j
    BY <2>1 DEF ListOK
  <2> QED BY <1>3, <2>1, <2>2
<1>11. \A i \in DOMAIN rest : \E p \in table' : Key(p) = rest[i]
  <2> TAKE i \in DOMAIN rest
  <2>1. PICK p \in table : Key(p) = left[b + i]
    BY <1>7 DEF ListOK
  <2> QED BY <1>6, <1>7, <2>1
<1>12. ASSUME NEW i \in DOMAIN rest, NEW q \in table', q.aggregate = rest[i].aggregate, q.sequence < rest[i].sequence
       PROVE  q.position # 0 \/ \E j \in 1..(i - 1) : rest[j] = Key(q)
  <2>1. PICK p \in table : q = N(p)
    BY <1>6
  <2>2. p.aggregate = q.aggregate /\ p.sequence = q.sequence /\ Key(p) = Key(q)
    BY <1>6, <2>1, SameKeyIs
  <2> DEFINE m == b + i
  <2>3. m \in DOMAIN left /\ rest[i] = left[m] /\ i \in Nat /\ i # 0
    BY <1>7
  <2>4. m \in Nat
    BY <1>3, <2>3
  <2> HIDE DEF m
  <2>5. p.position # 0 \/ \E j \in 1..(m - 1) : left[j] = Key(p)
    BY <1>12, <2>2, <2>3 DEF ListOK
  <2>6. CASE p.position # 0
    BY <1>6, <2>1, <2>6
  <2>7. CASE p.position = 0 /\ \E j \in 1..(m - 1) : left[j] = Key(p)
    <3>1. PICK j \in 1..(m - 1) : left[j] = Key(p)
      BY <2>7
    <3>2. p \in Waiting
      BY <2>7 DEF Waiting
    <3>3. j \in Nat /\ j >= 1 /\ j < m /\ j \in DOMAIN left
      BY <1>3, <2>3, <2>4
    <3>4. ~(j <= n)
      BY <1>1, <3>1, <3>2, <3>3
    <3>5. CASE j <= b
      <4>1. j \in (n + 1)..last
        BY <1>1, <1>2, <1>3, <3>3, <3>4, <3>5
      <4>2. PICK k \in 1..Len(keys) : line[k] = j
        BY <1>4, <3>1, <3>2, <4>1 DEF Picks, last
      <4>3. keys[k] = Key(p)
        BY <1>4, <3>1, <4>2 DEF Picks
      <4>4. q.position = head + k
        BY <1>6, <2>1, <4>2, <4>3
      <4> QED BY <1>6, <4>4
    <3>6. CASE b < j
      <4>1. j - b \in DOMAIN rest /\ rest[j - b] = Key(q)
        BY <1>7, <2>2, <3>1, <3>3, <3>6
      <4>2. j - b \in 1..(i - 1)
        BY <1>3, <2>3, <3>3, <3>6 DEF m
      <4> QED BY <4>1, <4>2
    <3> QED BY <1>3, <3>3, <3>5, <3>6
  <2> QED BY <2>5, <2>6, <2>7
<1>13. h >= -1 /\ h <= head'
  BY <1>6, <1>8
<1>14. ASSUME h = head', NEW i \in DOMAIN rest, NEW q \in table', Key(q) = rest[i]
       PROVE  q.position = 0
  <2>1. list.head = head
    BY <1>6, <1>8, <1>14
  <2>2. PICK p \in table : q = N(p)
    BY <1>6
  <2>3. Key(p) = left[b + i] /\ b + i \in DOMAIN left /\ i \in Nat \ {0}
    BY <1>6, <1>7, <1>14, <2>2
  <2>4. p.position = 0
    BY <2>1, <2>3 DEF ListOK
  <2>5. ASSUME NEW k \in 1..Len(keys), keys[k] = Key(p) PROVE FALSE
    <3> DEFINE m == b + i
               l == line[k]
    <3>1. l \in (n + 1)..last /\ left[l] = left[m]
      BY <1>4, <2>3, <2>5 DEF Picks, last
    <3>2. m \in DOMAIN left
      BY <2>3
    <3>3. l \in DOMAIN left /\ l \in Nat /\ l <= b
      BY <1>1, <1>2, <1>3, <3>1
    <3>4. l < m
      BY <1>3, <2>3, <3>3
    <3> HIDE DEF m, l
    <3>5. l = m
      BY <3>1, <3>2, <3>3 DEF ListOK
    <3> QED BY <3>3, <3>4, <3>5
  <2>6. q = p
    BY <1>6, <2>2, <2>5
  <2> QED BY <2>4, <2>6
<1>15. \A i \in DOMAIN rest, q \in table' :
         q.aggregate = rest[i].aggregate /\ q.sequence < rest[i].sequence =>
           q.position # 0 \/ \E j \in 1..(i - 1) : rest[j] = Key(q)
  BY <1>12
<1>16. h = head' => \A i \in DOMAIN rest : \A q \in table' : Key(q) = rest[i] => q.position = 0
  BY <1>14
<1>17. ListOK(after, table', head')
  <2>1. \A i, j \in DOMAIN after.left : after.left[i] = after.left[j] => i = j
    BY <1>9, <1>10
  <2>2. \A i \in DOMAIN after.left : \E p \in table' : Key(p) = after.left[i]
    BY <1>9, <1>11
  <2>3. \A i \in DOMAIN after.left, q \in table' :
          q.aggregate = after.left[i].aggregate /\ q.sequence < after.left[i].sequence =>
            q.position # 0 \/ \E j \in 1..(i - 1) : after.left[j] = Key(q)
    BY <1>9, <1>15, Zenon
  <2>4. after.head >= -1 /\ after.head <= head'
    BY <1>9, <1>13
  <2>5. after.head = head' => \A i \in DOMAIN after.left : \A p \in table' : Key(p) = after.left[i] => p.position = 0
    BY <1>9, <1>16, Zenon
  <2> QED BY <2>1, <2>2, <2>3, <2>4, <2>5, Zenon DEF ListOK
<1> QED BY <1>9, <1>17

\* The list a round works on.
LEMMA RoundList ==
  ASSUME EInv, Waiting # {}, NEW s \in Stores
  PROVE  /\ ListOf(s) \in Lists /\ ListOK(ListOf(s), table, head) /\ BatchesLeft(ListOf(s)) # {}
         /\ Batched(Numbered(s))
<1>1. backlog[s] \in Lists /\ ListOK(backlog[s], table, head)
  BY DEF EInv, EventTypes, ListsKept
<1>2. /\ FreshList \in Lists /\ FreshList.left # <<>> /\ FreshList.head = head /\ ListOK(FreshList, table, head)
  BY FreshIs
<1>3. BatchesLeft(FreshList) # {}
  <2>1. Len(FreshList.left) \in Nat /\ Len(FreshList.left) # 0
    BY <1>2 DEF Lists
  <2>2. /\ LastOf(FreshList, 0) \in Nat /\ 0 < LastOf(FreshList, 0)
        /\ Len(Listed(FreshList, 0)) = LastOf(FreshList, 0) - 0
    BY <1>2, <2>1, ListedIs
  <2>3. Batch(FreshList, 0) = Listed(FreshList, 0)
    BY <1>2 DEF Batch
  <2>4. Batch(FreshList, 0) # <<>>
    BY <2>2, <2>3
  <2>5. 0 * NumberingBatch = 0 /\ 0 \in 0..Len(FreshList.left)
    BY <2>1, Constants
  <2>6. 0 \in {i * NumberingBatch : i \in 0..Len(FreshList.left)}
    BY <2>5
  <2>7. 0 \in BatchesLeft(FreshList)
    BY <2>1, <2>4, <2>6 DEF BatchesLeft
  <2> QED BY <2>7
<1>4. ListOf(s) \in Lists /\ ListOK(ListOf(s), table, head) /\ BatchesLeft(ListOf(s)) # {}
  BY <1>1, <1>2, <1>3 DEF ListOf, IsUsedUp
<1> DEFINE list == ListOf(s)
           n == Min(BatchesLeft(list))
<1>5. n \in Nat /\ n < Len(list.left) /\ \A k \in 1..n, p \in Waiting : Key(p) # list.left[k]
  BY <1>4, FirstBatch
<1> HIDE DEF list, n
<1>6. Batched(Batch(list, n))
  BY <1>4, <1>5, BatchIsBatched DEF list
<1> QED BY <1>4, <1>6 DEF Numbered, list, n

\* A round that says there is no more has numbered all that waited.
LEMMA SaysNoMore ==
  ASSUME EInv, Waiting # {}, NEW s \in Stores, ~More(s)
  PROVE  LeftWaiting(s) = {}
<1>1. ListAfter(s).left = <<>>
  BY DEF More
<1>2. CASE ~IsUsedUp(s)
  BY <1>1, <1>2 DEF More
<1>3. CASE IsUsedUp(s)
  <2> DEFINE list == FreshList
             n == Min(BatchesLeft(list))
             left == list.left
  <2>1. ListOf(s) = list /\ Len(list.left) # NumberingWindow
    BY <1>1, <1>3 DEF More, ListOf
  <2>2. /\ list \in Lists /\ list.head = head /\ ListOK(list, table, head)
        /\ \A p \in Waiting : \E i \in DOMAIN list.left : list.left[i] = Key(p)
    BY <2>1, FreshIs
  <2>3. BatchesLeft(list) # {}
    BY <2>1, RoundList
  <2> HIDE DEF list
  <2>4. n \in Nat /\ n < Len(left) /\ \A k \in 1..n, p \in Waiting : Key(p) # left[k]
    BY <2>2, <2>3, FirstBatch
  <2>5. Numbered(s) = Batch(list, n)
    BY <2>1 DEF Numbered
  <2>6. left \in Seq(EventKeys) /\ Len(left) \in Nat /\ DOMAIN left = 1..Len(left) /\ NumberingBatch \in Nat
    BY <2>2, Constants DEF Lists
  <2>7. SubSeq(left, n + NumberingBatch + 1, Len(left)) = <<>>
    <3> DEFINE rest == SubSeq(left, n + NumberingBatch + 1, Len(left))
               h == IF list.head = head THEN head + Len(Numbered(s)) ELSE -1
    <3>1. ListAfter(s) = [list EXCEPT !.left = rest, !.head = h]
      BY <2>1 DEF ListAfter
    <3> HIDE DEF rest, h
    <3>2. ListAfter(s).left = rest
      BY <2>2, <3>1 DEF Lists
    <3> QED BY <1>1, <3>2 DEF rest
  <2> HIDE DEF n
  <2>8. Len(left) <= n + NumberingBatch
    <3> SUFFICES ASSUME n + NumberingBatch < Len(left) PROVE FALSE
      BY <2>4, <2>6
    <3> DEFINE b == n + NumberingBatch
               z == left
    <3>1. b \in Nat /\ z \in Seq(EventKeys) /\ b < Len(z) /\ Len(z) \in Nat
      BY <2>4, <2>6
    <3>2. SubSeq(z, b + 1, Len(z)) = <<>>
      BY <2>7
    <3> HIDE DEF b, z
    <3>3. Len(SubSeq(z, b + 1, Len(z))) = Len(z) - b
      BY <3>1
    <3>4. Len(<<>>) = 0
      OBVIOUS
    <3>5. Len(z) - b = 0
      <4> DEFINE x == SubSeq(z, b + 1, Len(z))
      <4>1. Len(x) = Len(z) - b /\ x = <<>>
        BY <3>2, <3>3
      <4> HIDE DEF x
      <4>2. Len(x) = 0
        BY <3>4, <4>1, Zenon
      <4> QED BY <4>1, <4>2
    <3> QED BY <3>1, <3>5
  <2>9. LastOf(list, n) = Len(left)
    BY <2>2, <2>4, <2>6, <2>8, ListedIs
  <2>10. PICK line : Picks(list, n, Batch(list, n), line)
    BY <2>2, <2>4, BatchPicks
  <2>11. ASSUME NEW p \in Waiting
         PROVE  Key(p) \in ToSet(Numbered(s))
    <3>1. PICK k \in DOMAIN left : left[k] = Key(p)
      BY <2>2
    <3>2. k \in 1..Len(left) /\ ~(k \in 1..n)
      BY <2>4, <2>6, <3>1
    <3>3. k \in (n + 1)..LastOf(list, n)
      BY <2>4, <2>6, <2>9, <3>2
    <3> DEFINE keys == Batch(list, n)
    <3>4. keys = Numbered(s)
      BY <2>5 DEF n
    <3> HIDE DEF keys
    <3>5. PICK i \in 1..Len(keys) : line[i] = k
      BY <2>10, <3>1, <3>3 DEF Picks, keys
    <3>6. keys[i] = Key(p) /\ DOMAIN keys = 1..Len(keys)
      BY <2>10, <3>1, <3>5 DEF Picks, keys
    <3>7. Key(p) \in ToSet(keys)
      BY <3>5, <3>6 DEF ToSet
    <3> QED BY <3>4, <3>7
  <2> QED BY <2>11 DEF LeftWaiting
<1> QED BY <1>2, <1>3

LEMMA HeadForgotten ==
  ASSUME NEW list \in Lists, NEW rows, NEW last \in Nat, ListOK(list, rows, last)
  PROVE  [list EXCEPT !.head = -1] \in Lists /\ ListOK([list EXCEPT !.head = -1], rows, last)
<1> DEFINE other == [list EXCEPT !.head = -1]
<1>1. other.left = list.left /\ other.head = -1 /\ other \in Lists
  BY DEF Lists
<1> HIDE DEF other
<1>2. \A i, j \in DOMAIN other.left : other.left[i] = other.left[j] => i = j
  BY <1>1 DEF ListOK
<1>3. \A i \in DOMAIN other.left : \E p \in rows : Key(p) = other.left[i]
  BY <1>1 DEF ListOK
<1>4. \A i \in DOMAIN other.left, q \in rows :
        q.aggregate = other.left[i].aggregate /\ q.sequence < other.left[i].sequence =>
          q.position # 0 \/ \E j \in 1..(i - 1) : other.left[j] = Key(q)
  <2>1. \A i \in DOMAIN list.left, q \in rows :
          q.aggregate = list.left[i].aggregate /\ q.sequence < list.left[i].sequence =>
            q.position # 0 \/ \E j \in 1..(i - 1) : list.left[j] = Key(q)
    BY DEF ListOK
  <2>2. other.left = list.left
    BY <1>1
  <2> QED BY ONLY <2>1, <2>2, Zenon
<1>5. other.head >= -1 /\ other.head <= last /\ other.head # last
  BY <1>1
<1>6. ListOK(other, rows, last)
  BY <1>2, <1>3, <1>4, <1>5, Zenon DEF ListOK
<1> QED BY <1>1, <1>6 DEF other

\* A round's list is its store's before anything is numbered.
LEMMA RoundsBacklog ==
  ASSUME EInv, NEW r \in Readers, Rounds(r)
  PROVE  /\ strategy = "head-row" /\ Waiting # {} /\ storeOf[r] \in Stores /\ UNCHANGED <<strategy, storeOf, writerVars>>
         /\ backlog' \in [Stores -> Lists] /\ \A s \in Stores : ListOK(backlog'[s], table, head)
         /\ \A s \in Stores : backlog'[s].id \in Ids \cup {FreshList.id}
<1> DEFINE t == storeOf[r]
           fresh == [FreshList EXCEPT !.head = -1]
<1>1. /\ strategy = "head-row" /\ Waiting # {} /\ UNCHANGED <<strategy, storeOf, writerVars>>
      /\ backlog' = [backlog EXCEPT ![t] = IF IsUsedUp(t) THEN fresh ELSE backlog[t]]
  BY DEF Rounds
<1>2. t \in Stores /\ backlog \in [Stores -> Lists] /\ head \in Nat
  BY DEF EInv, EventTypes
<1>3. fresh \in Lists /\ ListOK(fresh, table, head) /\ fresh.id = FreshList.id
  <2>1. FreshList \in Lists /\ ListOK(FreshList, table, head)
    BY <1>1, FreshIs
  <2>2. fresh.id = FreshList.id
    BY <2>1 DEF Lists
  <2> QED BY <1>2, <2>1, <2>2, HeadForgotten
<1> HIDE DEF t, fresh
<1>4. \A s \in Stores : backlog'[s] = backlog[s] \/ backlog'[s] = fresh
  BY <1>1, <1>2
<1>5. \A s \in Stores : backlog[s] \in Lists /\ ListOK(backlog[s], table, head) /\ backlog[s].id \in Ids
  BY <1>2 DEF EInv, ListsKept, Ids
<1>6. backlog' \in [Stores -> Lists]
  <2>1. DOMAIN backlog' = Stores /\ backlog' = [s \in Stores |-> backlog'[s]]
    BY <1>1, <1>2
  <2> QED BY <1>3, <1>4, <1>5, <2>1
<1>7. \A s \in Stores : ListOK(backlog'[s], table, head) /\ backlog'[s].id \in Ids \cup {FreshList.id}
  <2> TAKE s \in Stores
  <2>1. CASE backlog'[s] = backlog[s]
    BY <1>5, <2>1
  <2>2. CASE backlog'[s] = fresh
    BY <1>3, <2>2
  <2> QED BY <1>4, <2>1, <2>2
<1> QED BY <1>1, <1>2, <1>6, <1>7 DEF t

LEMMA IdsFinite ==
  ASSUME EInv, NEW a, NEW b,
         \A s \in Stores : backlog'[s].id \in Ids \cup {a, b}, \A r \in Readers : round'[r].list.id \in Ids \cup {a, b}
  PROVE  IsFiniteSet(Ids')
<1>1. Ids' \in SUBSET (Ids \cup {a, b})
  BY DEF Ids
<1>2. IsFiniteSet(Ids)
  BY DEF EInv, Finite
<1>3. IsFiniteSet(Ids \cup {a})
  BY <1>2, FS_AddElement
<1>4. IsFiniteSet((Ids \cup {a}) \cup {b})
  BY <1>3, FS_AddElement
<1>5. Ids \cup {a, b} = (Ids \cup {a}) \cup {b}
  OBVIOUS
<1> QED BY <1>1, <1>4, <1>5, FS_Subset

LEMMA RoundsListsIn ==
  ASSUME EInv
  PROVE  /\ \A r \in Readers : round[r].list \in Lists /\ ListOK(round[r].list, table, head) /\ round[r].list.id \in Ids
         /\ \A s \in Stores : backlog[s] \in Lists /\ ListOK(backlog[s], table, head) /\ backlog[s].id \in Ids
  BY DEF EInv, EventTypes, ListsKept, Ids

LEMMA RoundCommitsKeeps ==
  ASSUME EInv, NEW r \in Readers, RoundCommits(r)
  PROVE  EInv'
<1> DEFINE s == storeOf[r]
           keys == Numbered(s)
           after == ListAfter(s)
           done == [list |-> after, missed |-> IF More(s) THEN {} ELSE LeftWaiting(s)]
<1>1. Rounds(r) /\ NumbersFrom(head, keys) /\ round' = [round EXCEPT ![r] = done]
  BY DEF RoundCommits
<1>2. /\ strategy = "head-row" /\ Waiting # {} /\ s \in Stores /\ UNCHANGED <<strategy, storeOf, writerVars>>
      /\ backlog' \in [Stores -> Lists] /\ \A x \in Stores : ListOK(backlog'[x], table, head)
      /\ \A x \in Stores : backlog'[x].id \in Ids \cup {FreshList.id}
  BY <1>1, RoundsBacklog
<1>3. ListOf(s) \in Lists /\ ListOK(ListOf(s), table, head) /\ BatchesLeft(ListOf(s)) # {} /\ Batched(keys)
  BY <1>2, RoundList
<1>4. after \in Lists /\ ListOK(after, table', head')
  <2> DEFINE list == ListOf(s)
             n == Min(BatchesLeft(list))
  <2>1. keys = Batch(list, n)
    BY DEF Numbered
  <2>2. after = [list EXCEPT !.left = SubSeq(list.left, n + NumberingBatch + 1, Len(list.left)),
                             !.head = IF @ = head THEN head + Len(keys) ELSE -1]
    BY DEF ListAfter
  <2> HIDE DEF keys, list, n, after
  <2>3. list \in Lists /\ ListOK(list, table, head) /\ BatchesLeft(list) # {} /\ n = Min(BatchesLeft(list))
    BY <1>3 DEF list, n
  <2> QED BY <1>1, <2>1, <2>2, <2>3, RestStays
<1>5. done.list = after /\ done.missed = {} /\ done \in [list : Lists, missed : {{}}]
  <2> DEFINE m == IF More(s) THEN {} ELSE LeftWaiting(s)
  <2>1. m = {}
    BY <1>2, SaysNoMore
  <2>2. done = [list |-> after, missed |-> m]
    OBVIOUS
  <2> HIDE DEF m, done, after
  <2> QED BY <1>4, <2>1, <2>2
<1> HIDE DEF keys, after, done
<1>6. /\ table' \in SUBSET Row /\ head' \in Nat /\ IsFiniteSet(Inserted)'
      /\ XidsKept' /\ Sequenced' /\ Transactions' /\ HeadRow'
  BY <1>1, <1>2, <1>3, NumbersKeeps
<1>7. \A list \in Lists : ListOK(list, table, head) => ListOK(list, table', head')
  BY <1>1, <1>3, ListsStayOK
<1>8. /\ round \in [Readers -> [list : Lists, missed : {{}}]]
      /\ \A x \in Readers : round[x].list \in Lists /\ ListOK(round[x].list, table, head) /\ round[x].list.id \in Ids
  BY RoundsListsIn DEF EInv, EventTypes
<1>9. round' \in [Readers -> [list : Lists, missed : {{}}]] /\ \A x \in Readers : round'[x] = round[x] \/ round'[x] = done
  BY <1>1, <1>5, <1>8
<1>10. EventTypes'
  BY <1>2, <1>6, <1>9 DEF EInv, EventTypes, writerVars
<1>11. Finite'
  <2>1. \A x \in Stores : backlog'[x].id \in Ids \cup {FreshList.id, after.id}
    BY <1>2
  <2>2. \A x \in Readers : round'[x].list.id \in Ids \cup {FreshList.id, after.id}
    <3> TAKE x \in Readers
    <3>1. CASE round'[x] = round[x]
      BY <1>8, <3>1
    <3>2. CASE round'[x] = done
      BY <1>5, <3>2
    <3> QED BY <1>9, <3>1, <3>2
  <2>3. IsFiniteSet(Ids')
    BY <2>1, <2>2, IdsFinite
  <2> QED BY <1>6, <2>3 DEF Finite
<1>12. ListsKept'
  <2>1. \A x \in Stores : ListOK(backlog'[x], table', head')
    BY <1>2, <1>7
  <2>2. \A x \in Readers : ListOK(round'[x].list, table', head')
    <3> TAKE x \in Readers
    <3>1. CASE round'[x] = round[x]
      BY <1>7, <1>8, <3>1
    <3>2. CASE round'[x] = done
      BY <1>4, <1>5, <3>2
    <3> QED BY <1>9, <3>1, <3>2
  <2> QED BY <2>1, <2>2 DEF ListsKept
<1> QED BY <1>6, <1>10, <1>11, <1>12 DEF EInv

LEMMA RoundBreaksKeeps ==
  ASSUME EInv, NEW r \in Readers, RoundBreaks(r)
  PROVE  EInv'
<1> DEFINE keys == Numbered(storeOf[r])
<1>1. Rounds(r) /\ round' = round /\ ((table' = table /\ head' = head) \/ NumbersFrom(head, keys))
  BY DEF RoundBreaks
<1>2. /\ strategy = "head-row" /\ Waiting # {} /\ storeOf[r] \in Stores /\ UNCHANGED <<strategy, storeOf, writerVars>>
      /\ backlog' \in [Stores -> Lists] /\ \A x \in Stores : ListOK(backlog'[x], table, head)
      /\ \A x \in Stores : backlog'[x].id \in Ids \cup {FreshList.id}
  BY <1>1, RoundsBacklog
<1>3. Batched(keys)
  BY <1>2, RoundList
<1> HIDE DEF keys
<1>4. UNCHANGED <<strategy, storeOf, own, writer, aim, xid, lastXid>>
  BY <1>2 DEF writerVars
<1>5. /\ table' \in SUBSET Row /\ head' \in Nat /\ IsFiniteSet(Inserted)'
      /\ XidsKept' /\ Sequenced' /\ Transactions' /\ HeadRow'
  <2>1. CASE table' = table /\ head' = head
    <3>1. Inserted' = Inserted
      BY <1>4, <2>1 DEF Inserted, InsertedBy
    <3>2. OneWriter' /\ UniqueKeys(table)' /\ Dense(table)'
      BY <1>4, <2>1 DEF EInv, Sequenced, OneWriter, InsertedBy
    <3>3. \A v \in Units : Continues(v)'
      BY <1>4, <2>1, ContinuesStays DEF EInv, Sequenced
    <3>4. XidsKept' /\ Transactions' /\ HeadRow'
      BY <1>2, <1>4, <2>1 DEF EInv, XidsKept, Transactions, HeadRow
    <3> QED BY <2>1, <3>1, <3>2, <3>3, <3>4 DEF EInv, EventTypes, Finite, Sequenced
  <2>2. CASE NumbersFrom(head, keys)
    BY <1>2, <1>3, <2>2, NumbersKeeps
  <2> QED BY <1>1, <2>1, <2>2
<1>6. \A list \in Lists : ListOK(list, table, head) => ListOK(list, table', head')
  BY <1>1, <1>3, ListsStayOK
<1>7. EventTypes'
  BY <1>1, <1>2, <1>4, <1>5 DEF EInv, EventTypes
<1>8. Finite'
  <2>1. \A x \in Stores : backlog'[x].id \in Ids \cup {FreshList.id, FreshList.id}
    BY <1>2
  <2>2. \A x \in Readers : round'[x].list.id \in Ids \cup {FreshList.id, FreshList.id}
    BY <1>1, RoundsListsIn
  <2>3. IsFiniteSet(Ids')
    BY <2>1, <2>2, IdsFinite
  <2> QED BY <1>5, <2>3 DEF Finite
<1>9. ListsKept'
  <2>1. \A x \in Stores : ListOK(backlog'[x], table', head')
    BY <1>2, <1>6
  <2>2. \A x \in Readers : ListOK(round'[x].list, table', head')
    BY <1>1, <1>6, RoundsListsIn
  <2> QED BY <2>1, <2>2 DEF ListsKept
<1> QED BY <1>5, <1>7, <1>8, <1>9 DEF EInv

\* What a round or a process does with lists alone.
LEMMA ListsAlone ==
  ASSUME EInv, UNCHANGED <<strategy, storeOf, table, head, writerVars>>,
         backlog' \in [Stores -> Lists], round' \in [Readers -> [list : Lists, missed : {{}}]],
         \A s \in Stores : ListOK(backlog'[s], table, head) /\ backlog'[s].id \in Ids \cup {0},
         \A r \in Readers : ListOK(round'[r].list, table, head) /\ round'[r].list.id \in Ids \cup {0}
  PROVE  EInv'
<1>1. UNCHANGED <<strategy, storeOf, table, head, own, writer, aim, xid, lastXid>>
  BY DEF writerVars
<1>2. EventTypes'
  BY <1>1 DEF EInv, EventTypes
<1>3. Finite'
  <2>1. Inserted' = Inserted
    BY <1>1 DEF Inserted, InsertedBy
  <2>2. IsFiniteSet(Ids')
    <3>1. \A s \in Stores : backlog'[s].id \in Ids \cup {0, 0}
      OBVIOUS
    <3>2. \A r \in Readers : round'[r].list.id \in Ids \cup {0, 0}
      OBVIOUS
    <3> QED BY <3>1, <3>2, IdsFinite
  <2> QED BY <2>1, <2>2 DEF EInv, Finite
<1>4. Sequenced'
  <2>1. OneWriter' /\ UniqueKeys(table)' /\ Dense(table)'
    BY <1>1 DEF EInv, Sequenced, OneWriter, InsertedBy
  <2>2. \A v \in Units : Continues(v)'
    BY <1>1, ContinuesStays DEF EInv, Sequenced
  <2> QED BY <2>1, <2>2 DEF Sequenced
<1>5. XidsKept' /\ HeadRow'
  BY <1>1 DEF EInv, XidsKept, HeadRow
<1>6. Transactions'
  <2> SUFFICES ASSUME strategy = "xid8" PROVE Transactions'
    BY <1>1 DEF Transactions
  <2>1. \A v \in Units : Ordinals(v)
    BY DEF EInv, Transactions
  <2>2. \A v \in Units : Ordinals(v)'
    BY <1>1, <2>1, OrdinalsStay
  <2> QED BY <1>1, <2>2 DEF EInv, Transactions, OwnXids
<1>7. ListsKept'
  BY <1>1 DEF ListsKept
<1> QED BY <1>2, <1>3, <1>4, <1>5, <1>6, <1>7 DEF EInv

LEMMA NoListOK ==
  ASSUME EInv
  PROVE  NoList \in Lists /\ NoList.id = 0 /\ ListOK(NoList, table, head)
<1>1. NoList.left = <<>> /\ NoList.head = -1 /\ NoList.id = 0 /\ DOMAIN NoList.left = {}
  BY DEF NoList
<1>2. NoList \in Lists
  <2>1. <<>> \in Seq(EventKeys) /\ 0 \in Nat /\ -1 \in Int
    OBVIOUS
  <2> QED BY <2>1 DEF NoList, Lists
<1>3. head \in Nat
  BY DEF EInv, EventTypes
<1>4. NoList.head >= -1 /\ NoList.head <= head /\ NoList.head # head
  BY <1>1, <1>3
<1> QED BY <1>1, <1>2, <1>4 DEF ListOK

LEMMA AccountsForKeeps ==
  ASSUME EInv, NEW r \in Readers, AccountsFor(r)
  PROVE  EInv'
<1> DEFINE s == storeOf[r]
           list == round[r].list
<1>1. /\ round' = [round EXCEPT ![r] = NoRound] /\ UNCHANGED <<strategy, storeOf, table, head, writerVars>>
      /\ backlog' = backlog \/ backlog' = [backlog EXCEPT ![s] = NoList] \/ backlog' = [backlog EXCEPT ![s] = list]
  BY DEF AccountsFor
<1>2. /\ \A x \in Readers : round[x].list \in Lists /\ ListOK(round[x].list, table, head) /\ round[x].list.id \in Ids
      /\ \A x \in Stores : backlog[x] \in Lists /\ ListOK(backlog[x], table, head) /\ backlog[x].id \in Ids
  BY RoundsListsIn
<1>3. /\ s \in Stores /\ backlog \in [Stores -> Lists] /\ round \in [Readers -> [list : Lists, missed : {{}}]]
  BY DEF EInv, EventTypes
<1>4. NoList \in Lists /\ NoList.id = 0 /\ ListOK(NoList, table, head)
  BY NoListOK
<1>5. NoRound.list = NoList /\ NoRound \in [list : Lists, missed : {{}}]
  BY <1>4 DEF NoRound
<1>6. list \in Lists /\ ListOK(list, table, head) /\ list.id \in Ids
  BY <1>2
<1> HIDE DEF s, list
<1>7. backlog' \in [Stores -> Lists] /\ \A x \in Stores : backlog'[x] \in {backlog[x], NoList, list}
  BY <1>1, <1>3, <1>4, <1>6
<1>8. round' \in [Readers -> [list : Lists, missed : {{}}]] /\ \A x \in Readers : round'[x] \in {round[x], NoRound}
  BY <1>1, <1>3, <1>5
<1>9. \A x \in Stores : ListOK(backlog'[x], table, head) /\ backlog'[x].id \in Ids \cup {0}
  BY <1>2, <1>4, <1>6, <1>7
<1>10. \A x \in Readers : ListOK(round'[x].list, table, head) /\ round'[x].list.id \in Ids \cup {0}
  BY <1>2, <1>4, <1>5, <1>8
<1> QED BY <1>1, <1>7, <1>8, <1>9, <1>10, ListsAlone

LEMMA RestartsKeeps ==
  ASSUME EInv, NEW s \in Stores, Restarts(s)
  PROVE  EInv'
<1>1. /\ backlog' = [backlog EXCEPT ![s] = NoList] /\ UNCHANGED <<strategy, storeOf, table, head, writerVars>>
      /\ round' = [r \in Readers |-> IF storeOf[r] = s THEN NoRound ELSE round[r]]
  BY DEF Restarts
<1>2. /\ \A x \in Readers : round[x].list \in Lists /\ ListOK(round[x].list, table, head) /\ round[x].list.id \in Ids
      /\ \A x \in Stores : backlog[x] \in Lists /\ ListOK(backlog[x], table, head) /\ backlog[x].id \in Ids
  BY RoundsListsIn
<1>3. backlog \in [Stores -> Lists] /\ round \in [Readers -> [list : Lists, missed : {{}}]]
  BY DEF EInv, EventTypes
<1>4. NoList \in Lists /\ NoList.id = 0 /\ ListOK(NoList, table, head)
  BY NoListOK
<1>5. NoRound.list = NoList /\ NoRound \in [list : Lists, missed : {{}}]
  BY <1>4 DEF NoRound
<1>6. backlog' \in [Stores -> Lists] /\ \A x \in Stores : backlog'[x] \in {backlog[x], NoList}
  BY <1>1, <1>3, <1>4
<1>7. round' \in [Readers -> [list : Lists, missed : {{}}]] /\ \A x \in Readers : round'[x] \in {round[x], NoRound}
  BY <1>1, <1>3, <1>5
<1>8. \A x \in Stores : ListOK(backlog'[x], table, head) /\ backlog'[x].id \in Ids \cup {0}
  BY <1>2, <1>4, <1>6
<1>9. \A x \in Readers : ListOK(round'[x].list, table, head) /\ round'[x].list.id \in Ids \cup {0}
  BY <1>2, <1>4, <1>5, <1>7
<1> QED BY <1>1, <1>6, <1>7, <1>8, <1>9, ListsAlone

-------------------------------------------------------------------------------
(* The invariant holds. *)

LEMMA EInitHolds == EventInit => EInv
<1> SUFFICES ASSUME EventInit PROVE EInv
  OBVIOUS
<1>1. /\ strategy \in Strategies /\ storeOf \in [Readers -> Stores] /\ table = {} /\ head = 0 /\ lastXid = 0
      /\ own = [u \in Units |-> <<>>] /\ writer = [u \in Units |-> "open"]
      /\ aim = [u \in Units |-> NoAim] /\ xid = [u \in Units |-> 0]
      /\ backlog = [s \in Stores |-> NoList] /\ round = [r \in Readers |-> NoRound]
  BY DEF EventInit
<1>2. /\ NoList \in Lists /\ NoList.id = 0 /\ NoList.left = <<>> /\ DOMAIN NoList.left = {} /\ NoList.head = -1
      /\ NoRound.list = NoList /\ NoRound \in [list : Lists, missed : {{}}]
  <2>1. NoList.id = 0 /\ NoList.left = <<>> /\ DOMAIN NoList.left = {} /\ NoList.head = -1
    BY DEF NoList
  <2>2. NoList \in Lists
    <3>1. <<>> \in Seq(EventKeys) /\ 0 \in Nat /\ -1 \in Int
      OBVIOUS
    <3> QED BY <3>1 DEF NoList, Lists
  <2> QED BY <2>1, <2>2 DEF NoRound
<1>3. \A u \in Units : own[u] = <<>> /\ writer[u] = "open" /\ xid[u] = 0 /\ InsertedBy(u) = {} /\ SeenBy(u) = {}
  BY <1>1 DEF InsertedBy, SeenBy, ToSet
<1>4. EventTypes
  <2>1. NoAim \in EventKeys
    BY DEF NoAim, EventKeys
  <2>2. own \in [Units -> Seq(Row)]
    BY <1>1
  <2> QED BY <1>1, <1>2, <2>1, <2>2 DEF EventTypes
<1>5. Finite
  <2>1. Inserted = {}
    BY <1>1, <1>3 DEF Inserted
  <2>2. Ids \in SUBSET {0}
    BY <1>1, <1>2 DEF Ids
  <2>3. IsFiniteSet({}) /\ IsFiniteSet({0})
    BY FS_EmptySet, FS_Singleton
  <2>4. IsFiniteSet(Ids)
    BY <2>2, <2>3, FS_Subset
  <2> QED BY <2>1, <2>3, <2>4 DEF Finite
<1>6. XidsKept
  BY <1>1 DEF XidsKept
<1>7. Sequenced
  <2>1. \A u \in Units : Continues(u)
    BY <1>1, <1>3 DEF Continues, UniqueKeys, Dense
  <2> QED BY <1>1, <1>3, <2>1 DEF Sequenced, UniqueKeys, Dense, OneWriter
<1>8. Transactions
  <2>1. \A u \in Units : Ordinals(u)
    BY <1>1, <1>3, Constants DEF Ordinals, Rises
  <2> QED BY <1>1, <1>3, <2>1 DEF Transactions, OwnXids, Rises
<1>9. HeadRow
  BY <1>1, <1>3 DEF HeadRow
<1>10. ListsKept
  <2>1. ListOK(NoList, table, head)
    BY <1>1, <1>2 DEF ListOK
  <2> QED BY <1>1, <1>2, <2>1 DEF ListsKept
<1> QED BY <1>4, <1>5, <1>6, <1>7, <1>8, <1>9, <1>10 DEF EInv

LEMMA ENextKeeps == EInv /\ [EventNext]_eventVars => EInv'
<1> SUFFICES ASSUME EInv, [EventNext]_eventVars PROVE EInv'
  OBVIOUS
<1>1. CASE UNCHANGED eventVars
  <2>1. UNCHANGED <<strategy, storeOf, table, head, backlog, round, writerVars>>
    BY <1>1 DEF eventVars
  <2>2. backlog' \in [Stores -> Lists] /\ round' \in [Readers -> [list : Lists, missed : {{}}]]
    BY <2>1 DEF EInv, EventTypes
  <2>3. \A s \in Stores : ListOK(backlog'[s], table, head) /\ backlog'[s].id \in Ids \cup {0}
    BY <2>1, RoundsListsIn
  <2>4. \A r \in Readers : ListOK(round'[r].list, table, head) /\ round'[r].list.id \in Ids \cup {0}
    BY <2>1, RoundsListsIn
  <2> QED BY <2>1, <2>2, <2>3, <2>4, ListsAlone
<1>2. ASSUME NEW u \in Units, NEW a \in Aggregates, ReadsVersion(u, a) PROVE EInv'
  BY <1>2, ReadsVersionKeeps
<1>3. ASSUME NEW u \in Units, RefusesAppend(u) \/ InsertsEvent(u) \/ CommitsEvents(u) \/ AbandonsEvents(u) PROVE EInv'
  BY <1>3, RefusesKeeps, InsertsKeeps, CommitsKeeps, AbandonsKeeps
<1>4. ASSUME NEW r \in Readers, RoundCommits(r) \/ RoundBreaks(r) \/ AccountsFor(r) PROVE EInv'
  BY <1>4, RoundCommitsKeeps, RoundBreaksKeeps, AccountsForKeeps
<1>5. ASSUME NEW s \in Stores, Restarts(s) PROVE EInv'
  BY <1>5, RestartsKeeps
<1> QED BY <1>1, <1>2, <1>3, <1>4, <1>5 DEF EventNext

-------------------------------------------------------------------------------
(* The stream grows at its end. *)

LowestOf(xids, writers, last) ==
  Min({xids[u] : u \in {v \in Units : writers[v] # "ended" /\ xids[v] # 0}} \cup {last + 1})

LEMMA LowestIs ==
  ASSUME NEW xids \in [Units -> Nat], NEW writers, NEW last \in Nat
  PROVE  /\ LowestOf(xids, writers, last) \in Nat /\ LowestOf(xids, writers, last) <= last + 1
         /\ \A u \in Units : writers[u] # "ended" /\ xids[u] # 0 => LowestOf(xids, writers, last) <= xids[u]
         /\ LowestOf(xids, writers, last) # last + 1 =>
              \E u \in Units : writers[u] # "ended" /\ xids[u] # 0 /\ LowestOf(xids, writers, last) = xids[u]
<1> DEFINE S == {xids[u] : u \in {v \in Units : writers[v] # "ended" /\ xids[v] # 0}} \cup {last + 1}
<1>1. S \in SUBSET Nat /\ S # {} /\ last + 1 \in S
  OBVIOUS
<1>2. \A u \in Units : writers[u] # "ended" /\ xids[u] # 0 => xids[u] \in S
  OBVIOUS
<1>3. \A x \in S : x = last + 1 \/ \E u \in Units : writers[u] # "ended" /\ xids[u] # 0 /\ x = xids[u]
  OBVIOUS
<1>4. LowestOf(xids, writers, last) = Min(S)
  BY DEF LowestOf
<1> HIDE DEF S
<1>5. Min(S) \in S /\ \A x \in S : Min(S) <= x
  BY <1>1, MinIs
<1> QED BY <1>1, <1>2, <1>3, <1>4, <1>5

LEMMA ScaledUp ==
  ASSUME NEW a \in Nat, NEW b \in Nat, a <= b
  PROVE  Scale * a \in Nat /\ Scale * b \in Nat /\ Scale * a <= Scale * b /\ Scale * a = a * Scale
<1>1. Scale \in Nat
  BY Constants
<1> QED BY <1>1, SMTT(30)

\* No transaction starts or ends in a way that lowers what a reader sees below.
LEMMA HorizonGrows ==
  ASSUME EInv, EInv',
         \A u \in Units : writer'[u] # "ended" /\ xid'[u] # 0 =>
                            (writer[u] # "ended" /\ xid'[u] = xid[u]) \/ xid'[u] = lastXid + 1,
         lastXid <= lastXid'
  PROVE  Horizon \in Nat /\ Horizon' \in Nat /\ Horizon <= Horizon'
<1> DEFINE a == LowestOf(xid, writer, lastXid)
           b == LowestOf(xid', writer', lastXid')
<1>1. Horizon = Scale * a /\ Horizon' = Scale * b
  BY DEF Horizon, Running, LowestOf
<1>2. xid \in [Units -> Nat] /\ lastXid \in Nat /\ xid' \in [Units -> Nat] /\ lastXid' \in Nat
  BY DEF EInv, EventTypes
<1>3. a \in Nat /\ a <= lastXid + 1 /\ \A u \in Units : writer[u] # "ended" /\ xid[u] # 0 => a <= xid[u]
  BY <1>2, LowestIs
<1>4. /\ b \in Nat
      /\ b # lastXid' + 1 => \E u \in Units : writer'[u] # "ended" /\ xid'[u] # 0 /\ b = xid'[u]
  BY <1>2, LowestIs
<1> HIDE DEF a, b
<1>5. a <= b
  <2>1. CASE b = lastXid' + 1
    <3> DEFINE l == lastXid
               k == lastXid'
    <3>1. a \in Nat /\ l \in Nat /\ k \in Nat /\ a <= l + 1 /\ l <= k /\ b = k + 1
      BY <1>2, <1>3, <2>1
    <3> HIDE DEF l, k
    <3> QED BY ONLY <3>1
  <2>2. CASE b # lastXid' + 1
    <3>1. PICK u \in Units : writer'[u] # "ended" /\ xid'[u] # 0 /\ b = xid'[u]
      BY <1>4, <2>2
    <3>2. CASE xid'[u] = lastXid + 1
      BY <1>3, <3>1, <3>2
    <3>3. CASE writer[u] # "ended" /\ xid'[u] = xid[u]
      BY <1>3, <3>1, <3>3
    <3> QED BY <3>1, <3>2, <3>3
  <2> QED BY <2>1, <2>2
<1> QED BY <1>1, <1>3, <1>4, <1>5, ScaledUp

\* What a running unit inserts is above what a reader sees.
LEMMA AboveHorizon ==
  ASSUME EInv, strategy = "xid8", NEW u \in Units, writer[u] # "ended", NEW q \in InsertedBy(u)
  PROVE  q.position >= Horizon /\ Horizon \in Nat /\ q.position \in Nat
<1> DEFINE a == LowestOf(xid, writer, lastXid)
<1>1. Horizon = Scale * a
  BY DEF Horizon, Running, LowestOf
<1>2. xid \in [Units -> Nat] /\ lastXid \in Nat
  BY DEF EInv, EventTypes
<1>3. xid[u] # 0
  <2>1. own[u] # <<>>
    BY DEF InsertedBy, ToSet
  <2> QED BY <2>1 DEF EInv, Transactions, Ordinals
<1>4. a \in Nat /\ a <= xid[u]
  BY <1>2, <1>3, LowestIs
<1> HIDE DEF a
<1>5. Scale * a \in Nat /\ Scale * a <= xid[u] * Scale /\ xid[u] * Scale \in Nat
  <2>1. Scale * a \in Nat /\ Scale * xid[u] \in Nat /\ Scale * a <= Scale * xid[u]
    BY <1>2, <1>4, ScaledUp
  <2>2. Scale * xid[u] = xid[u] * Scale
    BY <1>2, ScaledUp
  <2> QED BY <2>1, <2>2
<1>6. q.position \in Nat /\ q.position >= xid[u] * Scale
  BY OwnPositions
<1> QED BY <1>1, <1>5, <1>6

\* What a reader of the stream sees in any state.
StreamOK ==
  /\ Visible \in SUBSET Row /\ IsFiniteSet(Visible) /\ Apart(Visible)
  /\ Stream = StreamOf(Visible) /\ Promise!InOrder(Stream)

LEMMA StreamAlwaysOK == EInv => StreamOK
  BY VisibleIs, StreamIs, AlwaysInOrder DEF StreamOK

\* Becoming visible puts an event behind all that are.
Behindhand == Visible \in SUBSET Visible' /\ \A p \in Visible, q \in Visible' \ Visible : p.position < q.position

LEMMA Xid8Grows ==
  ASSUME EInv, EInv', strategy = "xid8", strategy' = "xid8",
         table' = table \/ \E u \in Units : writer[u] # "ended" /\ table' = table \cup InsertedBy(u),
         \A u \in Units : writer'[u] # "ended" /\ xid'[u] # 0 =>
                            (writer[u] # "ended" /\ xid'[u] = xid[u]) \/ xid'[u] = lastXid + 1,
         lastXid <= lastXid'
  PROVE  Behindhand
<1>1. Horizon \in Nat /\ Horizon' \in Nat /\ Horizon <= Horizon'
  BY HorizonGrows
<1>2. Visible = {r \in table : r.position < Horizon} /\ Visible' = {r \in table' : r.position < Horizon'}
  BY DEF Visible
<1>3. table \in SUBSET table' /\ \A r \in table : r.position \in Nat
  <2>1. \A r \in table : r.position \in Nat
    BY RowIs DEF EInv, EventTypes
  <2> QED BY <2>1
<1>4. \A q \in table' \ table : q.position >= Horizon /\ q.position \in Nat
  BY AboveHorizon
<1>5. Visible \in SUBSET Visible'
  BY <1>1, <1>2, <1>3
<1>6. \A p \in Visible, q \in Visible' \ Visible : p.position < q.position
  <2> SUFFICES ASSUME NEW p \in Visible, NEW q \in Visible' \ Visible PROVE p.position < q.position
    OBVIOUS
  <2>1. p \in table /\ p.position < Horizon /\ p.position \in Nat
    BY <1>2, <1>3
  <2>2. q.position >= Horizon /\ q.position \in Nat
    <3>1. CASE q \in table
      BY <1>1, <1>2, <1>3, <3>1
    <3>2. CASE q \notin table
      BY <1>2, <1>4, <3>2
    <3> QED BY <3>1, <3>2
  <2> QED BY <1>1, <2>1, <2>2
<1> QED BY <1>5, <1>6 DEF Behindhand

LEMMA HeadRowGrows ==
  ASSUME EInv, strategy = "head-row", strategy' = "head-row",
         \/ table' = table
         \/ \E u \in Units : table' = table \cup InsertedBy(u)
         \/ \E keys : Batched(keys) /\ NumbersFrom(head, keys)
  PROVE  Behindhand
<1>1. Visible = {r \in table : r.position # 0} /\ Visible' = {r \in table' : r.position # 0}
  BY DEF Visible, Waiting
<1>2. CASE table' = table
  BY <1>1, <1>2 DEF Behindhand
<1>3. ASSUME NEW u \in Units, table' = table \cup InsertedBy(u)
      PROVE  Behindhand
  <2>1. \A q \in InsertedBy(u) : q.position = 0
    BY DEF InsertedBy, ToSet, EInv, HeadRow
  <2>2. Visible' = Visible
    BY <1>1, <1>3, <2>1
  <2> QED BY <2>2 DEF Behindhand
<1>4. ASSUME NEW keys, Batched(keys), NumbersFrom(head, keys)
      PROVE  Behindhand
  <2> DEFINE N(p) == NumberedRow(head, keys, p)
  <2>1. /\ head \in Nat /\ Len(keys) \in Nat /\ DOMAIN keys = 1..Len(keys)
        /\ \A p \in table : N(p) \in table'
        /\ \A q \in table' : \E p \in table : q = N(p)
        /\ \A p \in table : /\ p.position # 0 \/ (\A i \in DOMAIN keys : keys[i] # Key(p)) => N(p) = p
                            /\ \A i \in DOMAIN keys : keys[i] = Key(p) => N(p).position = head + i
    BY <1>4, NumberedIs
  <2> HIDE DEF N
  <2>2. \A p \in table : p.position \in Nat /\ p.position <= head
    <3>1. \A p \in table : p.position \in Nat
      BY RowIs DEF EInv, EventTypes
    <3> QED BY <3>1 DEF EInv, HeadRow
  <2>3. Visible \in SUBSET Visible'
    <3> SUFFICES ASSUME NEW p \in Visible PROVE p \in Visible'
      OBVIOUS
    <3>1. p \in table /\ p.position # 0
      BY <1>1
    <3>2. N(p) = p /\ N(p) \in table'
      BY <2>1, <3>1
    <3> QED BY <1>1, <3>1, <3>2
  <2>4. \A p \in Visible, q \in Visible' \ Visible : p.position < q.position
    <3> SUFFICES ASSUME NEW p \in Visible, NEW q \in Visible' \ Visible PROVE p.position < q.position
      OBVIOUS
    <3>1. PICK w \in table : q = N(w)
      BY <1>1, <2>1
    <3>2. q # w
      <4> SUFFICES ASSUME q = w PROVE FALSE
        OBVIOUS
      <4>1. q \in table /\ q.position # 0
        BY <1>1
      <4> QED BY <1>1, <4>1
    <3>3. PICK i \in DOMAIN keys : keys[i] = Key(w)
      BY <2>1, <3>1, <3>2
    <3>4. q.position = head + i /\ i \in Nat /\ i >= 1
      BY <2>1, <3>1, <3>3
    <3>5. p.position \in Nat /\ p.position <= head
      BY <1>1, <2>2
    <3> QED BY <2>1, <3>4, <3>5
  <2> QED BY <2>3, <2>4 DEF Behindhand
<1> QED BY <1>2, <1>3, <1>4

\* In every step the table changes in one of these ways.
LEMMA TableSteps ==
  ASSUME EInv, EventNext
  PROVE  /\ strategy' = strategy
         /\ \/ table' = table
            \/ \E u \in Units : writer[u] # "ended" /\ table' = table \cup InsertedBy(u)
            \/ strategy = "head-row" /\ \E keys : Batched(keys) /\ NumbersFrom(head, keys)
         /\ strategy = "xid8" =>
              /\ \A u \in Units : writer'[u] # "ended" /\ xid'[u] # 0 =>
                                   (writer[u] # "ended" /\ xid'[u] = xid[u]) \/ xid'[u] = lastXid + 1
              /\ lastXid <= lastXid'
<1>0. /\ lastXid \in Nat /\ xid \in [Units -> Nat] /\ writer \in [Units -> {"open", "checked", "ended"}]
      /\ EventTypes /\ XidsKept /\ (strategy = "xid8" => OwnXids)
  BY DEF EInv, EventTypes, Transactions
<1> DEFINE Stays == /\ \A u \in Units : writer'[u] # "ended" /\ xid'[u] # 0 =>
                                          (writer[u] # "ended" /\ xid'[u] = xid[u]) \/ xid'[u] = lastXid + 1
                    /\ lastXid <= lastXid'
<1>1. ASSUME NEW u \in Units, strategy = "xid8", TakesXid(u), writer[u] = "open",
             \A v \in Units : v # u => writer'[v] = writer[v]
      PROVE  Stays
  <2>1. /\ lastXid <= lastXid' /\ \A v \in Units : v # u => xid'[v] = xid[v]
        /\ xid[u] # 0 => xid'[u] = xid[u]
        /\ xid[u] = 0 => xid'[u] = lastXid + 1
    BY <1>0, <1>1, TakesXidIs
  <2> QED BY <1>1, <2>1
<1>2. ASSUME xid' = xid, lastXid' = lastXid, \A v \in Units : writer'[v] # "ended" => writer[v] # "ended"
      PROVE  Stays
  BY <1>0, <1>2
<1>3. ASSUME NEW u \in Units, NEW a \in Aggregates, ReadsVersion(u, a)
      PROVE  strategy' = strategy /\ table' = table /\ (strategy = "xid8" => Stays)
  <2>1. /\ strategy' = strategy /\ table' = table /\ writer[u] = "open" /\ TakesXid(u)
        /\ writer' = [writer EXCEPT ![u] = "checked"]
    BY <1>3 DEF ReadsVersion
  <2>2. \A v \in Units : v # u => writer'[v] = writer[v]
    BY <1>0, <2>1
  <2> HIDE DEF Stays
  <2> QED BY <1>1, <2>1, <2>2
<1>4. ASSUME NEW u \in Units, RefusesAppend(u)
      PROVE  strategy' = strategy /\ table' = table /\ (strategy = "xid8" => Stays)
  <2>1. strategy' = strategy /\ table' = table /\ writer[u] = "open" /\ TakesXid(u) /\ writer' = writer
    BY <1>4 DEF RefusesAppend
  <2> HIDE DEF Stays
  <2> QED BY <1>1, <2>1
<1>5. ASSUME NEW u \in Units, InsertsEvent(u)
      PROVE  strategy' = strategy /\ table' = table /\ Stays
  <2>1. /\ strategy' = strategy /\ table' = table /\ writer[u] = "checked" /\ xid' = xid /\ lastXid' = lastXid
        /\ writer' = [writer EXCEPT ![u] = "open"]
    BY <1>5 DEF InsertsEvent
  <2>2. \A v \in Units : writer'[v] # "ended" => writer[v] # "ended"
    BY <1>0, <2>1
  <2> HIDE DEF Stays
  <2> QED BY <1>2, <2>1, <2>2
<1>6. ASSUME NEW u \in Units, EndsWriter(u)
      PROVE  strategy' = strategy /\ Stays
  <2>1. /\ strategy' = strategy /\ xid' = xid /\ lastXid' = lastXid
        /\ writer' = [writer EXCEPT ![u] = "ended"]
    BY <1>6 DEF EndsWriter
  <2>2. \A v \in Units : writer'[v] # "ended" => writer[v] # "ended"
    BY <1>0, <2>1
  <2> HIDE DEF Stays
  <2> QED BY <1>2, <2>1, <2>2
<1>7. ASSUME NEW u \in Units, CommitsEvents(u)
      PROVE  strategy' = strategy /\ Stays /\ writer[u] # "ended" /\ table' = table \cup InsertedBy(u)
  <2> HIDE DEF Stays
  <2> QED BY <1>6, <1>7 DEF CommitsEvents
<1>8. ASSUME NEW u \in Units, AbandonsEvents(u)
      PROVE  strategy' = strategy /\ Stays /\ table' = table
  <2> HIDE DEF Stays
  <2> QED BY <1>6, <1>8 DEF AbandonsEvents
<1>9. ASSUME UNCHANGED <<strategy, storeOf, writerVars>>
      PROVE  strategy' = strategy /\ Stays
  <2>1. strategy' = strategy /\ xid' = xid /\ lastXid' = lastXid /\ writer' = writer
    BY <1>9 DEF writerVars
  <2> HIDE DEF Stays
  <2> QED BY <1>2, <2>1
<1>10. ASSUME NEW r \in Readers, RoundCommits(r) \/ RoundBreaks(r)
       PROVE  /\ strategy' = strategy /\ Stays /\ strategy = "head-row"
              /\ table' = table \/ \E keys : Batched(keys) /\ NumbersFrom(head, keys)
  <2>1. Rounds(r) /\ (table' = table \/ NumbersFrom(head, Numbered(storeOf[r])))
    BY <1>10 DEF RoundCommits, RoundBreaks
  <2>2. strategy = "head-row" /\ Waiting # {} /\ storeOf[r] \in Stores /\ UNCHANGED <<strategy, storeOf, writerVars>>
    BY <2>1, RoundsBacklog
  <2>3. Batched(Numbered(storeOf[r]))
    BY <2>2, RoundList
  <2> HIDE DEF Stays
  <2> QED BY <1>9, <2>1, <2>2, <2>3
<1>11. ASSUME NEW r \in Readers, AccountsFor(r)
       PROVE  strategy' = strategy /\ Stays /\ table' = table
  <2> HIDE DEF Stays
  <2> QED BY <1>9, <1>11 DEF AccountsFor
<1>12. ASSUME NEW s \in Stores, Restarts(s)
       PROVE  strategy' = strategy /\ Stays /\ table' = table
  <2> HIDE DEF Stays
  <2> QED BY <1>9, <1>12 DEF Restarts
<1> HIDE DEF Stays
<1>13. /\ strategy' = strategy /\ (strategy = "xid8" => Stays)
       /\ \/ table' = table
          \/ \E u \in Units : writer[u] # "ended" /\ table' = table \cup InsertedBy(u)
          \/ strategy = "head-row" /\ \E keys : Batched(keys) /\ NumbersFrom(head, keys)
  BY <1>3, <1>4, <1>5, <1>7, <1>8, <1>10, <1>11, <1>12 DEF EventNext
<1> QED BY <1>13 DEF Stays

LEMMA EachStepGrows ==
  ASSUME EInv, EInv', StreamOK, StreamOK', EventNext
  PROVE  Promise!Grows
<1>1. Behindhand
  <2>1. CASE strategy = "xid8"
    BY <2>1, TableSteps, Xid8Grows
  <2>2. CASE strategy = "head-row"
    BY <2>2, TableSteps, HeadRowGrows
  <2> QED BY <2>1, <2>2, ByStrategy
<1>2. /\ Visible' \in SUBSET Row /\ IsFiniteSet(Visible') /\ Apart(Visible')
      /\ Stream' = StreamOf(Visible') /\ Stream = StreamOf(Visible)
  BY DEF StreamOK
<1>3. IsPrefix(StreamOf(Visible), StreamOf(Visible'))
  BY <1>1, <1>2, StreamGrows DEF Behindhand
<1>4. IsPrefix(Stream, Stream')
  BY <1>2, <1>3
<1>5. Promise!IsPrefix(Stream, Stream')
  BY <1>4 DEF IsPrefix, Promise!IsPrefix
<1>6. Promise!InOrder(Stream')
  BY DEF StreamOK
<1> QED BY <1>5, <1>6 DEF Promise!Grows

LEMMA StartsEmpty ==
  ASSUME EventInit, EInv
  PROVE  Stream = <<>>
<1>1. Visible = {}
  BY DEF EventInit, Visible, Waiting
<1>2. StreamOf({}) \in Seq(EventKeys) /\ Len(StreamOf({})) = Cardinality({})
  <2>1. {} \in SUBSET Row /\ Apart({}) /\ IsFiniteSet({})
    BY FS_EmptySet DEF Apart
  <2> QED BY <2>1, RowsInLine
<1>3. Len(StreamOf({})) = 0
  BY <1>2, FS_EmptySet
<1> HIDE DEF StreamOf
<1>4. StreamOf({}) = <<>>
  BY <1>2, <1>3
<1> QED BY <1>1, <1>4, StreamIs

LEMMA NoneMissed == EInv => UNION {round[r].missed : r \in Readers} = {}
<1> SUFFICES ASSUME EInv, NEW r \in Readers PROVE round[r].missed = {}
  OBVIOUS
<1>1. round[r] \in [list : Lists, missed : {{}}]
  BY DEF EInv, EventTypes
<1> QED BY <1>1

(* Whichever units commit late, whatever the clock says, and whichever        *)
(* process numbers from which list, the stream a reader pages only grows at   *)
(* its end, has each aggregate's events once and in order, and leaves no      *)
(* event behind when a round says there is no more: the event store           *)
(* implements what a projection relies on.                                    *)
THEOREM EventsKeepStream == EventSpec => KeepsStream
<1>1. EInv /\ EInv' /\ StreamOK /\ StreamOK' /\ [EventNext]_eventVars => [Promise!Grows]_Stream
  <2> SUFFICES ASSUME EInv, EInv', StreamOK, StreamOK', [EventNext]_eventVars PROVE [Promise!Grows]_Stream
    OBVIOUS
  <2>1. CASE EventNext
    BY <2>1, EachStepGrows
  <2>2. CASE UNCHANGED eventVars
    <3>1. Visible' = Visible
      BY <2>2 DEF eventVars, writerVars, Visible, Waiting, Horizon, Running
    <3>2. Stream' = Stream
      BY <3>1 DEF StreamOK
    <3> QED BY <3>2
  <2> QED BY <2>1, <2>2
<1>2. EventInit => Stream = <<>>
  BY EInitHolds, StartsEmpty
<1> QED BY <1>1, <1>2, EInitHolds, ENextKeeps, StreamAlwaysOK, NoneMissed, PTL DEF EventSpec, KeepsStream, Promise!StreamSpec

LEMMA StoresTurns ==
  StoresSpec => EventSpec /\ Init /\ [][Next]_vars
<1>1. StoresInit => Init /\ EventInit
  BY DEF StoresInit
<1>2. [OutboxTurn \/ EventTurn]_storesVars => [EventNext]_eventVars /\ [Next]_vars
  BY DEF OutboxTurn, EventTurn, storesVars
<1> QED BY <1>1, <1>2, PTL DEF StoresSpec, EventSpec

(* The outbox's tables and the event store keep their types: no row has a     *)
(* sequence beyond the events inserted, no unit a transaction id that was not *)
(* given out, and no list says more was numbered than was.                    *)
THEOREM StoresTypes == StoresSpec => []StoresTypeOK
<1>1. EInv => EventTypeOK
  <2> SUFFICES ASSUME EInv PROVE EventTypeOK
    OBVIOUS
  <2>1. xid \in [Units -> 0..lastXid]
    <3>1. lastXid \in Nat /\ xid \in [Units -> Nat] /\ \A u \in Units : xid[u] <= lastXid
      BY DEF EInv, EventTypes, XidsKept
    <3>2. \A u \in Units : xid[u] \in 0..lastXid
      BY <3>1
    <3> QED BY <3>1, <3>2
  <2>2. \A s \in Stores : backlog[s].id \in Nat /\ backlog[s].head \in -1..head
    <3> TAKE s \in Stores
    <3>1. backlog[s] \in Lists /\ ListOK(backlog[s], table, head) /\ head \in Nat
      BY DEF EInv, EventTypes, ListsKept
    <3>2. backlog[s].id \in Nat /\ backlog[s].head \in Int
      BY <3>1 DEF Lists
    <3> QED BY <3>1, <3>2 DEF ListOK
  <2> QED BY <2>1, <2>2 DEF EInv, EventTypes, EventTypeOK
<1>2. EventSpec => []EventTypeOK
  BY <1>1, EInitHolds, ENextKeeps, PTL DEF EventSpec
<1>3. Init /\ [][Next]_vars => []TypeOK
  BY StoreTypes DEF Spec
<1> QED BY <1>2, <1>3, StoresTurns, PTL DEF StoresTypeOK

===============================================================================
