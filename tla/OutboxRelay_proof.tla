------------------------- MODULE OutboxRelay_proof -------------------------
(***************************************************************************)
(* Invariance proofs for OutboxRelay, for any relays, events, subscriptions *)
(* and settings.                                                           *)
(***************************************************************************)
EXTENDS OutboxRelay, FiniteSetTheorems, TLAPS

\* A claimed row has been attempted: the fence makes a give-back take back an
\* attempt its own claim counted.
ClaimCounted ==
    \A e \in Events : rows[e] # NoRow /\ rows[e].claimedBy # NoRelay => rows[e].attempts >= 1

TInv == TypeOK /\ ClaimCounted

\* What the place of a task says about its locals, and that its claim holds
\* every event once.
Shaped(r) ==
    /\ pc[r] \in {"handling", "deadLettering", "settling"} <=> cur[r] # NoDelivery
    /\ pc[r] \in {"down", "waiting", "idle", "claiming"} => queue[r] = {} /\ handled[r] = {}
    /\ pc[r] = "extending" => handled[r] = {}
    /\ pc[r] = "claiming" => until[r] <= ClaimTimeout
    /\ \A d, f \in queue[r] : d.event = f.event => d = f
    /\ \A d \in queue[r] : d.event \notin handled[r]
    /\ cur[r] # NoDelivery => /\ cur[r].event \notin handled[r]
                              /\ \A d \in queue[r] : d.event # cur[r].event

Shape == \A r \in Relays : Shaped(r)

LEMMA BudgetType ==
    ASSUME TypeOK, NEW d \in Delivery
    PROVE  /\ Todo(d) \in SUBSET Subs
           /\ IsFiniteSet(Todo(d)) /\ Cardinality(Todo(d)) \in Nat
           /\ Budget(d) \in Nat
<1>1. Todo(d) \in SUBSET Subs
  BY RelayAssumption DEF Todo, Delivery
<1>2. IsFiniteSet(Todo(d)) /\ Cardinality(Todo(d)) \in Nat
  BY <1>1, RelayAssumption, FS_Subset, FS_CardinalityType
<1>3. Budget(d) \in Nat
  BY <1>2, SettingsAssumption DEF Budget
<1> QED BY <1>1, <1>2, <1>3

LEMMA InitTypes == Init => TInv
  BY RelayAssumption, BoundAssumption, SettingsAssumption DEF Init, TInv, TypeOK, ClaimCounted, Row, Places, Kinds

LEMMA FailureTypes ==
    ASSUME NEW F \in SUBSET (Subs \X Kinds), NEW n
    PROVE  Dead(F, n) \in SUBSET Subs /\ Again(F, n) \in SUBSET Subs
  BY DEF Dead, Again

\* The rows the statements write.
LEMMA RowTypes ==
    ASSUME NEW w \in Row, NEW a \in Int, NEW n \in Nat, NEW c \in Relays \cup {NoRelay}
    PROVE  /\ [w EXCEPT !.availableAt = a] \in Row
           /\ [w EXCEPT !.availableAt = a, !.attempts = n, !.claimedBy = c] \in Row
           /\ \A D \in SUBSET Subs : [w EXCEPT !.availableAt = a, !.claimedBy = c, !.done = D] \in Row
  BY DEF Row

\* The table after each statement.
LEMMA StatementTypes ==
    ASSUME TInv, NEW r \in Relays
    PROVE  /\ \A S \in Claimable(r) :
                 /\ S \subseteq Events
                 /\ \A e \in S : rows[e] \in Row
                 /\ Claimed(r, S) \in [Events -> Row \cup {NoRow}]
           /\ Completed(r) \in [Events -> Row \cup {NoRow}]
           /\ Extended(r) \in [Events -> Row \cup {NoRow}]
           /\ Released(r) \in [Events -> Row \cup {NoRow}]
<1> USE DEF TInv
<1>1. ASSUME NEW S \in Claimable(r)
      PROVE  /\ S \subseteq Events
             /\ \A e \in S : rows[e] \in Row
             /\ Claimed(r, S) \in [Events -> Row \cup {NoRow}]
  <2>1. S \subseteq Events /\ \A e \in S : rows[e] \in Row
    BY <1>1 DEF Claimable, Due, TypeOK
  <2>2. ASSUME NEW e \in S
        PROVE  [rows[e] EXCEPT !.availableAt = until[r], !.attempts = @ + 1, !.claimedBy = r] \in Row
    <3>1. rows[e] \in Row /\ rows[e].attempts + 1 \in Nat /\ until[r] \in Int
      BY <2>1 DEF Row, TypeOK
    <3> QED BY <3>1, RowTypes
  <2> QED BY <2>1, <2>2 DEF Claimed, TypeOK
<1>2. Completed(r) \in [Events -> Row \cup {NoRow}]
  BY DEF Completed, TypeOK
<1>3. Extended(r) \in [Events -> Row \cup {NoRow}]
  <2>1. ASSUME NEW e \in Events, Mine(r, e)
        PROVE  [rows[e] EXCEPT !.availableAt = until[r]] \in Row
    <3>1. rows[e] \in Row
      BY <2>1 DEF TypeOK, Mine
    <3> QED BY <3>1 DEF Row, TypeOK
  <2> QED BY <2>1 DEF Extended, TypeOK
<1>4. Released(r) \in [Events -> Row \cup {NoRow}]
  <2>1. ASSUME NEW e \in Events, Mine(r, e), \E d \in queue[r] : d.event = e
        PROVE  [rows[e] EXCEPT !.availableAt = (CHOOSE d \in queue[r] : d.event = e).dueAt,
                               !.attempts = @ - 1, !.claimedBy = NoRelay] \in Row
    <3> DEFINE g == CHOOSE d \in queue[r] : d.event = e
    <3>1. g \in queue[r]
      BY <2>1
    <3>2. g.dueAt \in Int
      BY <3>1 DEF TypeOK, Delivery
    <3>3. rows[e] \in Row /\ rows[e].attempts - 1 \in Nat
      <4>1. rows[e] \in Row /\ rows[e].attempts >= 1
        BY <2>1, RelayAssumption DEF TypeOK, Mine, ClaimCounted
      <4> QED BY <4>1 DEF Row
    <3> HIDE DEF g
    <3>4. [rows[e] EXCEPT !.availableAt = g.dueAt, !.attempts = @ - 1, !.claimedBy = NoRelay] \in Row
      BY <3>2, <3>3, RowTypes
    <3> QED BY <3>4 DEF g
  <2> QED BY <2>1 DEF Released, TypeOK
<1> QED BY <1>1, <1>2, <1>3, <1>4

LedgerOK ==
    /\ rows \in [Events -> Row \cup {NoRow}]
    /\ deadLetters \in [Events -> [Subs -> 0..2]]
    /\ retried \in [Events -> Nat]
    /\ ClaimCounted

LEMMA ClaimTypes ==
    ASSUME TInv, NEW r \in Relays, NEW S \in Claimable(r), ClaimEffect(r, S)
    PROVE  LedgerOK'
<1>1. rows' = Claimed(r, S) /\ UNCHANGED <<deadLetters, retried>>
  BY DEF ClaimEffect
<1>2. rows' \in [Events -> Row \cup {NoRow}]
  BY <1>1, StatementTypes
<1>3. ASSUME NEW e \in Events, rows'[e] # NoRow, rows'[e].claimedBy # NoRelay
      PROVE  rows'[e].attempts >= 1
  <2>1. CASE e \in S
    <3>1. rows[e] \in Row
      BY <2>1, StatementTypes
    <3>2. rows'[e].attempts = rows[e].attempts + 1
      BY <1>1, <2>1, <3>1 DEF Claimed, Row
    <3> QED BY <3>1, <3>2 DEF Row
  <2>2. CASE e \notin S
    BY <1>1, <1>3, <2>2 DEF Claimed, TInv, ClaimCounted
  <2> QED BY <2>1, <2>2
<1> QED BY <1>1, <1>2, <1>3 DEF LedgerOK, TInv, TypeOK, ClaimCounted

LEMMA CompleteTypes ==
    ASSUME TInv, NEW r \in Relays, CompleteEffect(r)
    PROVE  LedgerOK'
<1>1. rows' = Completed(r) /\ UNCHANGED <<deadLetters, retried>>
  BY DEF CompleteEffect
<1>2. rows' \in [Events -> Row \cup {NoRow}]
  BY <1>1, StatementTypes
<1>3. \A e \in Events : rows'[e] # NoRow => rows'[e] = rows[e]
  BY <1>1 DEF Completed
<1> QED BY <1>1, <1>2, <1>3 DEF LedgerOK, TInv, TypeOK, ClaimCounted

LEMMA ExtendTypes ==
    ASSUME TInv, NEW r \in Relays, ExtendEffect(r)
    PROVE  LedgerOK'
<1>1. rows' = Extended(r) /\ UNCHANGED <<deadLetters, retried>>
  BY DEF ExtendEffect
<1>2. rows' \in [Events -> Row \cup {NoRow}]
  BY <1>1, StatementTypes
<1>3. ASSUME NEW e \in Events, rows'[e] # NoRow, rows'[e].claimedBy # NoRelay
      PROVE  rows'[e].attempts >= 1
  <2>1. CASE (\E d \in queue[r] : d.event = e) /\ Mine(r, e)
    <3>1. rows[e] \in Row
      BY <2>1 DEF Mine, TInv, TypeOK
    <3>2. rows'[e].attempts = rows[e].attempts /\ rows[e] # NoRow /\ rows[e].claimedBy # NoRelay
      BY <1>1, <2>1, <3>1, RelayAssumption DEF Extended, Row, Mine
    <3> QED BY <3>2 DEF TInv, ClaimCounted
  <2>2. CASE ~((\E d \in queue[r] : d.event = e) /\ Mine(r, e))
    BY <1>1, <1>3, <2>2 DEF Extended, TInv, ClaimCounted
  <2> QED BY <2>1, <2>2
<1> QED BY <1>1, <1>2, <1>3 DEF LedgerOK, TInv, TypeOK, ClaimCounted

LEMMA ReleaseTypes ==
    ASSUME TInv, NEW r \in Relays, ReleaseEffect(r)
    PROVE  LedgerOK'
<1>1. rows' = Released(r) /\ UNCHANGED <<deadLetters, retried>>
  BY DEF ReleaseEffect
<1>2. rows' \in [Events -> Row \cup {NoRow}]
  BY <1>1, StatementTypes
<1>3. ASSUME NEW e \in Events, rows'[e] # NoRow, rows'[e].claimedBy # NoRelay
      PROVE  rows'[e].attempts >= 1
  <2>1. CASE (\E d \in queue[r] : d.event = e) /\ Mine(r, e)
    <3>1. rows[e] \in Row
      BY <2>1 DEF Mine, TInv, TypeOK
    <3>2. rows'[e].claimedBy = NoRelay
      BY <1>1, <2>1, <3>1 DEF Released, Row
    <3> QED BY <1>3, <3>2
  <2>2. CASE ~((\E d \in queue[r] : d.event = e) /\ Mine(r, e))
    BY <1>1, <1>3, <2>2 DEF Released, TInv, ClaimCounted
  <2> QED BY <2>1, <2>2
<1> QED BY <1>1, <1>2, <1>3 DEF LedgerOK, TInv, TypeOK, ClaimCounted

LEMMA SettleTypes ==
    ASSUME TInv, NEW r \in Relays, SettleEffect(r)
    PROVE  LedgerOK'
<1> DEFINE e == cur[r].event
           n == cur[r].attempts
<1>1. CASE ~Mine(r, e)
  BY <1>1 DEF SettleEffect, ledger, LedgerOK, TInv, TypeOK, ClaimCounted
<1>2. CASE Mine(r, e)
  <2>1. /\ rows' = [rows EXCEPT ![e] = Settled(r)]
        /\ deadLetters' = Buried(r)
        /\ retried' = [retried EXCEPT ![e] = IF Granted(failed[r], n) THEN @ + 1 ELSE @]
    BY <1>2 DEF SettleEffect
  <2>2. ASSUME e \in Events
        PROVE  /\ Settled(r) \in Row \cup {NoRow}
               /\ Settled(r) # NoRow => Settled(r).claimedBy = NoRelay
    <3>1. rows[e] \in Row /\ until[r] \in Int /\ done[r] \cup Dead(failed[r], n) \in SUBSET Subs
      BY <1>2, <2>2, FailureTypes DEF Mine, TInv, TypeOK
    <3>2. [rows[e] EXCEPT !.availableAt = until[r], !.claimedBy = NoRelay,
                          !.done = done[r] \cup Dead(failed[r], n)] \in Row
      BY <3>1, RowTypes
    <3> QED BY <3>1, <3>2 DEF Settled, Row
  <2>3. deadLetters' \in [Events -> [Subs -> 0..2]]
    <3>1. CASE ExternalStore
      BY <2>1, <3>1 DEF Buried, TInv, TypeOK
    <3>2. CASE ~ExternalStore
      <4>1. \A s \in Subs : e \in Events => More(deadLetters[e][s]) \in 0..2 /\ deadLetters[e][s] \in 0..2
        BY DEF More, TInv, TypeOK
      <4> QED BY <2>1, <3>2, <4>1 DEF Buried, TInv, TypeOK
    <3> QED BY <3>1, <3>2
  <2>4. rows' \in [Events -> Row \cup {NoRow}] /\ retried' \in [Events -> Nat]
    <3>1. rows \in [Events -> Row \cup {NoRow}] /\ retried \in [Events -> Nat]
      BY DEF TInv, TypeOK
    <3> HIDE DEF e
    <3>2. rows' \in [Events -> Row \cup {NoRow}]
      BY <2>1, <2>2, <3>1
    <3>3. retried' \in [Events -> Nat]
      <4> DEFINE again == IF Granted(failed[r], n) THEN retried[e] + 1 ELSE retried[e]
      <4>1. e \in Events => again \in Nat
        BY <3>1
      <4>2. retried' = [retried EXCEPT ![e] = again]
        BY <2>1
      <4> HIDE DEF again
      <4> QED BY <3>1, <4>1, <4>2
    <3> QED BY <3>2, <3>3
  <2>5. ClaimCounted'
    BY <2>1, <2>2 DEF TInv, TypeOK, ClaimCounted
  <2> QED BY <2>3, <2>4, <2>5 DEF LedgerOK
<1> QED BY <1>1, <1>2

LEMMA AddTypes ==
    ASSUME TInv, NEW r \in Relays, NEW s, AddEffect(r, s)
    PROVE  LedgerOK'
<1>1. \A e \in Events, x \in Subs : More(deadLetters[e][x]) \in 0..2
  BY DEF More, TInv, TypeOK
<1>2. deadLetters' \in [Events -> [Subs -> 0..2]]
  <2> DEFINE n == More(deadLetters[cur[r].event][s])
             w == [deadLetters[cur[r].event] EXCEPT ![s] = n]
  <2>1. deadLetters \in [Events -> [Subs -> 0..2]] /\ deadLetters' = [deadLetters EXCEPT ![cur[r].event] = w]
    BY DEF AddEffect, TInv, TypeOK
  <2>2. cur[r].event \in Events /\ s \in Subs => n \in 0..2
    BY <1>1
  <2> HIDE DEF n
  <2>3. cur[r].event \in Events => w \in [Subs -> 0..2]
    BY <2>1, <2>2
  <2> HIDE DEF w
  <2> QED BY <2>1, <2>3
<1> QED BY <1>2 DEF AddEffect, LedgerOK, TInv, TypeOK, ClaimCounted

LEMMA MaybeEffectTypes ==
    ASSUME TInv, NEW r \in Relays, MaybeEffect(r)
    PROVE  LedgerOK' /\ answered' \in [Events -> SUBSET Subs]
<1>1. CASE UNCHANGED <<ledger, answered>>
  BY <1>1 DEF ledger, LedgerOK, TInv, TypeOK, ClaimCounted
<1>2. CASE (\E S \in Claimable(r) : ClaimEffect(r, S)) /\ UNCHANGED answered
  BY <1>2, ClaimTypes DEF TInv, TypeOK
<1>3. CASE CompleteEffect(r) /\ UNCHANGED answered
  BY <1>3, CompleteTypes DEF TInv, TypeOK
<1>4. CASE ReleaseEffect(r) /\ UNCHANGED answered
  BY <1>4, ReleaseTypes DEF TInv, TypeOK
<1>5. CASE ExtendEffect(r) /\ UNCHANGED answered
  BY <1>5, ExtendTypes DEF TInv, TypeOK
<1>6. CASE SettleEffect(r) /\ UNCHANGED answered
  BY <1>6, SettleTypes DEF TInv, TypeOK
<1>7. CASE (\E s \in First(toAdd[r]) : AddEffect(r, s)) /\ UNCHANGED answered
  BY <1>7, AddTypes DEF TInv, TypeOK
<1>8. CASE (\E s \in First(todo[r]) : HandleEffect(r, s)) /\ UNCHANGED ledger
  <2>1. PICK s \in First(todo[r]) : HandleEffect(r, s)
    BY <1>8
  <2>2. s \in Subs
    BY <2>1 DEF First, TInv, TypeOK
  <2>3. answered \in [Events -> SUBSET Subs] /\ answered' = [answered EXCEPT ![cur[r].event] = @ \cup {s}]
    BY <2>1 DEF HandleEffect, TInv, TypeOK
  <2>4. answered' \in [Events -> SUBSET Subs]
    BY <2>2, <2>3
  <2> QED BY <1>8, <2>4 DEF ledger, LedgerOK, TInv, TypeOK, ClaimCounted
<1> QED BY <1>1, <1>2, <1>3, <1>4, <1>5, <1>6, <1>7, <1>8 DEF MaybeEffect, UnseenEffect

\* What the shared parts of the actions leave.
RoundOK ==
    /\ queue \in [Relays -> SUBSET Delivery]
    /\ handled \in [Relays -> SUBSET Events]
    /\ lease \in [Relays -> Int]
    /\ started \in [Relays -> BOOLEAN]
    /\ full \in [Relays -> BOOLEAN]

AttemptOK ==
    /\ cur \in [Relays -> Delivery \cup {NoDelivery}]
    /\ todo \in [Relays -> SUBSET Subs]
    /\ done \in [Relays -> SUBSET Subs]
    /\ failed \in [Relays -> SUBSET (Subs \X Kinds)]
    /\ toAdd \in [Relays -> SUBSET Subs]
    /\ left \in [Relays -> Int]

PlaceOK == pc \in [Relays -> Places] /\ until \in [Relays -> Int]

LifeOK == stopping \in [Relays -> BOOLEAN] /\ cancelled \in [Relays -> BOOLEAN]

LEMMA LocalTypes ==
    ASSUME TypeOK, NEW r \in Relays
    PROVE  /\ ForgetRound(r) => RoundOK'
           /\ ForgetAttempt(r) => AttemptOK'
           /\ Down(r) => PlaceOK' /\ LifeOK' /\ RoundOK' /\ AttemptOK'
           /\ Return(r) => RoundOK' /\ (UNCHANGED until => PlaceOK')
           /\ \A d : YieldOrExtend(r, d) => pc' \in [Relays -> Places]
           /\ SendSettle(r) => PlaceOK'
<1>1. ForgetRound(r) => RoundOK'
  BY DEF ForgetRound, RoundOK, TypeOK
<1>2. ForgetAttempt(r) => AttemptOK'
  BY DEF ForgetAttempt, AttemptOK, TypeOK
<1>3. Down(r) => PlaceOK' /\ LifeOK'
  BY BoundAssumption DEF Down, Goto, NoStatement, PlaceOK, LifeOK, Places, TypeOK
<1>4. Return(r) => (UNCHANGED until => PlaceOK')
  <2>1. ASSUME NEW place \in Places, Goto(r, place) PROVE pc' \in [Relays -> Places]
    BY <2>1 DEF Goto, TypeOK
  <2>2. (IF full[r] THEN "idle" ELSE "waiting") \in Places
    BY DEF Places
  <2> QED BY <2>1, <2>2 DEF Return, PlaceOK, TypeOK
<1>5. \A d : YieldOrExtend(r, d) => pc' \in [Relays -> Places]
  BY DEF YieldOrExtend, Goto, Places, TypeOK
<1>6. SendSettle(r) => PlaceOK'
  BY SettingsAssumption DEF SendSettle, Goto, Places, PlaceOK, TypeOK
<1> QED BY <1>1, <1>2, <1>3, <1>4, <1>5, <1>6 DEF Down, Return

LEMMA ConcludeTypes ==
    ASSUME TInv, Shape, NEW r \in Relays, pc[r] = "handling", NEW s,
           NEW F \in SUBSET (Subs \X Kinds), NEW D \in SUBSET Subs, Conclude(r, s, F, D)
    PROVE  PlaceOK' /\ AttemptOK' /\ handled' \in [Relays -> SUBSET Events]
<1> USE DEF TInv
<1>1. cur[r].event \in Events
  BY DEF Shape, Shaped, Delivery, TypeOK
<1>2. CASE todo[r] # {s}
  <2>1. /\ todo' = [todo EXCEPT ![r] = @ \ {s}]
        /\ left' = [left EXCEPT ![r] = HandlerTimeout]
        /\ failed' = [failed EXCEPT ![r] = F]
        /\ done' = [done EXCEPT ![r] = D]
        /\ UNCHANGED <<pc, until, handled, cur, toAdd>>
    BY <1>2 DEF Conclude
  <2> QED BY <2>1, SettingsAssumption DEF PlaceOK, AttemptOK, TypeOK
<1>3. CASE todo[r] = {s} /\ (F = {} \/ strategy = "ignore")
  <2>1. /\ handled' = [handled EXCEPT ![r] = @ \cup {cur[r].event}]
        /\ Goto(r, "loop") /\ ForgetAttempt(r)
        /\ UNCHANGED until
    BY <1>3 DEF Conclude
  <2>2. AttemptOK'
    BY <2>1, LocalTypes
  <2> QED BY <1>1, <2>1, <2>2 DEF Goto, Places, PlaceOK, TypeOK
<1>4. CASE todo[r] = {s} /\ ~(F = {} \/ strategy = "ignore")
  <2>1. /\ todo' = [todo EXCEPT ![r] = {}]
        /\ left' = [left EXCEPT ![r] = -1]
        /\ failed' = [failed EXCEPT ![r] = F]
        /\ done' = [done EXCEPT ![r] = D]
        /\ UNCHANGED <<handled, cur>>
        /\ \/ /\ Goto(r, "deadLettering") /\ UNCHANGED until
              /\ toAdd' = [toAdd EXCEPT ![r] = Dead(F, cur[r].attempts)]
           \/ SendSettle(r) /\ UNCHANGED toAdd
    BY <1>4, Zenon DEF Conclude
  <2>2. PlaceOK'
    BY <2>1, LocalTypes DEF Goto, Places, PlaceOK, TypeOK
  <2>3. toAdd' \in [Relays -> SUBSET Subs]
    <3>1. Dead(F, cur[r].attempts) \in SUBSET Subs
      BY FailureTypes
    <3> HIDE DEF TInv
    <3>2. toAdd \in [Relays -> SUBSET Subs]
      BY DEF TInv, TypeOK
    <3> QED BY <2>1, <3>1, <3>2
  <2>4. {} \in SUBSET Subs /\ -1 \in Int
    OBVIOUS
  <2>5. /\ todo' \in [Relays -> SUBSET Subs] /\ done' \in [Relays -> SUBSET Subs]
        /\ failed' \in [Relays -> SUBSET (Subs \X Kinds)]
        /\ left' \in [Relays -> Int] /\ cur' \in [Relays -> Delivery \cup {NoDelivery}]
    BY <2>1, <2>4 DEF TypeOK
  <2> QED BY <2>1, <2>2, <2>3, <2>5 DEF TypeOK, AttemptOK
<1> QED BY <1>2, <1>3, <1>4

LEMMA HandlerTypes ==
    ASSUME TInv, Shape, NEW r \in Relays,
           HandlerSucceeds(r) \/ \E kind \in Failures : HandlerFails(r, kind)
    PROVE  TInv'
<1> USE DEF TInv, life, round, ledger
<1>1. /\ First(todo[r]) \subseteq Subs
      /\ failed[r] \in SUBSET (Subs \X Kinds)
      /\ done[r] \in SUBSET Subs
  BY DEF First, TypeOK
<1>2. ASSUME NEW s \in Subs, NEW F \in SUBSET (Subs \X Kinds)
      PROVE  LetGo(r, s, F) \in SUBSET Subs
  BY DEF LetGo
<1>3. CASE HandlerSucceeds(r)
  <2>1. PICK s \in First(todo[r]) :
          /\ answered' = [answered EXCEPT ![cur[r].event] = @ \cup {s} \cup LetGo(r, s, failed[r])]
          /\ Conclude(r, s, failed[r], done[r] \cup {s})
    BY <1>3 DEF HandlerSucceeds
  <2>2. answered' \in [Events -> SUBSET Subs]
    <3> DEFINE more == {s} \cup LetGo(r, s, failed[r])
    <3>1. more \in SUBSET Subs
      BY <1>1, <1>2
    <3>2. answered \in [Events -> SUBSET Subs] /\ answered' = [answered EXCEPT ![cur[r].event] = @ \cup more]
      BY <2>1 DEF TypeOK
    <3> HIDE DEF more
    <3> QED BY <3>1, <3>2
  <2>3. done[r] \cup {s} \in SUBSET Subs
    BY <1>1
  <2>4. pc[r] = "handling" /\ UNCHANGED <<ledger, published, strategy, faults, life, queue, lease, started, full>>
    BY <1>3 DEF HandlerSucceeds
  <2>5. PlaceOK' /\ AttemptOK' /\ handled' \in [Relays -> SUBSET Events]
    BY <1>1, <2>1, <2>3, <2>4, ConcludeTypes
  <2> QED BY <2>2, <2>4, <2>5 DEF PlaceOK, AttemptOK, TypeOK, ClaimCounted
<1>4. ASSUME NEW kind \in Failures, HandlerFails(r, kind) PROVE TInv'
  <2>1. PICK s \in First(todo[r]) :
          /\ \E took \in SUBSET {s} :
                answered' = [answered EXCEPT ![cur[r].event] =
                                @ \cup took \cup LetGo(r, s, failed[r] \cup {<<s, kind>>})]
          /\ Conclude(r, s, failed[r] \cup {<<s, kind>>}, done[r])
    BY <1>4 DEF HandlerFails
  <2>2. failed[r] \cup {<<s, kind>>} \in SUBSET (Subs \X Kinds)
    BY <1>1, BoundAssumption DEF Kinds
  <2>3. answered' \in [Events -> SUBSET Subs]
    <3>1. LetGo(r, s, failed[r] \cup {<<s, kind>>}) \in SUBSET Subs
      BY <1>1, <1>2, <2>2
    <3>2. PICK took \in SUBSET {s} :
            answered' = [answered EXCEPT ![cur[r].event] =
                            @ \cup took \cup LetGo(r, s, failed[r] \cup {<<s, kind>>})]
      BY <2>1
    <3>3. took \in SUBSET Subs
      BY <1>1, <2>1
    <3> QED BY <3>1, <3>2, <3>3 DEF TypeOK
  <2>4. pc[r] = "handling" /\ UNCHANGED <<ledger, published, strategy, faults, life, queue, lease, started, full>>
    BY <1>4 DEF HandlerFails
  <2>5. PlaceOK' /\ AttemptOK' /\ handled' \in [Relays -> SUBSET Events]
    BY <1>1, <2>1, <2>2, <2>4, ConcludeTypes
  <2> QED BY <2>3, <2>4, <2>5 DEF PlaceOK, AttemptOK, TypeOK, ClaimCounted
<1> QED BY <1>3, <1>4

LEMMA StepTypes ==
    ASSUME TInv, Shape, NEW r \in Relays, Step(r)
    PROVE  TInv'
<1> USE DEF TInv, LedgerOK, Goto, NoStatement, Places, ledger, life, round, attempt
<1>1. CASE Start(r)
  BY <1>1 DEF Start, TypeOK, ClaimCounted
<1>2. CASE TaskEnds(r)
  BY <1>2, BoundAssumption DEF TaskEnds, Down, ForgetRound, ForgetAttempt, TypeOK, ClaimCounted
<1>3. CASE BeginClaim(r)
  BY <1>3, SettingsAssumption DEF BeginClaim, TypeOK, ClaimCounted
<1>4. CASE Claim(r)
  <2>1. PICK S \in Claimable(r) :
          /\ ClaimEffect(r, S)
          /\ queue' = [queue EXCEPT ![r] =
                {[event |-> e, attempts |-> rows[e].attempts + 1, done |-> rows[e].done,
                  dueAt |-> rows[e].availableAt] : e \in S}]
          /\ full' = [full EXCEPT ![r] = Cardinality(S) >= BatchSize]
          /\ lease' = [lease EXCEPT ![r] = IF S = {} THEN -1 ELSE until[r]]
          /\ Goto(r, IF S = {} THEN "waiting" ELSE "loop")
    BY <1>4 DEF Claim
  <2>2. LedgerOK'
    BY <2>1, ClaimTypes
  <2>3. ASSUME NEW e \in S
        PROVE  [event |-> e, attempts |-> rows[e].attempts + 1, done |-> rows[e].done,
                dueAt |-> rows[e].availableAt] \in Delivery
    <3>1. e \in Events /\ rows[e] \in Row
      BY StatementTypes
    <3> QED BY <3>1 DEF Row, Delivery
  <2>4. queue' \in [Relays -> SUBSET Delivery]
    BY <2>1, <2>3 DEF TypeOK
  <2>5. full' \in [Relays -> BOOLEAN] /\ lease' \in [Relays -> Int]
    BY <2>1 DEF TypeOK
  <2> QED BY <1>4, <2>1, <2>2, <2>4, <2>5, BoundAssumption DEF Claim, TypeOK
<1>5. CASE LeaseRunsShort(r)
  <2>1. \A d \in NextDelivery(r) : Budget(d) \in Nat
    BY BudgetType DEF NextDelivery, TypeOK
  <2>2. PICK d \in NextDelivery(r) :
          /\ IF handled[r] = {} THEN YieldOrExtend(r, d) ELSE Goto(r, "short")
          /\ until' = [until EXCEPT ![r] = IF Yields(r, d) THEN @ ELSE Budget(d) + ClaimTimeout]
    BY <1>5 DEF LeaseRunsShort
  <2>3. pc' \in [Relays -> Places]
    BY <2>2, LocalTypes DEF Goto, Places, TypeOK
  <2>4. until' \in [Relays -> Int]
    <3>1. Budget(d) + ClaimTimeout \in Int
      BY <2>1, SettingsAssumption
    <3> QED BY <2>2, <3>1 DEF TypeOK
  <2> QED BY <1>5, <2>3, <2>4 DEF LeaseRunsShort, TypeOK, ClaimCounted
<1>6. CASE StartDelivery(r)
  <2>1. \A d \in NextDelivery(r) : d \in Delivery /\ Todo(d) \in SUBSET Subs
    BY BudgetType DEF NextDelivery, TypeOK
  <2>2. \A d \in Delivery : d.event \in Events /\ d.done \in SUBSET Subs
    BY DEF Delivery
  <2>3. PICK d \in NextDelivery(r) :
          /\ queue' = [queue EXCEPT ![r] = @ \ {d}]
          /\ started' = [started EXCEPT ![r] = TRUE]
          /\ IF Todo(d) = {}
             THEN /\ handled' = [handled EXCEPT ![r] = @ \cup {d.event}]
                  /\ UNCHANGED <<pc, attempt>>
             ELSE /\ Goto(r, "handling")
                  /\ cur' = [cur EXCEPT ![r] = d]
                  /\ todo' = [todo EXCEPT ![r] = Todo(d)]
                  /\ done' = [done EXCEPT ![r] = d.done]
                  /\ left' = [left EXCEPT ![r] = HandlerTimeout]
                  /\ UNCHANGED <<handled, failed, toAdd>>
    BY <1>6 DEF StartDelivery
  <2>4. RoundOK' /\ AttemptOK' /\ PlaceOK'
    <3>1. UNCHANGED <<until, lease, full>>
      BY <1>6 DEF StartDelivery
    <3>2. CASE Todo(d) = {}
      BY <2>1, <2>2, <2>3, <3>1, <3>2 DEF RoundOK, AttemptOK, PlaceOK, TypeOK
    <3>3. CASE Todo(d) # {}
      <4>1. RoundOK' /\ PlaceOK'
        BY <2>1, <2>2, <2>3, <3>1, <3>3 DEF RoundOK, PlaceOK, TypeOK
      <4>2. d \in Delivery /\ Todo(d) \in SUBSET Subs /\ d.done \in SUBSET Subs /\ HandlerTimeout \in Int
        BY <2>1, <2>2, SettingsAssumption
      <4>3. /\ cur' = [cur EXCEPT ![r] = d] /\ todo' = [todo EXCEPT ![r] = Todo(d)]
            /\ done' = [done EXCEPT ![r] = d.done] /\ left' = [left EXCEPT ![r] = HandlerTimeout]
            /\ failed' = failed /\ toAdd' = toAdd
        BY <2>3, <3>3
      <4>4. AttemptOK
        BY DEF AttemptOK, TypeOK
      <4>5. AttemptOK'
        <5> HIDE DEF TInv
        <5>1. cur' \in [Relays -> Delivery \cup {NoDelivery}]
          BY <4>2, <4>3, <4>4 DEF AttemptOK
        <5>2. todo' \in [Relays -> SUBSET Subs] /\ done' \in [Relays -> SUBSET Subs]
          BY <4>2, <4>3, <4>4 DEF AttemptOK
        <5>3. left' \in [Relays -> Int]
          BY <4>2, <4>3, <4>4 DEF AttemptOK
        <5> QED BY <4>3, <4>4, <5>1, <5>2, <5>3 DEF AttemptOK
      <4> QED BY <4>1, <4>5
    <3> QED BY <3>2, <3>3
  <2> QED BY <1>6, <2>4 DEF StartDelivery, RoundOK, AttemptOK, PlaceOK, TypeOK, ClaimCounted
<1>7. CASE HandlerSucceeds(r)
  BY <1>7, HandlerTypes
<1>8. ASSUME NEW kind \in Failures, HandlerFails(r, kind) PROVE TInv'
  BY <1>8, HandlerTypes
<1>9. CASE AddDeadLetter(r)
  BY <1>9, AddTypes, SettingsAssumption DEF AddDeadLetter, SendSettle, TypeOK
<1>10. CASE Settle(r)
  BY <1>10, SettleTypes, BoundAssumption DEF Settle, ForgetAttempt, TypeOK
<1>11. CASE Complete(r)
  <2>1. LedgerOK'
    BY <1>11, CompleteTypes DEF Complete
  <2>2. RoundOK' /\ PlaceOK'
    <3>1. CASE Leaving(r) /\ queue[r] = {}
      BY <1>11, <3>1, LocalTypes DEF Complete
    <3>2. CASE ~(Leaving(r) /\ queue[r] = {})
      <4>1. RoundOK'
        BY <1>11, <3>2 DEF Complete, RoundOK, TypeOK
      <4>2. /\ UNCHANGED until
            /\ \/ \E d : YieldOrExtend(r, d)
               \/ Goto(r, "ending")
               \/ Goto(r, pc[r])
        BY <1>11, <3>2 DEF Complete
      <4>3. ASSUME NEW d, YieldOrExtend(r, d) PROVE pc' \in [Relays -> Places]
        BY <4>3, LocalTypes
      <4>4. ASSUME NEW place \in Places, Goto(r, place) PROVE pc' \in [Relays -> Places]
        BY <4>4 DEF Goto, TypeOK
      <4>5. pc[r] \in Places /\ "ending" \in Places
        BY DEF Places, TypeOK
      <4>6. pc' \in [Relays -> Places]
        BY <4>2, <4>3, <4>4, <4>5
      <4>7. PlaceOK'
        BY <4>2, <4>6 DEF PlaceOK, TypeOK
      <4> QED BY <4>1, <4>7
    <3> QED BY <3>1, <3>2
  <2> QED BY <1>11, <2>1, <2>2 DEF Complete, RoundOK, PlaceOK, TypeOK
<1>12. CASE Extend(r)
  BY <1>12, ExtendTypes, BoundAssumption DEF Extend, TypeOK
<1>13. CASE Release(r)
  <2>1. LedgerOK'
    BY <1>13, ReleaseTypes DEF Release
  <2>2. RoundOK' /\ PlaceOK'
    <3>1. CASE Leaving(r)
      BY <1>13, <3>1, LocalTypes DEF Release
    <3>2. CASE ~Leaving(r)
      BY <1>13, <3>2 DEF Release, RoundOK, PlaceOK, TypeOK
    <3> QED BY <3>1, <3>2
  <2> QED BY <1>13, <2>1, <2>2 DEF Release, RoundOK, PlaceOK, TypeOK
<1>14. CASE RoundOver(r)
  BY <1>14, LocalTypes DEF RoundOver, RoundOK, PlaceOK, TypeOK, ClaimCounted
<1>15. CASE RoundFailed(r)
  <2>1. CASE cancelled[r]
    BY <1>15, <2>1, LocalTypes DEF RoundFailed, RoundOK, AttemptOK, PlaceOK, LifeOK, TypeOK, ClaimCounted
  <2>2. CASE ~cancelled[r]
    BY <1>15, <2>2, LocalTypes DEF RoundFailed, RoundOK, TypeOK, ClaimCounted
  <2> QED BY <2>1, <2>2
<1> QED BY <1>1, <1>2, <1>3, <1>4, <1>5, <1>6, <1>7, <1>8, <1>9, <1>10, <1>11, <1>12, <1>13, <1>14, <1>15 DEF Step

LEMMA DisturbTypes ==
    ASSUME TInv, NEW r \in Relays, Disturb(r)
    PROVE  TInv'
<1> USE DEF TInv, LedgerOK, Goto, NoStatement, Places, Fault, ledger, life, round, attempt
<1>1. CASE RequestStop(r)
  BY <1>1 DEF RequestStop, TypeOK, ClaimCounted
<1>2. CASE Cancel(r)
  <2>1. LedgerOK' /\ answered' \in [Events -> SUBSET Subs]
    BY <1>2, MaybeEffectTypes DEF Cancel
  <2> QED BY <1>2, <2>1, BoundAssumption DEF Cancel, ForgetAttempt, TypeOK
<1>3. CASE CancelGivingBack(r)
  BY <1>3 DEF CancelGivingBack, TypeOK, ClaimCounted
<1>4. CASE CancelClaim(r)
  BY <1>4, MaybeEffectTypes, BoundAssumption DEF CancelClaim, Down, ForgetRound, ForgetAttempt, TypeOK
<1>5. CASE ClaimFails(r)
  BY <1>5, MaybeEffectTypes, BoundAssumption DEF ClaimFails, TypeOK
<1>6. CASE StatementFails(r)
  BY <1>6, MaybeEffectTypes, BoundAssumption DEF StatementFails, ForgetAttempt, TypeOK
<1>7. CASE GivingBackFails(r)
  <2>1. LedgerOK' /\ answered' \in [Events -> SUBSET Subs]
    BY <1>7, MaybeEffectTypes DEF GivingBackFails
  <2>2. RoundOK'
    <3>1. CASE handled[r] # {}
      BY <1>7, <3>1 DEF GivingBackFails, RoundOK, TypeOK
    <3>2. CASE handled[r] = {}
      BY <1>7, <3>2 DEF GivingBackFails, RoundOK, TypeOK
    <3> QED BY <3>1, <3>2
  <2> QED BY <1>7, <2>1, <2>2 DEF GivingBackFails, RoundOK, TypeOK
<1>8. CASE RefuseDeadLetter(r)
  <2>1. LedgerOK' /\ answered' \in [Events -> SUBSET Subs]
    BY <1>8, MaybeEffectTypes DEF RefuseDeadLetter
  <2>2. {IF Terminal(f[2], cur[r].attempts) THEN <<f[1], "refused">> ELSE f : f \in failed[r]}
            \in SUBSET (Subs \X Kinds)
    BY DEF TypeOK, Kinds
  <2>3. failed' \in [Relays -> SUBSET (Subs \X Kinds)]
    BY <1>8, <2>2 DEF RefuseDeadLetter, TypeOK
  <2> QED BY <1>8, <2>1, <2>3, SettingsAssumption DEF RefuseDeadLetter, SendSettle, TypeOK
<1>9. CASE Crash(r)
  BY <1>9, MaybeEffectTypes, BoundAssumption DEF Crash, Down, ForgetRound, ForgetAttempt, TypeOK
<1> QED BY <1>1, <1>2, <1>3, <1>4, <1>5, <1>6, <1>7, <1>8, <1>9 DEF Disturb

LEMMA PublishTypes ==
    ASSUME TInv, NEW e \in Events, Publish(e)
    PROVE  TInv'
<1> USE DEF TInv, life, round, attempt
<1>1. [availableAt |-> 0, attempts |-> 0, claimedBy |-> NoRelay, done |-> {}] \in Row
  BY DEF Row
<1>2. rows' \in [Events -> Row \cup {NoRow}] /\ ClaimCounted'
  BY <1>1 DEF Publish, TypeOK, ClaimCounted
<1>3. pc' \in [Relays -> Places]
  BY DEF Publish, Places, TypeOK
<1> QED BY <1>2, <1>3 DEF Publish, TypeOK

LEMMA TickTypes ==
    ASSUME TInv, Tick
    PROVE  TInv'
<1> USE DEF TInv, life
<1>1. ASSUME NEW i \in Int, NEW floor \in Int PROVE CountDown(i, floor) \in Int
  BY DEF CountDown
<1>2. ASSUME NEW e \in Events, rows[e] # NoRow
      PROVE  /\ rows'[e] \in Row
             /\ rows'[e].attempts = rows[e].attempts /\ rows'[e].claimedBy = rows[e].claimedBy
  <2>1. rows[e] \in Row /\ rows'[e] = [rows[e] EXCEPT !.availableAt = CountDown(@, -Latency)]
    BY <1>2 DEF Tick, TypeOK
  <2>2. CountDown(rows[e].availableAt, -Latency) \in Int
    BY <1>1, <2>1, BoundAssumption DEF Row
  <2> QED BY <2>1, <2>2 DEF Row
<1>3. rows' \in [Events -> Row \cup {NoRow}] /\ ClaimCounted'
  BY <1>2 DEF Tick, TypeOK, ClaimCounted
<1>4. ASSUME NEW d \in Delivery
      PROVE  [d EXCEPT !.dueAt = CountDown(@, -Latency)] \in Delivery
  BY <1>1, BoundAssumption DEF Delivery
<1>5. queue' \in [Relays -> SUBSET Delivery] /\ cur' \in [Relays -> Delivery \cup {NoDelivery}]
  BY <1>4 DEF Tick, TypeOK
<1>6. pc' \in [Relays -> Places]
  BY DEF Tick, Places, TypeOK
<1>7. until' \in [Relays -> Int] /\ lease' \in [Relays -> Int] /\ left' \in [Relays -> Int]
  BY <1>1, BoundAssumption DEF Tick, TypeOK
<1> QED BY <1>3, <1>5, <1>6, <1>7 DEF Tick, TypeOK

LEMMA NextTypes ==
    ASSUME TInv, Shape, [Next]_vars
    PROVE  TInv'
<1>1. CASE UNCHANGED vars
  BY <1>1 DEF vars, ledger, life, round, attempt, TInv, TypeOK, ClaimCounted
<1> QED BY <1>1, PublishTypes, StepTypes, DisturbTypes, TickTypes DEF Next

\* The actions of one relay leave the locals of the others alone.
SamePlace(x)   == pc'[x] = pc[x] /\ until'[x] = until[x]
SameRound(x)   == queue'[x] = queue[x] /\ handled'[x] = handled[x] /\ lease'[x] = lease[x]
SameAttempt(x) == /\ cur'[x] = cur[x] /\ todo'[x] = todo[x] /\ done'[x] = done[x]
                  /\ failed'[x] = failed[x] /\ toAdd'[x] = toAdd[x] /\ left'[x] = left[x]

Untouched(x) == SamePlace(x) /\ SameRound(x) /\ SameAttempt(x)

LEMMA LocalFrame ==
    ASSUME TypeOK, NEW r \in Relays, NEW x \in Relays \ {r}
    PROVE  /\ UNCHANGED <<pc, until>> => SamePlace(x)
           /\ \A place : Goto(r, place) => pc'[x] = pc[x]
           /\ NoStatement(r) => until'[x] = until[x]
           /\ SendSettle(r) => SamePlace(x)
           /\ \A d : YieldOrExtend(r, d) => pc'[x] = pc[x]
           /\ UNCHANGED round => SameRound(x)
           /\ ForgetRound(r) => SameRound(x)
           /\ UNCHANGED attempt => SameAttempt(x)
           /\ ForgetAttempt(r) => SameAttempt(x)
<1> USE DEF TypeOK, SamePlace, SameRound, SameAttempt
<1>1. UNCHANGED <<pc, until>> => SamePlace(x)
  OBVIOUS
<1>2. \A place : Goto(r, place) => pc'[x] = pc[x]
  BY DEF Goto
<1>3. NoStatement(r) => until'[x] = until[x]
  BY DEF NoStatement
<1>4. SendSettle(r) => SamePlace(x)
  BY DEF SendSettle, Goto
<1>5. \A d : YieldOrExtend(r, d) => pc'[x] = pc[x]
  BY DEF YieldOrExtend, Goto
<1>6. UNCHANGED round => SameRound(x)
  BY DEF round
<1>7. ForgetRound(r) => SameRound(x)
  BY DEF ForgetRound
<1>8. UNCHANGED attempt => SameAttempt(x)
  BY DEF attempt
<1>9. ForgetAttempt(r) => SameAttempt(x)
  BY DEF ForgetAttempt
<1> QED BY <1>1, <1>2, <1>3, <1>4, <1>5, <1>6, <1>7, <1>8, <1>9

LEMMA ConcludeFrame ==
    ASSUME TypeOK, NEW r \in Relays, NEW x \in Relays \ {r}, NEW s, NEW F, NEW D, Conclude(r, s, F, D)
    PROVE  SamePlace(x) /\ SameAttempt(x) /\ handled'[x] = handled[x]
<1>1. CASE todo[r] # {s}
  BY <1>1 DEF Conclude, TypeOK, SamePlace, SameAttempt
<1>2. CASE todo[r] = {s} /\ (F = {} \/ strategy = "ignore")
  BY <1>2, LocalFrame DEF Conclude, TypeOK, SamePlace
<1>3. CASE todo[r] = {s} /\ ~(F = {} \/ strategy = "ignore")
  <2>1. SamePlace(x)
    BY <1>3, LocalFrame DEF Conclude, SamePlace
  <2>2. SameAttempt(x) /\ handled'[x] = handled[x]
    BY <1>3 DEF Conclude, TypeOK, SameAttempt
  <2> QED BY <2>1, <2>2
<1> QED BY <1>1, <1>2, <1>3

LEMMA StepFrame ==
    ASSUME TypeOK, NEW r \in Relays, NEW x \in Relays \ {r}, Step(r)
    PROVE  Untouched(x)
<1> USE LocalFrame DEF Untouched
<1>1. CASE Start(r)
  BY <1>1 DEF Start, SamePlace
<1>2. CASE TaskEnds(r)
  BY <1>2 DEF TaskEnds, Down, SamePlace
<1>3. CASE BeginClaim(r)
  BY <1>3 DEF BeginClaim, SamePlace, TypeOK
<1>4. CASE Claim(r)
  BY <1>4 DEF Claim, SamePlace, SameRound, TypeOK
<1>5. CASE LeaseRunsShort(r)
  BY <1>5 DEF LeaseRunsShort, SamePlace
<1>6. CASE StartDelivery(r)
  BY <1>6 DEF StartDelivery, SamePlace, SameRound, SameAttempt, TypeOK, attempt
<1>7. CASE HandlerSucceeds(r)
  BY <1>7, ConcludeFrame DEF HandlerSucceeds, SameRound
<1>8. ASSUME NEW kind \in Failures, HandlerFails(r, kind) PROVE Untouched(x)
  BY <1>8, ConcludeFrame DEF HandlerFails, SameRound
<1>9. CASE AddDeadLetter(r)
  BY <1>9 DEF AddDeadLetter, SameAttempt, TypeOK
<1>10. CASE Settle(r)
  BY <1>10 DEF Settle, SamePlace
<1>11. CASE Complete(r)
  <2>1. SameAttempt(x)
    BY <1>11 DEF Complete
  <2>2. CASE Leaving(r) /\ queue[r] = {}
    BY <1>11, <2>1, <2>2 DEF Complete, Return, SamePlace
  <2>3. CASE ~(Leaving(r) /\ queue[r] = {})
    BY <1>11, <2>1, <2>3 DEF Complete, SamePlace, SameRound, TypeOK
  <2> QED BY <2>2, <2>3
<1>12. CASE Extend(r)
  BY <1>12 DEF Extend, SamePlace, SameRound, TypeOK
<1>13. CASE Release(r)
  BY <1>13 DEF Release, Return, SamePlace, SameRound, TypeOK
<1>14. CASE RoundOver(r)
  BY <1>14 DEF RoundOver, Return, SamePlace
<1>15. CASE RoundFailed(r)
  BY <1>15 DEF RoundFailed, Down, SamePlace
<1> QED BY <1>1, <1>2, <1>3, <1>4, <1>5, <1>6, <1>7, <1>8, <1>9, <1>10, <1>11, <1>12, <1>13, <1>14, <1>15 DEF Step

LEMMA DisturbFrame ==
    ASSUME TypeOK, NEW r \in Relays, NEW x \in Relays \ {r}, Disturb(r)
    PROVE  Untouched(x)
<1> USE LocalFrame DEF Untouched
<1>1. CASE RequestStop(r)
  BY <1>1 DEF RequestStop, SamePlace
<1>2. CASE Cancel(r)
  BY <1>2 DEF Cancel, SamePlace, SameRound, TypeOK
<1>3. CASE CancelGivingBack(r)
  BY <1>3 DEF CancelGivingBack, SamePlace
<1>4. CASE CancelClaim(r)
  BY <1>4 DEF CancelClaim, Down, SamePlace
<1>5. CASE ClaimFails(r)
  BY <1>5 DEF ClaimFails, SamePlace
<1>6. CASE StatementFails(r)
  BY <1>6 DEF StatementFails, SamePlace
<1>7. CASE GivingBackFails(r)
  BY <1>7 DEF GivingBackFails, SamePlace, SameRound, TypeOK
<1>8. CASE RefuseDeadLetter(r)
  BY <1>8 DEF RefuseDeadLetter, SameAttempt, TypeOK
<1>9. CASE Crash(r)
  BY <1>9 DEF Crash, Down, SamePlace
<1> QED BY <1>1, <1>2, <1>3, <1>4, <1>5, <1>6, <1>7, <1>8, <1>9 DEF Disturb

LEMMA InitShape == Init => Shape
  BY DEF Init, Shape, Shaped

LEMMA ShapeFrame ==
    ASSUME Shape, NEW x \in Relays, Untouched(x)
    PROVE  Shaped(x)'
  BY DEF Shape, Shaped, Untouched, SamePlace, SameRound, SameAttempt

LEMMA DownShape ==
    ASSUME TypeOK, NEW r \in Relays, Down(r)
    PROVE  Shaped(r)'
  BY DEF Down, Goto, ForgetRound, ForgetAttempt, Shaped, TypeOK

LEMMA ConcludeShape ==
    ASSUME TypeOK, Shape, NEW r \in Relays, pc[r] = "handling", NEW s, NEW F, NEW D,
           Conclude(r, s, F, D), queue'[r] = queue[r]
    PROVE  Shaped(r)'
<1> USE DEF TypeOK, Goto
<1>1. Shaped(r)
  BY DEF Shape
<1>2. CASE todo[r] # {s}
  BY <1>1, <1>2 DEF Conclude, Shaped
<1>3. CASE todo[r] = {s} /\ (F = {} \/ strategy = "ignore")
  <2>1. handled'[r] = handled[r] \cup {cur[r].event} /\ pc'[r] = "loop" /\ cur'[r] = NoDelivery
    BY <1>3 DEF Conclude, ForgetAttempt
  <2> QED BY <1>1, <2>1 DEF Shaped
<1>4. CASE todo[r] = {s} /\ ~(F = {} \/ strategy = "ignore")
  <2>1. handled'[r] = handled[r] /\ pc'[r] \in {"deadLettering", "settling"} /\ cur'[r] = cur[r]
    BY <1>4 DEF Conclude, SendSettle
  <2> QED BY <1>1, <2>1 DEF Shaped
<1> QED BY <1>2, <1>3, <1>4

LEMMA StepShape ==
    ASSUME TypeOK, Shape, NEW r \in Relays, Step(r)
    PROVE  Shaped(r)'
<1>0. Shaped(r)
  BY DEF Shape
<1> USE <1>0 DEF TypeOK, Goto, round, attempt, Shaped
<1>1. CASE Start(r)
  BY <1>1 DEF Start
<1>2. CASE TaskEnds(r)
  BY <1>2, DownShape DEF TaskEnds
<1>3. CASE BeginClaim(r)
  BY <1>3, SettingsAssumption DEF BeginClaim
<1>4. CASE Claim(r)
  <2>1. PICK S \in Claimable(r) :
          /\ queue' = [queue EXCEPT ![r] =
                {[event |-> e, attempts |-> rows[e].attempts + 1, done |-> rows[e].done,
                  dueAt |-> rows[e].availableAt] : e \in S}]
          /\ Goto(r, IF S = {} THEN "waiting" ELSE "loop")
    BY <1>4 DEF Claim
  <2>2. /\ handled'[r] = {} /\ cur'[r] = NoDelivery
        /\ pc'[r] = IF S = {} THEN "waiting" ELSE "loop"
        /\ queue'[r] = {[event |-> e, attempts |-> rows[e].attempts + 1, done |-> rows[e].done,
                         dueAt |-> rows[e].availableAt] : e \in S}
    BY <1>4, <2>1 DEF Claim
  <2>3. /\ \A d, f \in queue'[r] : d.event = f.event => d = f
        /\ S = {} => queue'[r] = {}
    BY <2>2
  <2> QED BY <2>2, <2>3
<1>5. CASE LeaseRunsShort(r)
  BY <1>5 DEF LeaseRunsShort, YieldOrExtend
<1>6. CASE StartDelivery(r)
  <2>1. PICK d \in NextDelivery(r) :
          /\ queue' = [queue EXCEPT ![r] = @ \ {d}]
          /\ IF Todo(d) = {}
             THEN /\ handled' = [handled EXCEPT ![r] = @ \cup {d.event}]
                  /\ UNCHANGED <<pc, attempt>>
             ELSE /\ Goto(r, "handling")
                  /\ cur' = [cur EXCEPT ![r] = d]
                  /\ UNCHANGED handled
    BY <1>6 DEF StartDelivery
  <2>2. d \in queue[r] /\ d \in Delivery /\ d # NoDelivery
    BY NullAssumption DEF NextDelivery
  <2>3. pc[r] = "loop" /\ cur[r] = NoDelivery
    BY <1>6 DEF StartDelivery
  <2>4. CASE Todo(d) = {}
    BY <2>1, <2>2, <2>3, <2>4
  <2>5. CASE Todo(d) # {}
    BY <2>1, <2>2, <2>3, <2>5
  <2> QED BY <2>4, <2>5
<1>7. CASE HandlerSucceeds(r)
  BY <1>7, ConcludeShape DEF HandlerSucceeds
<1>8. ASSUME NEW kind \in Failures, HandlerFails(r, kind) PROVE Shaped(r)'
  BY <1>8, ConcludeShape DEF HandlerFails
<1>9. CASE AddDeadLetter(r)
  BY <1>9 DEF AddDeadLetter, SendSettle
<1>10. CASE Settle(r)
  BY <1>10 DEF Settle, ForgetAttempt
<1>11. CASE Complete(r)
  <2>1. cur'[r] = NoDelivery
    BY <1>11 DEF Complete, Completing, Leaving
  <2>2. CASE Leaving(r) /\ queue[r] = {}
    BY <1>11, <2>1, <2>2 DEF Complete, Return, ForgetRound
  <2>3. CASE ~(Leaving(r) /\ queue[r] = {})
    <3>1. handled'[r] = {} /\ queue'[r] = queue[r]
      BY <1>11, <2>3 DEF Complete
    <3>2. pc'[r] \in {"ending", "extending", "givingBack"}
      BY <1>11, <2>3 DEF Complete, Completing, YieldOrExtend
    <3> QED BY <2>1, <3>1, <3>2
  <2> QED BY <2>2, <2>3
<1>12. CASE Extend(r)
  BY <1>12 DEF Extend
<1>13. CASE Release(r)
  <2>1. cur'[r] = NoDelivery
    BY <1>13 DEF Release, Releasing, Leaving
  <2>2. CASE Leaving(r)
    BY <1>13, <2>1, <2>2 DEF Release, Return, ForgetRound
  <2>3. CASE ~Leaving(r)
    BY <1>13, <2>1, <2>3 DEF Release, Releasing
  <2> QED BY <2>2, <2>3
<1>14. CASE RoundOver(r)
  BY <1>14 DEF RoundOver, Leaving, Return, ForgetRound
<1>15. CASE RoundFailed(r)
  BY <1>15, DownShape DEF RoundFailed, ForgetRound
<1> QED BY <1>1, <1>2, <1>3, <1>4, <1>5, <1>6, <1>7, <1>8, <1>9, <1>10, <1>11, <1>12, <1>13, <1>14, <1>15 DEF Step

LEMMA DisturbShape ==
    ASSUME TypeOK, Shape, NEW r \in Relays, Disturb(r)
    PROVE  Shaped(r)'
<1>0. Shaped(r)
  BY DEF Shape
<1> USE <1>0 DEF TypeOK, Goto, round, attempt, Shaped
<1>1. CASE RequestStop(r)
  BY <1>1 DEF RequestStop
<1>2. CASE Cancel(r)
  <2>1. /\ queue'[r] = queue[r] \cup (IF cur[r] = NoDelivery THEN {} ELSE {cur[r]})
        /\ handled'[r] = handled[r] /\ pc'[r] = "givingBack" /\ cur'[r] = NoDelivery
    BY <1>2 DEF Cancel, ForgetAttempt
  <2> QED BY <2>1
<1>3. CASE CancelGivingBack(r)
  BY <1>3 DEF CancelGivingBack
<1>4. CASE CancelClaim(r)
  BY <1>4, DownShape DEF CancelClaim
<1>5. CASE ClaimFails(r)
  BY <1>5 DEF ClaimFails
<1>6. CASE StatementFails(r)
  BY <1>6 DEF StatementFails, ForgetAttempt
<1>7. CASE GivingBackFails(r)
  BY <1>7 DEF GivingBackFails
<1>8. CASE RefuseDeadLetter(r)
  BY <1>8 DEF RefuseDeadLetter, SendSettle
<1>9. CASE Crash(r)
  BY <1>9, DownShape DEF Crash
<1> QED BY <1>1, <1>2, <1>3, <1>4, <1>5, <1>6, <1>7, <1>8, <1>9 DEF Disturb

LEMMA TickShape ==
    ASSUME TypeOK, Shape, Tick, NEW r \in Relays
    PROVE  Shaped(r)'
<1>0. Shaped(r)
  BY DEF Shape
<1>1. /\ pc'[r] = IF pc[r] = "waiting" THEN "idle" ELSE pc[r]
      /\ until'[r] = CountDown(until[r], -Latency) /\ handled'[r] = handled[r]
      /\ queue'[r] = {[d EXCEPT !.dueAt = CountDown(@, -Latency)] : d \in queue[r]}
      /\ cur'[r] = IF cur[r] = NoDelivery THEN NoDelivery
                   ELSE [cur[r] EXCEPT !.dueAt = CountDown(@, -Latency)]
  BY DEF Tick, TypeOK
<1>2. \A d \in Delivery : [d EXCEPT !.dueAt = CountDown(@, -Latency)].event = d.event
  BY DEF Delivery
<1>3. until'[r] <= until[r]
  BY <1>1, BoundAssumption DEF CountDown, TypeOK
<1>4. cur'[r] = NoDelivery <=> cur[r] = NoDelivery
  <2>1. CASE cur[r] # NoDelivery
    <3>1. cur[r] \in Delivery /\ cur'[r] = [cur[r] EXCEPT !.dueAt = CountDown(@, -Latency)]
      BY <1>1, <2>1 DEF TypeOK
    <3>2. CountDown(cur[r].dueAt, -Latency) \in Int
      BY <3>1, BoundAssumption DEF CountDown, Delivery
    <3>3. cur'[r] \in Delivery
      BY <3>1, <3>2 DEF Delivery
    <3> QED BY <2>1, <3>3, NullAssumption
  <2>2. CASE cur[r] = NoDelivery
    BY <1>1, <2>2
  <2> QED BY <2>1, <2>2
<1>5. cur[r] # NoDelivery => cur'[r].event = cur[r].event
  BY <1>1, <1>2 DEF TypeOK
<1>6. /\ \A d, f \in queue'[r] : d.event = f.event => d = f
      /\ \A d \in queue'[r] : \E f \in queue[r] : f.event = d.event
      /\ queue[r] = {} => queue'[r] = {}
  <2> DEFINE aged(d) == [d EXCEPT !.dueAt = CountDown(@, -Latency)]
  <2>1. queue[r] \subseteq Delivery /\ \A d, f \in queue[r] : d.event = f.event => d = f
    BY <1>0 DEF Shaped, TypeOK
  <2>2. queue'[r] = {aged(d) : d \in queue[r]} /\ \A d \in queue[r] : aged(d).event = d.event
    BY <1>1, <1>2, <2>1
  <2> HIDE DEF aged
  <2> QED BY <2>1, <2>2
<1>7. until[r] \in Int /\ until'[r] \in Int
  BY <1>1, BoundAssumption DEF CountDown, TypeOK
<1> QED BY <1>0, <1>1, <1>3, <1>4, <1>5, <1>6, <1>7, SettingsAssumption DEF Shaped

LEMMA NextShape ==
    ASSUME TInv, Shape, [Next]_vars
    PROVE  Shape'
<1> USE DEF TInv
<1>1. CASE UNCHANGED vars
  BY <1>1 DEF vars, round, attempt, Shape, Shaped
<1>2. ASSUME NEW e \in Events, Publish(e) PROVE Shape'
  BY <1>2 DEF Publish, round, attempt, Shape, Shaped, TypeOK
<1>3. ASSUME NEW r \in Relays, Step(r) \/ Disturb(r) PROVE Shape'
  <2>1. ASSUME NEW x \in Relays PROVE Shaped(x)'
    <3>1. CASE x = r
      BY <1>3, <3>1, StepShape, DisturbShape
    <3>2. CASE x # r
      <4>1. Untouched(x)
        BY <1>3, <3>2, StepFrame, DisturbFrame
      <4> QED BY <4>1, ShapeFrame
    <3> QED BY <3>1, <3>2
  <2> QED BY <2>1 DEF Shape
<1>4. CASE Tick
  BY <1>4, TickShape DEF Shape
<1> QED BY <1>1, <1>2, <1>3, <1>4 DEF Next

\* Type correctness: every variable keeps its type, whatever the relays do.
THEOREM TypeCorrect == Spec => []TypeOK
<1>1. Init => TInv /\ Shape
  BY InitTypes, InitShape
<1>2. TInv /\ Shape /\ [Next]_vars => TInv' /\ Shape'
  BY NextTypes, NextShape
<1>3. TInv => TypeOK
  BY DEF TInv
<1> QED BY <1>1, <1>2, <1>3, PTL DEF Spec

----------------------------------------------------------------------------
(* Leases. *)

\* A row exists only for a published event: publishing overwrites none.
RowsPublished == \A e \in Events : rows[e] # NoRow => e \in published

LeaseHeld(r) ==
    lease[r] > 0 /\ pc[r] # "givingBack" =>
        \A e \in Held(r) : Mine(r, e) /\ rows[e].availableAt = lease[r]

LeaseInv == LeaseHolds /\ RowsPublished

\* A relay's step writes only rows of its own claim, and, while it claims, rows
\* that are due.
OwnRowsOnly(r) ==
    \A e \in Events :
        rows'[e] # rows[e] =>
            /\ rows[e] # NoRow
            /\ Mine(r, e) \/ (pc[r] = "claiming" /\ rows[e].availableAt <= 0)

LEMMA EffectsOnOwnRows ==
    ASSUME TypeOK, Shape, NEW r \in Relays
    PROVE  /\ UNCHANGED ledger => OwnRowsOnly(r)
           /\ pc[r] = "claiming" /\ (\E S \in Claimable(r) : ClaimEffect(r, S)) => OwnRowsOnly(r)
           /\ CompleteEffect(r) => OwnRowsOnly(r)
           /\ ExtendEffect(r) => OwnRowsOnly(r)
           /\ ReleaseEffect(r) => OwnRowsOnly(r)
           /\ SettleEffect(r) => OwnRowsOnly(r)
           /\ (\E s : AddEffect(r, s)) => OwnRowsOnly(r)
<1> USE DEF OwnRowsOnly
<1>1. UNCHANGED ledger => OwnRowsOnly(r)
  BY DEF ledger
<1>2. ASSUME pc[r] = "claiming", NEW S \in Claimable(r), ClaimEffect(r, S) PROVE OwnRowsOnly(r)
  <2>1. until[r] - ClaimTimeout <= 0
    BY <1>2, SettingsAssumption DEF Shape, Shaped, TypeOK
  <2>2. ASSUME NEW e \in S PROVE rows[e] # NoRow /\ rows[e].availableAt <= 0
    <3>1. e \in Events /\ rows[e] # NoRow /\ rows[e].availableAt <= until[r] - ClaimTimeout
      BY DEF Claimable, Due
    <3>2. rows[e].availableAt \in Int /\ until[r] - ClaimTimeout \in Int
      BY <3>1, SettingsAssumption DEF TypeOK, Row
    <3> QED BY <2>1, <3>1, <3>2
  <2> QED BY <1>2, <2>2 DEF ClaimEffect, Claimed
<1>3. CompleteEffect(r) => OwnRowsOnly(r)
  BY DEF CompleteEffect, Completed, Mine
<1>4. ExtendEffect(r) => OwnRowsOnly(r)
  BY DEF ExtendEffect, Extended, Mine
<1>5. ReleaseEffect(r) => OwnRowsOnly(r)
  BY DEF ReleaseEffect, Released, Mine
<1>6. SettleEffect(r) => OwnRowsOnly(r)
  BY DEF SettleEffect, ledger, Mine, TypeOK
<1>7. (\E s : AddEffect(r, s)) => OwnRowsOnly(r)
  BY DEF AddEffect
<1> QED BY <1>1, <1>2, <1>3, <1>4, <1>5, <1>6, <1>7

LEMMA MaybeEffectOnOwnRows ==
    ASSUME TypeOK, Shape, NEW r \in Relays, MaybeEffect(r)
    PROVE  OwnRowsOnly(r)
  BY EffectsOnOwnRows DEF MaybeEffect, UnseenEffect, ledger

LEMMA StepsOnOwnRows ==
    ASSUME TypeOK, Shape, NEW r \in Relays, Step(r) \/ Disturb(r)
    PROVE  OwnRowsOnly(r) /\ published' = published
<1> USE EffectsOnOwnRows, MaybeEffectOnOwnRows
<1>1. ASSUME Start(r) \/ TaskEnds(r) \/ BeginClaim(r) \/ LeaseRunsShort(r) \/ StartDelivery(r)
               \/ RoundOver(r) \/ RoundFailed(r) \/ RequestStop(r) \/ CancelGivingBack(r)
      PROVE  UNCHANGED <<ledger, published>>
  BY <1>1 DEF Start, TaskEnds, BeginClaim, LeaseRunsShort, StartDelivery, RoundOver, RoundFailed,
              RequestStop, CancelGivingBack
<1>2. ASSUME HandlerSucceeds(r) \/ \E kind \in Failures : HandlerFails(r, kind)
      PROVE  UNCHANGED <<ledger, published>>
  BY <1>2 DEF HandlerSucceeds, HandlerFails
<1>3. CASE Claim(r)
  BY <1>3 DEF Claim
<1>4. CASE AddDeadLetter(r)
  BY <1>4 DEF AddDeadLetter
<1>5. CASE Settle(r)
  BY <1>5 DEF Settle
<1>6. CASE Complete(r)
  BY <1>6 DEF Complete
<1>7. CASE Extend(r)
  BY <1>7 DEF Extend
<1>8. CASE Release(r)
  BY <1>8 DEF Release
<1>9. ASSUME Cancel(r) \/ CancelClaim(r) \/ ClaimFails(r) \/ StatementFails(r) \/ GivingBackFails(r)
               \/ RefuseDeadLetter(r) \/ Crash(r)
      PROVE  MaybeEffect(r) /\ published' = published
  BY <1>9 DEF Cancel, CancelClaim, ClaimFails, StatementFails, GivingBackFails, RefuseDeadLetter, Crash
<1> QED BY <1>1, <1>2, <1>3, <1>4, <1>5, <1>6, <1>7, <1>8, <1>9 DEF Step, Disturb

\* Steps of another relay leave the rows of a lease that lasts alone.
LEMMA LeaseFrame ==
    ASSUME TypeOK, NEW r \in Relays, NEW x \in Relays \ {r}, Untouched(x), OwnRowsOnly(r), LeaseHeld(x)
    PROVE  LeaseHeld(x)'
<1>1. Held(x)' = Held(x) /\ lease'[x] = lease[x] /\ pc'[x] = pc[x]
  BY DEF Held, Untouched, SamePlace, SameRound, SameAttempt
<1>2. ASSUME NEW e \in Events, Mine(x, e), rows[e].availableAt > 0 PROVE rows'[e] = rows[e]
  <2>1. ~Mine(r, e) /\ ~(rows[e].availableAt <= 0)
    BY <1>2 DEF Mine, TypeOK, Row
  <2> QED BY <2>1 DEF OwnRowsOnly
<1>3. Held(x) \subseteq Events
  BY DEF Held, TypeOK, Delivery
<1> QED BY <1>1, <1>2, <1>3 DEF LeaseHeld, Mine

LEMMA HeldByParts ==
    ASSUME NEW r \in Relays
    PROVE  \A e : e \in Held(r) <=> \/ \E d \in queue[r] : d.event = e
                                    \/ e \in handled[r]
                                    \/ cur[r] # NoDelivery /\ cur[r].event = e
  BY DEF Held

\* A relay that holds no more than before, of rows that stay, keeps its lease.
LEMMA LeaseKept ==
    ASSUME TypeOK, NEW r \in Relays, LeaseHeld(r), pc[r] # "givingBack", lease'[r] = lease[r],
           Held(r)' \subseteq Held(r), \A e \in Held(r)' : rows'[e] = rows[e]
    PROVE  LeaseHeld(r)'
  BY DEF LeaseHeld, Mine

LEMMA LeaseForgotten ==
    ASSUME TypeOK, NEW r \in Relays, ForgetRound(r)
    PROVE  LeaseHeld(r)'
  BY DEF ForgetRound, LeaseHeld, TypeOK

LEMMA LeaseGivenBack ==
    ASSUME TypeOK, NEW r \in Relays, pc'[r] = "givingBack"
    PROVE  LeaseHeld(r)'
  BY DEF LeaseHeld

LEMMA ConcludeHeld ==
    ASSUME TypeOK, Shape, NEW r \in Relays, pc[r] = "handling", NEW s, NEW F, NEW D,
           Conclude(r, s, F, D), queue'[r] = queue[r]
    PROVE  Held(r)' \subseteq Held(r)
<1> USE DEF TypeOK
<1>1. cur[r] # NoDelivery
  BY DEF Shape, Shaped
<1>2. CASE todo[r] # {s}
  BY <1>2 DEF Conclude, Held
<1>3. CASE todo[r] = {s} /\ (F = {} \/ strategy = "ignore")
  <2>1. handled'[r] = handled[r] \cup {cur[r].event} /\ cur'[r] = NoDelivery
    BY <1>3 DEF Conclude, ForgetAttempt
  <2> QED BY <1>1, <2>1 DEF Held
<1>4. CASE todo[r] = {s} /\ ~(F = {} \/ strategy = "ignore")
  <2>1. handled'[r] = handled[r] /\ cur'[r] = cur[r]
    BY <1>4 DEF Conclude
  <2> QED BY <2>1 DEF Held
<1> QED BY <1>2, <1>3, <1>4

LEMMA StepLease ==
    ASSUME TypeOK, Shape, NEW r \in Relays, LeaseHeld(r), Step(r)
    PROVE  LeaseHeld(r)'
<1>0. Shaped(r)
  BY DEF Shape
<1> USE DEF Goto
<1>1. CASE Start(r)
  BY <1>1, LeaseKept DEF Start, round, attempt, ledger, Held
<1>2. CASE TaskEnds(r)
  BY <1>2, LeaseForgotten DEF TaskEnds, Down
<1>3. CASE BeginClaim(r)
  BY <1>3, LeaseKept DEF BeginClaim, round, attempt, ledger, Held
<1>4. CASE Claim(r)
  <2>1. PICK S \in Claimable(r) :
          /\ ClaimEffect(r, S)
          /\ queue' = [queue EXCEPT ![r] =
                {[event |-> e, attempts |-> rows[e].attempts + 1, done |-> rows[e].done,
                  dueAt |-> rows[e].availableAt] : e \in S}]
          /\ lease' = [lease EXCEPT ![r] = IF S = {} THEN -1 ELSE until[r]]
    BY <1>4 DEF Claim
  <2>2. handled'[r] = {} /\ cur'[r] = NoDelivery
    BY <1>0, <1>4 DEF Claim, Shaped, attempt
  <2>3. Held(r)' = S
    <3>1. queue'[r] = {[event |-> e, attempts |-> rows[e].attempts + 1, done |-> rows[e].done,
                        dueAt |-> rows[e].availableAt] : e \in S}
      BY <2>1 DEF TypeOK
    <3>2. {d.event : d \in queue'[r]} = S
      <4> DEFINE seen(e) == [event |-> e, attempts |-> rows[e].attempts + 1, done |-> rows[e].done,
                             dueAt |-> rows[e].availableAt]
      <4>1. queue'[r] = {seen(e) : e \in S} /\ \A e : seen(e).event = e
        BY <3>1
      <4> HIDE DEF seen
      <4> QED BY <4>1
    <3> QED BY <2>2, <3>2 DEF Held
  <2>4. lease'[r] > 0 => lease'[r] = until[r]
    BY <2>1 DEF TypeOK
  <2>5. ASSUME NEW e \in S PROVE Mine(r, e)' /\ rows'[e].availableAt = until[r]
    <3>1. e \in Events /\ rows[e] \in Row
      BY DEF Claimable, Due, TypeOK
    <3>2. rows'[e] = [rows[e] EXCEPT !.availableAt = until[r], !.attempts = @ + 1, !.claimedBy = r]
      BY <2>1, <3>1 DEF ClaimEffect, Claimed
    <3>3. rows[e].attempts + 1 \in Nat /\ until[r] \in Int
      BY <3>1 DEF Row, TypeOK
    <3>4. rows'[e] \in Row
      BY <3>1, <3>2, <3>3 DEF Row
    <3>5. rows'[e].claimedBy = r /\ rows'[e].availableAt = until[r]
      BY <3>1, <3>2 DEF Row
    <3> QED BY <3>4, <3>5, NullAssumption DEF Mine
  <2> QED BY <2>3, <2>4, <2>5 DEF LeaseHeld
<1>5. CASE LeaseRunsShort(r)
  BY <1>5, LeaseKept DEF LeaseRunsShort, round, attempt, ledger, Held
<1>6. CASE StartDelivery(r)
  <2>1. /\ lease' = lease /\ rows' = rows /\ pc[r] = "loop" /\ cur[r] = NoDelivery
    BY <1>0, <1>6 DEF StartDelivery, ledger, Shaped
  <2>2. PICK d \in NextDelivery(r) :
          /\ queue' = [queue EXCEPT ![r] = @ \ {d}]
          /\ IF Todo(d) = {}
             THEN /\ handled' = [handled EXCEPT ![r] = @ \cup {d.event}]
                  /\ UNCHANGED <<pc, attempt>>
             ELSE /\ cur' = [cur EXCEPT ![r] = d]
                  /\ UNCHANGED handled
    BY <1>6 DEF StartDelivery
  <2>3. d \in queue[r] /\ queue'[r] = queue[r] \ {d}
    BY <2>2 DEF NextDelivery, TypeOK
  <2>4. Held(r)' \subseteq Held(r)
    <3>1. CASE Todo(d) = {}
      BY <2>1, <2>2, <2>3, <3>1 DEF Held, TypeOK, attempt
    <3>2. CASE Todo(d) # {}
      BY <2>1, <2>2, <2>3, <3>2 DEF Held, TypeOK
    <3> QED BY <3>1, <3>2
  <2> QED BY <2>1, <2>4, LeaseKept
<1>7. CASE HandlerSucceeds(r)
  BY <1>7, ConcludeHeld, LeaseKept DEF HandlerSucceeds, ledger
<1>8. ASSUME NEW kind \in Failures, HandlerFails(r, kind) PROVE LeaseHeld(r)'
  BY <1>8, ConcludeHeld, LeaseKept DEF HandlerFails, ledger
<1>9. CASE AddDeadLetter(r)
  BY <1>9, LeaseKept DEF AddDeadLetter, AddEffect, round, Held
<1>10. CASE Settle(r)
  <2>1. /\ queue' = queue /\ handled' = handled /\ lease' = lease /\ cur'[r] = NoDelivery
        /\ pc[r] = "settling" /\ cur[r] # NoDelivery
    BY <1>0, <1>10 DEF Settle, round, ForgetAttempt, TypeOK, Shaped
  <2>2. Held(r)' \subseteq Held(r) /\ cur[r].event \notin Held(r)'
    BY <1>0, <2>1, HeldByParts DEF Held, Shaped
  <2>3. \A e \in Events : e # cur[r].event => rows'[e] = rows[e]
    BY <1>10 DEF Settle, SettleEffect, ledger, TypeOK
  <2>4. Held(r) \subseteq Events
    BY DEF Held, TypeOK, Delivery
  <2> QED BY <2>1, <2>2, <2>3, <2>4, LeaseKept
<1>11. CASE Complete(r)
  <2>1. CASE Leaving(r) /\ queue[r] = {}
    BY <1>11, <2>1, LeaseForgotten DEF Complete, Return
  <2>2. CASE ~(Leaving(r) /\ queue[r] = {})
    <3>1. CASE pc[r] = "givingBack"
      BY <1>11, <2>2, <3>1, LeaseGivenBack DEF Complete, Leaving, TypeOK
    <3>2. CASE pc[r] # "givingBack"
      <4>1. handled'[r] = {} /\ queue' = queue /\ lease' = lease /\ cur' = cur /\ cur[r] = NoDelivery
        BY <1>0, <1>11, <2>2 DEF Complete, Completing, Leaving, Shaped, TypeOK, attempt
      <4>2. Held(r)' \subseteq Held(r) /\ Held(r)' \cap handled[r] = {}
        BY <1>0, <4>1 DEF Held, Shaped
      <4>3. \A e \in Events : e \notin handled[r] => rows'[e] = rows[e]
        BY <1>11 DEF Complete, CompleteEffect, Completed
      <4>4. Held(r) \subseteq Events
        BY DEF Held, TypeOK, Delivery
      <4> QED BY <3>2, <4>1, <4>2, <4>3, <4>4, LeaseKept
    <3> QED BY <3>1, <3>2
  <2> QED BY <2>1, <2>2
<1>12. CASE Extend(r)
  <2>1. /\ queue'[r] = {d \in queue[r] : Mine(r, d.event)} /\ lease'[r] = until[r]
        /\ handled'[r] = {} /\ cur'[r] = NoDelivery /\ rows' = Extended(r)
    BY <1>0, <1>12 DEF Extend, ExtendEffect, Shaped, TypeOK, attempt
  <2>2. ASSUME NEW d \in queue'[r] PROVE Mine(r, d.event)' /\ rows'[d.event].availableAt = until[r]
    <3>1. d \in queue[r] /\ d.event \in Events /\ Mine(r, d.event)
      BY <2>1 DEF TypeOK, Delivery
    <3>2. rows[d.event] \in Row /\ rows'[d.event] = [rows[d.event] EXCEPT !.availableAt = until[r]]
      BY <2>1, <3>1 DEF Extended, Mine, TypeOK
    <3>3. rows'[d.event] \in Row /\ rows'[d.event].claimedBy = r /\ rows'[d.event].availableAt = until[r]
      BY <3>1, <3>2 DEF Row, Mine, TypeOK
    <3> QED BY <3>3, NullAssumption DEF Mine
  <2> QED BY <2>1, <2>2 DEF LeaseHeld, Held
<1>13. CASE Release(r)
  <2>1. CASE Leaving(r)
    BY <1>13, <2>1, LeaseForgotten DEF Release, Return
  <2>2. CASE ~Leaving(r)
    BY <1>13, <2>2, LeaseGivenBack DEF Release, Releasing
  <2> QED BY <2>1, <2>2
<1>14. CASE RoundOver(r)
  BY <1>14, LeaseForgotten DEF RoundOver, Return
<1>15. CASE RoundFailed(r)
  BY <1>15, LeaseForgotten DEF RoundFailed, Down
<1> QED BY <1>1, <1>2, <1>3, <1>4, <1>5, <1>6, <1>7, <1>8, <1>9, <1>10, <1>11, <1>12, <1>13, <1>14, <1>15 DEF Step

LEMMA DisturbLease ==
    ASSUME TypeOK, Shape, NEW r \in Relays, LeaseHeld(r), Disturb(r)
    PROVE  LeaseHeld(r)'
<1>0. Shaped(r)
  BY DEF Shape
<1>1. CASE RequestStop(r)
  BY <1>1 DEF RequestStop, LeaseHeld, Held, Mine, round, attempt, ledger
<1>2. CASE Cancel(r)
  BY <1>2, LeaseGivenBack DEF Cancel, Goto, TypeOK
<1>3. CASE CancelGivingBack(r)
  BY <1>3, LeaseGivenBack DEF CancelGivingBack, TypeOK
<1>4. CASE CancelClaim(r)
  BY <1>4, LeaseForgotten DEF CancelClaim, Down
<1>5. CASE ClaimFails(r)
  <2>1. Held(r)' = {}
    BY <1>0, <1>5 DEF ClaimFails, Held, Shaped, round, attempt
  <2> QED BY <2>1 DEF LeaseHeld
<1>6. CASE StatementFails(r)
  BY <1>6, LeaseGivenBack DEF StatementFails, Goto, TypeOK
<1>7. CASE GivingBackFails(r)
  BY <1>7, LeaseGivenBack DEF GivingBackFails, TypeOK
<1>8. CASE RefuseDeadLetter(r)
  <2>1. rows' = rows /\ Held(r)' = Held(r) /\ lease' = lease /\ pc[r] = "deadLettering"
    BY <1>8 DEF RefuseDeadLetter, MaybeEffect, UnseenEffect, Completing, Releasing, Leaving,
                AddEffect, ledger, round, Held
  <2> QED BY <2>1, LeaseKept
<1>9. CASE Crash(r)
  BY <1>9, LeaseForgotten DEF Crash, Down
<1> QED BY <1>1, <1>2, <1>3, <1>4, <1>5, <1>6, <1>7, <1>8, <1>9 DEF Disturb

LEMMA TickLease ==
    ASSUME TypeOK, NEW r \in Relays, LeaseHeld(r), Tick
    PROVE  LeaseHeld(r)'
<1> SUFFICES ASSUME lease'[r] > 0, pc'[r] # "givingBack", NEW e \in Held(r)'
             PROVE  Mine(r, e)' /\ rows'[e].availableAt = lease'[r]
  BY DEF LeaseHeld
<1>1. lease[r] > 1 /\ lease'[r] = lease[r] - 1 /\ pc[r] # "givingBack"
  BY DEF Tick, CountDown, TypeOK
<1>2. e \in Held(r)
  <2>1. \A d \in Delivery : [d EXCEPT !.dueAt = CountDown(@, -Latency)].event = d.event
    BY DEF Delivery
  <2>2. \A d \in queue'[r] : \E f \in queue[r] : f.event = d.event
    <3> DEFINE aged(d) == [d EXCEPT !.dueAt = CountDown(@, -Latency)]
    <3>1. queue'[r] = {aged(d) : d \in queue[r]} /\ \A d \in queue[r] : aged(d).event = d.event
      BY <2>1 DEF Tick, TypeOK
    <3> HIDE DEF aged
    <3> QED BY <3>1
  <2>3. cur'[r] # NoDelivery => cur[r] # NoDelivery /\ cur'[r].event = cur[r].event
    BY <2>1 DEF Tick, TypeOK
  <2>4. handled'[r] = handled[r]
    BY DEF Tick
  <2> QED BY <2>2, <2>3, <2>4 DEF Held
<1>3. Mine(r, e) /\ rows[e].availableAt = lease[r]
  BY <1>1, <1>2 DEF LeaseHeld, TypeOK
<1>4. e \in Events /\ rows[e] \in Row
  BY <1>2, <1>3 DEF Held, Mine, TypeOK, Delivery
<1>5. rows'[e] = [rows[e] EXCEPT !.availableAt = CountDown(@, -Latency)]
  BY <1>3, <1>4 DEF Tick, Mine
<1>6. CountDown(rows[e].availableAt, -Latency) = lease[r] - 1 /\ lease[r] \in Int
  BY <1>1, <1>3, BoundAssumption DEF CountDown, TypeOK
<1>7. rows'[e] \in Row /\ rows'[e].availableAt = lease[r] - 1 /\ rows'[e].claimedBy = rows[e].claimedBy
  BY <1>4, <1>5, <1>6 DEF Row
<1> QED BY <1>1, <1>3, <1>7, NullAssumption DEF Mine

LEMMA PublishLease ==
    ASSUME TypeOK, LeaseInv, NEW e \in Events, Publish(e)
    PROVE  LeaseInv'
<1>1. rows[e] = NoRow /\ \A f \in Events : f # e => rows'[f] = rows[f]
  BY DEF Publish, LeaseInv, RowsPublished, TypeOK
<1>2. RowsPublished'
  BY <1>1 DEF Publish, LeaseInv, RowsPublished
<1>3. ASSUME NEW r \in Relays PROVE LeaseHeld(r)'
  <2>1. Held(r)' = Held(r) /\ lease' = lease /\ (pc'[r] = "givingBack" <=> pc[r] = "givingBack")
    BY DEF Publish, Held, round, attempt, TypeOK
  <2>2. Held(r) \subseteq Events
    BY DEF Held, TypeOK, Delivery
  <2> QED BY <1>1, <2>1, <2>2 DEF LeaseInv, LeaseHolds, LeaseHeld, Mine
<1> QED BY <1>2, <1>3 DEF LeaseInv, LeaseHolds, LeaseHeld

LEMMA NextLease ==
    ASSUME TypeOK, Shape, LeaseInv, [Next]_vars
    PROVE  LeaseInv'
<1>1. CASE UNCHANGED vars
  BY <1>1 DEF vars, ledger, round, attempt, LeaseInv, LeaseHolds, RowsPublished, Held, Mine
<1>2. ASSUME NEW e \in Events, Publish(e) PROVE LeaseInv'
  BY <1>2, PublishLease
<1>3. ASSUME NEW r \in Relays, Step(r) \/ Disturb(r) PROVE LeaseInv'
  <2>1. OwnRowsOnly(r) /\ published' = published
    BY <1>3, StepsOnOwnRows
  <2>2. ASSUME NEW x \in Relays PROVE LeaseHeld(x)'
    <3>1. LeaseHeld(x)
      BY DEF LeaseInv, LeaseHolds, LeaseHeld
    <3>2. CASE x = r
      BY <1>3, <3>1, <3>2, StepLease, DisturbLease
    <3>3. CASE x # r
      <4>1. Untouched(x)
        BY <1>3, <3>3, StepFrame, DisturbFrame
      <4> QED BY <2>1, <3>1, <3>3, <4>1, LeaseFrame
    <3> QED BY <3>2, <3>3
  <2>3. LeaseHolds'
    BY <2>2 DEF LeaseHolds, LeaseHeld
  <2>4. RowsPublished'
    BY <2>1 DEF OwnRowsOnly, LeaseInv, RowsPublished
  <2> QED BY <2>3, <2>4 DEF LeaseInv
<1>4. CASE Tick
  <2>1. RowsPublished'
    BY <1>4 DEF Tick, LeaseInv, RowsPublished
  <2>2. ASSUME NEW r \in Relays PROVE LeaseHeld(r)'
    <3>1. LeaseHeld(r)
      BY DEF LeaseInv, LeaseHolds, LeaseHeld
    <3> QED BY <1>4, <3>1, TickLease
  <2> QED BY <2>1, <2>2 DEF LeaseInv, LeaseHolds, LeaseHeld
<1> QED BY <1>1, <1>2, <1>3, <1>4 DEF Next

Inductive == TInv /\ Shape /\ LeaseInv

LEMMA InductiveInit == Init => Inductive
<1>1. Init => LeaseInv
  BY DEF Init, LeaseInv, LeaseHolds, RowsPublished
<1> QED BY <1>1, InitTypes, InitShape DEF Inductive

LEMMA InductiveNext == Inductive /\ [Next]_vars => Inductive'
  BY NextTypes, NextShape, NextLease DEF Inductive, TInv

\* A round whose lease lasts owns the rows of all it holds: no statement of
\* another relay, in flight or not, and no fault takes one from it.
THEOREM LeasesHold == Spec => []LeaseHolds
<1>1. Inductive => LeaseHolds
  BY DEF Inductive, LeaseInv
<1> QED BY <1>1, InductiveInit, InductiveNext, PTL DEF Spec

----------------------------------------------------------------------------
(* Handlers and leases, when no commit outlasts the handler timeout. *)

\* While a handler runs, its timeout has not passed, and what is left of it and
\* the timeouts of the subscriptions after it fit in the lease.
InTime(r) ==
    pc[r] = "handling" =>
        /\ todo[r] # {} /\ left[r] \in 0..HandlerTimeout
        /\ left[r] + HandlerTimeout * (Cardinality(todo[r]) - 1) <= lease[r]

LEMMA TodoCounts ==
    ASSUME NEW T \in SUBSET Subs
    PROVE  /\ IsFiniteSet(T) /\ Cardinality(T) \in Nat
           /\ T # {} => Cardinality(T) >= 1
           /\ \A s \in T : Cardinality(T \ {s}) = Cardinality(T) - 1
<1>1. IsFiniteSet(T) /\ Cardinality(T) \in Nat
  BY RelayAssumption, FS_Subset, FS_CardinalityType
<1>2. T # {} => Cardinality(T) >= 1
  BY <1>1, FS_EmptySet
<1>3. \A s \in T : Cardinality(T \ {s}) = Cardinality(T) - 1
  BY <1>1, FS_RemoveElement
<1> QED BY <1>1, <1>2, <1>3

LEMMA OneTimeoutMore ==
    ASSUME NEW h \in Nat, NEW n \in Int
    PROVE  h * n \in Int /\ h * n = h + h * (n - 1)
  OBVIOUS

LEMMA ConcludeInTime ==
    ASSUME TypeOK, NEW r \in Relays, pc[r] = "handling", InTime(r), NEW s \in First(todo[r]),
           NEW F, NEW D, Conclude(r, s, F, D), lease' = lease
    PROVE  InTime(r)'
<1> USE DEF TypeOK
<1>1. CASE todo[r] # {s}
  <2>1. todo'[r] = todo[r] \ {s} /\ left'[r] = HandlerTimeout /\ lease'[r] = lease[r]
    BY <1>1 DEF Conclude
  <2>2. s \in todo[r] /\ todo[r] \in SUBSET Subs /\ todo'[r] # {}
    BY <1>1, <2>1 DEF First
  <2>3. Cardinality(todo'[r]) = Cardinality(todo[r]) - 1 /\ Cardinality(todo[r]) \in Nat
    BY <2>1, <2>2, TodoCounts
  <2>4. left[r] \in Nat /\ left[r] + HandlerTimeout * (Cardinality(todo[r]) - 1) <= lease[r]
    BY DEF InTime
  <2>5. HandlerTimeout * (Cardinality(todo[r]) - 1)
            = HandlerTimeout + HandlerTimeout * (Cardinality(todo'[r]) - 1)
    BY <2>3, OneTimeoutMore, SettingsAssumption
  <2>6. HandlerTimeout * (Cardinality(todo'[r]) - 1) \in Int
    BY <2>3, OneTimeoutMore, SettingsAssumption
  <2>7. left'[r] + HandlerTimeout * (Cardinality(todo'[r]) - 1) <= lease'[r]
    <3> DEFINE rest == HandlerTimeout * (Cardinality(todo'[r]) - 1)
               all  == HandlerTimeout * (Cardinality(todo[r]) - 1)
    <3>1. rest \in Int /\ all = HandlerTimeout + rest /\ left[r] + all <= lease[r] /\ left[r] \in Nat
      BY <2>4, <2>5, <2>6
    <3>2. lease[r] \in Int /\ HandlerTimeout \in Nat
      BY SettingsAssumption
    <3> HIDE DEF rest, all
    <3>3. HandlerTimeout + rest <= lease[r]
      BY <3>1, <3>2
    <3> QED BY <2>1, <3>3 DEF rest
  <2> QED BY <2>1, <2>2, <2>7, SettingsAssumption DEF InTime
<1>2. CASE todo[r] = {s}
  <2>1. pc'[r] # "handling"
    BY <1>2 DEF Conclude, SendSettle, Goto
  <2> QED BY <2>1 DEF InTime
<1> QED BY <1>1, <1>2

LEMMA StepInTime ==
    ASSUME TypeOK, Shape, NEW r \in Relays, InTime(r), Step(r)
    PROVE  InTime(r)'
<1>1. CASE StartDelivery(r)
  <2> SUFFICES ASSUME pc'[r] = "handling" PROVE InTime(r)'
    BY DEF InTime
  <2>1. PICK d \in NextDelivery(r) :
          /\ Budget(d) <= lease[r] /\ Todo(d) # {}
          /\ todo' = [todo EXCEPT ![r] = Todo(d)]
          /\ left' = [left EXCEPT ![r] = HandlerTimeout]
    BY <1>1 DEF StartDelivery
  <2>2. todo'[r] = Todo(d) /\ left'[r] = HandlerTimeout /\ lease'[r] = lease[r]
    BY <1>1, <2>1 DEF StartDelivery, TypeOK
  <2>3. d \in Delivery
    BY DEF NextDelivery, TypeOK
  <2>4. Cardinality(Todo(d)) \in Nat /\ Cardinality(Todo(d)) >= 1
    BY <2>1, <2>3, BudgetType, TodoCounts
  <2>5. Budget(d) = HandlerTimeout * Cardinality(Todo(d))
    BY <2>4 DEF Budget
  <2>6. HandlerTimeout * Cardinality(Todo(d))
            = HandlerTimeout + HandlerTimeout * (Cardinality(Todo(d)) - 1)
    BY <2>4, OneTimeoutMore, SettingsAssumption
  <2>7. left'[r] + HandlerTimeout * (Cardinality(todo'[r]) - 1) <= lease'[r]
    BY <2>1, <2>2, <2>5, <2>6
  <2> QED BY <2>1, <2>2, <2>7, SettingsAssumption DEF InTime
<1>2. CASE HandlerSucceeds(r)
  BY <1>2, ConcludeInTime DEF HandlerSucceeds
<1>3. ASSUME NEW kind \in Failures, HandlerFails(r, kind) PROVE InTime(r)'
  BY <1>3, ConcludeInTime DEF HandlerFails
<1>4. ASSUME \/ Start(r) \/ TaskEnds(r) \/ BeginClaim(r) \/ Claim(r) \/ LeaseRunsShort(r)
             \/ AddDeadLetter(r) \/ Settle(r) \/ Complete(r) \/ Extend(r) \/ Release(r)
             \/ RoundOver(r) \/ RoundFailed(r)
      PROVE  pc'[r] # "handling"
  BY <1>4 DEF Start, TaskEnds, BeginClaim, Claim, LeaseRunsShort, YieldOrExtend, AddDeadLetter, SendSettle,
              Settle, Complete, Completing, Leaving, Return, Extend, Release, Releasing, RoundOver,
              RoundFailed, Down, Goto, TypeOK
<1> QED BY <1>1, <1>2, <1>3, <1>4 DEF Step, InTime

LEMMA DisturbInTime ==
    ASSUME TypeOK, NEW r \in Relays, InTime(r), Disturb(r)
    PROVE  InTime(r)'
<1>1. CASE RequestStop(r)
  BY <1>1 DEF RequestStop, InTime, round, attempt
<1>2. ASSUME \/ Cancel(r) \/ CancelGivingBack(r) \/ CancelClaim(r) \/ ClaimFails(r)
             \/ StatementFails(r) \/ GivingBackFails(r) \/ RefuseDeadLetter(r) \/ Crash(r)
      PROVE  pc'[r] # "handling"
  BY <1>2 DEF Cancel, CancelGivingBack, CancelClaim, ClaimFails, StatementFails, GivingBackFails, Completing,
              Releasing, Leaving, RefuseDeadLetter, SendSettle, Crash, Down, Goto, TypeOK
<1> QED BY <1>1, <1>2 DEF Disturb, InTime

LEMMA TickInTime ==
    ASSUME TypeOK, ~CommitOverrun, NEW r \in Relays, InTime(r), Tick
    PROVE  InTime(r)'
<1> SUFFICES ASSUME pc'[r] = "handling" PROVE InTime(r)'
  BY DEF InTime
<1>1. pc[r] = "handling" /\ left[r] > 0 /\ todo'[r] = todo[r]
  BY DEF Tick, TypeOK
<1> DEFINE rest == HandlerTimeout * (Cardinality(todo[r]) - 1)
<1>2. todo[r] # {} /\ left[r] \in 0..HandlerTimeout /\ left[r] + rest <= lease[r]
  BY <1>1 DEF InTime
<1>3. rest \in Nat
  <2>1. Cardinality(todo[r]) - 1 \in Nat
    BY <1>2, TodoCounts DEF TypeOK
  <2> QED BY <2>1, SettingsAssumption
<1>4. rest' = rest
  BY <1>1
<1> HIDE DEF rest
<1>5. left'[r] = left[r] - 1 /\ lease'[r] = lease[r] - 1 /\ lease[r] \in Int
  BY <1>1, <1>2, <1>3, SettingsAssumption DEF Tick, CountDown, TypeOK
<1>6. left'[r] + rest <= lease'[r] /\ left'[r] \in 0..HandlerTimeout
  BY <1>1, <1>2, <1>3, <1>5, SettingsAssumption
<1> QED BY <1>1, <1>2, <1>4, <1>6 DEF InTime, rest

LEMMA NextInTime ==
    ASSUME ~CommitOverrun, TypeOK, Shape, \A r \in Relays : InTime(r), [Next]_vars
    PROVE  \A r \in Relays : InTime(r)'
<1> SUFFICES ASSUME NEW x \in Relays PROVE InTime(x)'
  OBVIOUS
<1>1. CASE UNCHANGED vars
  BY <1>1 DEF vars, round, attempt, InTime
<1>2. ASSUME NEW e \in Events, Publish(e) PROVE InTime(x)'
  BY <1>2 DEF Publish, round, attempt, InTime, TypeOK
<1>3. ASSUME NEW r \in Relays, Step(r) \/ Disturb(r) PROVE InTime(x)'
  <2>1. CASE x = r
    BY <1>3, <2>1, StepInTime, DisturbInTime
  <2>2. CASE x # r
    <3>1. Untouched(x)
      BY <1>3, <2>2, StepFrame, DisturbFrame
    <3> QED BY <3>1 DEF Untouched, SamePlace, SameRound, SameAttempt, InTime
  <2> QED BY <2>1, <2>2
<1>4. CASE Tick
  BY <1>4, TickInTime
<1> QED BY <1>1, <1>2, <1>3, <1>4 DEF Next

\* The budget checked before a delivery starts covers every handler it runs.
THEOREM HandlersInTime ==
    ASSUME ~CommitOverrun
    PROVE  Spec => []RunsWithinLease
<1> DEFINE AllInTime == \A r \in Relays : InTime(r)
<1>1. Init => Inductive /\ AllInTime
  BY InductiveInit DEF Init, InTime
<1>2. Inductive /\ AllInTime /\ [Next]_vars => Inductive' /\ AllInTime'
  BY InductiveNext, NextInTime DEF Inductive, TInv
<1>3. AllInTime => RunsWithinLease
  BY DEF RunsWithinLease, Running, InTime
<1> QED BY <1>1, <1>2, <1>3, PTL DEF Spec

\* Two relays never run handlers of one delivery together, but for the instant
\* at which the last handler of one of them is timed out.
THEOREM HandlingIsExclusive ==
    ASSUME ~CommitOverrun
    PROVE  Spec => []ExclusiveHandling
<1> DEFINE AllInTime == \A r \in Relays : InTime(r)
<1>1. Init => Inductive /\ AllInTime
  BY InductiveInit DEF Init, InTime
<1>2. Inductive /\ AllInTime /\ [Next]_vars => Inductive' /\ AllInTime'
  BY InductiveNext, NextInTime DEF Inductive, TInv
<1>3. ASSUME Inductive, AllInTime PROVE ExclusiveHandling
  <2> SUFFICES ASSUME NEW r1 \in Relays, NEW r2 \in Relays, r1 # r2, Running(r1), Running(r2),
                      cur[r1].event = cur[r2].event
               PROVE  \E r \in {r1, r2} : left[r] = 0 /\ Cardinality(todo[r]) = 1
    BY DEF ExclusiveHandling
  <2>1. ~(lease[r1] > 0 /\ lease[r2] > 0)
    <3>1. ASSUME NEW r \in Relays, Running(r) PROVE cur[r].event \in Held(r)
      BY <1>3, <3>1 DEF Running, Held, Inductive, Shape, Shaped
    <3>2. ASSUME lease[r1] > 0, lease[r2] > 0
          PROVE  Mine(r1, cur[r1].event) /\ Mine(r2, cur[r2].event)
      BY <1>3, <3>1, <3>2 DEF Running, Inductive, LeaseInv, LeaseHolds
    <3> QED BY <3>2 DEF Mine
  <2>2. ASSUME NEW r \in Relays, Running(r), ~(lease[r] > 0)
        PROVE  left[r] = 0 /\ Cardinality(todo[r]) = 1
    <3> DEFINE k == Cardinality(todo[r]) - 1
    <3>1. /\ todo[r] # {} /\ left[r] \in 0..HandlerTimeout
          /\ left[r] + HandlerTimeout * k <= lease[r] /\ lease[r] \in Int
      BY <1>3, <2>2 DEF Running, InTime, Inductive, TInv, TypeOK
    <3>2. k \in Nat
      BY <1>3, <3>1, TodoCounts DEF Inductive, TInv, TypeOK
    <3>3. k > 0 => HandlerTimeout * k > 0
      BY <3>2, SettingsAssumption
    <3>4. HandlerTimeout * k \in Nat
      BY <3>2, SettingsAssumption
    <3>5. left[r] = 0 /\ k = 0
      <4> DEFINE rest == HandlerTimeout * k
      <4>1. rest \in Nat /\ (k > 0 => rest > 0) /\ left[r] + rest <= lease[r] /\ left[r] \in Nat
        BY <3>1, <3>3, <3>4, SettingsAssumption
      <4> HIDE DEF rest, k
      <4> QED BY <2>2, <3>1, <3>2, <4>1
    <3>6. Cardinality(todo[r]) \in Nat
      BY <1>3, TodoCounts DEF Inductive, TInv, TypeOK
    <3> QED BY <3>5, <3>6
  <2> QED BY <2>1, <2>2
<1> QED BY <1>1, <1>2, <1>3, PTL DEF Spec

=============================================================================
