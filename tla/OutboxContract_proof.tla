------------------------- MODULE OutboxContract_proof -------------------------
(***************************************************************************)
(* The relays of OutboxRelay keep the promise of OutboxContract, grant an    *)
(* event no more attempts than the policy allows and, with the outbox's own  *)
(* table, write a dead letter once, for any relays, events, subscriptions,   *)
(* strategies and settings.                                                 *)
(***************************************************************************)
EXTENDS OutboxRelay_proof

----------------------------------------------------------------------------
(* The inductive invariant: what a relay carries agrees with the table. *)

\* The deliveries of a claim that were not handled yet.
Carried(r) == queue[r] \cup (IF cur[r] = NoDelivery THEN {} ELSE {cur[r]})

\* While the claim lasts, a delivery says what its row says.
AsClaimed(r, d) ==
    Mine(r, d.event) => rows[d.event].attempts = d.attempts /\ rows[d.event].done = d.done

\* What a delivery need not run again is accounted for.
Known(d) == d.event \in published /\ d.done \subseteq Accounted(d.event)

Recorded(e) == {s \in Subs : deadLetters[e][s] > 0}

Failing(r) == {f[1] : f \in failed[r]}

\* A delivery in flight: each of its subscriptions is done, failed or still to
\* run, and none of those it has run or is to run was done before.
Splits(r) ==
    /\ cur[r].done \subseteq done[r] /\ done[r] \subseteq Accounted(cur[r].event)
    /\ Matching[cur[r].event] \subseteq done[r] \cup todo[r] \cup Failing(r)
    /\ (todo[r] \cup Failing(r)) \cap cur[r].done = {}
    /\ pc[r] # "handling" => todo[r] = {}

\* Only an external store is handed dead letters, and has them all before the
\* delivery is settled.
HandsOver(r) ==
    /\ pc[r] = "handling" => toAdd[r] = {}
    /\ pc[r] = "deadLettering" => ExternalStore
    /\ pc[r] = "settling" => toAdd[r] = {}
    /\ ExternalStore /\ pc[r] # "handling" =>
          Dead(failed[r], cur[r].attempts) \subseteq toAdd[r] \cup Recorded(cur[r].event)

InFlight(r) == IF cur[r] = NoDelivery THEN failed[r] = {} /\ toAdd[r] = {} ELSE Splits(r) /\ HandsOver(r)

Carries(r) ==
    /\ \A d \in Carried(r) : AsClaimed(r, d) /\ Known(d)
    /\ \A e \in handled[r] : e \in published /\ Matching[e] \subseteq Accounted(e)
    /\ InFlight(r)

\* The attempts the policy granted are among those the row counts; the claim
\* that holds the row has not been granted another one yet.
RetriesCounted(e) ==
    /\ retried[e] < MaxAttempts
    /\ e \notin published => retried[e] = 0
    /\ rows[e] # NoRow =>
          retried[e] + (IF rows[e].claimedBy = NoRelay THEN 0 ELSE 1) <= rows[e].attempts

LettersFinal(e) ==
    ~ExternalStore =>
        \A s \in Subs : /\ deadLetters[e][s] <= 1
                        /\ deadLetters[e][s] > 0 =>
                              e \in published /\ (rows[e] # NoRow => s \in rows[e].done)

RowKnown(e) == rows[e] # NoRow => rows[e].done \subseteq Accounted(e)

LedgerInv == \A e \in Events : RowKnown(e) /\ RetriesCounted(e) /\ LettersFinal(e)

ContractInv == LedgerInv /\ \A r \in Relays : Carries(r)

----------------------------------------------------------------------------
(* What a step of a relay does to what is shared. *)

\* Nothing that was published, answered or recorded is forgotten.
Grows ==
    /\ published \subseteq published' /\ strategy' = strategy
    /\ \A e \in Events : answered[e] \subseteq answered'[e] /\ Recorded(e) \subseteq Recorded(e)'

\* The rows a relay still holds are as they were when it claimed them.
ClaimStands(r) ==
    \A e \in Events :
        Mine(r, e)' => Mine(r, e) /\ rows'[e].attempts = rows[e].attempts /\ rows'[e].done = rows[e].done

OthersStand(r) == \A x \in Relays \ {r}, e \in Events : Mine(x, e)' => rows'[e] = rows[e]

Owed(e) == IF rows[e] = NoRow THEN {} ELSE Matching[e] \ rows[e].done

\* An event is owed to fewer subscriptions only when they are accounted for.
SettlesOnly ==
    \A e \in Events : /\ Owed(e)' \subseteq Owed(e)
                      /\ Owed(e) \ Owed(e)' \subseteq Accounted(e)'
                      /\ Accounted(e)' # Accounted(e) => e \in published

Lawful(r) == LedgerInv' /\ Grows /\ OthersStand(r) /\ SettlesOnly

LEMMA AccountedByParts == \A e : Accounted(e) = answered[e] \cup Recorded(e)
  BY DEF Accounted, Recorded

LEMMA AccountedGrows ==
    ASSUME Grows, NEW e \in Events
    PROVE  Accounted(e) \subseteq Accounted(e)'
<1>1. Accounted(e)' = answered'[e] \cup Recorded(e)'
  BY DEF Accounted, Recorded
<1> QED BY <1>1, AccountedByParts DEF Grows

\* A statement that writes rows, and neither answers nor dead letters.
LEMMA RowsOnly ==
    ASSUME ContractInv, UNCHANGED <<deadLetters, answered, published, strategy>>
    PROVE  /\ Grows
           /\ \A e \in Events : Accounted(e)' = Accounted(e) /\ (rows'[e] = rows[e] => RowKnown(e)' /\ LettersFinal(e)')
<1>1. \A e \in Events : Accounted(e)' = Accounted(e)
  BY DEF Accounted
<1>2. Grows
  BY DEF Grows, Recorded
<1>3. ASSUME NEW e \in Events, rows'[e] = rows[e] PROVE RowKnown(e)' /\ LettersFinal(e)'
  <2>1. RowKnown(e) /\ LettersFinal(e)
    BY DEF ContractInv, LedgerInv
  <2> QED BY <1>1, <1>3, <2>1 DEF RowKnown, LettersFinal
<1> QED BY <1>1, <1>2, <1>3

\* A statement that writes availableAt, attempts and claimedBy of rows, or
\* deletes rows that are accounted for.
LEMMA RowsLawful ==
    ASSUME TypeOK, ContractInv, NEW r \in Relays,
           UNCHANGED <<deadLetters, retried, answered, published, strategy>>,
           \A e \in Events :
              \/ rows'[e] = rows[e]
              \/ /\ rows[e] # NoRow /\ rows'[e] = NoRow /\ Matching[e] \subseteq Accounted(e)
              \/ /\ rows[e] # NoRow /\ rows'[e] # NoRow /\ rows'[e].done = rows[e].done
                 /\ rows'[e].claimedBy \in {r, NoRelay}
                 /\ retried[e] + (IF rows'[e].claimedBy = NoRelay THEN 0 ELSE 1) <= rows'[e].attempts
    PROVE  Lawful(r)
<1>1. Grows /\ \A e \in Events : Accounted(e)' = Accounted(e)
  BY RowsOnly
<1>2. LedgerInv'
  <2> SUFFICES ASSUME NEW e \in Events PROVE RowKnown(e)' /\ RetriesCounted(e)' /\ LettersFinal(e)'
    BY DEF LedgerInv
  <2>1. RowKnown(e) /\ RetriesCounted(e) /\ LettersFinal(e)
    BY DEF ContractInv, LedgerInv
  <2>2. RowKnown(e)'
    BY <1>1, <2>1 DEF RowKnown
  <2>3. RetriesCounted(e)'
    BY <2>1 DEF RetriesCounted
  <2>4. LettersFinal(e)'
    BY <2>1 DEF LettersFinal
  <2> QED BY <2>2, <2>3, <2>4
<1>3. OthersStand(r)
  <2> SUFFICES ASSUME NEW x \in Relays \ {r}, NEW e \in Events, Mine(x, e)' PROVE rows'[e] = rows[e]
    BY DEF OthersStand
  <2> QED BY RelayAssumption DEF Mine
<1>4. SettlesOnly
  <2> SUFFICES ASSUME NEW e \in Events
               PROVE  Owed(e)' \subseteq Owed(e) /\ Owed(e) \ Owed(e)' \subseteq Accounted(e)
    BY <1>1 DEF SettlesOnly
  <2> QED BY DEF Owed
<1> QED BY <1>1, <1>2, <1>3, <1>4 DEF Lawful

----------------------------------------------------------------------------
(* The statements. *)

\* What a claim knows of the rows that carry it.
LEMMA MineIsRow ==
    ASSUME TypeOK, NEW r \in Relays, NEW e \in Events, Mine(r, e)
    PROVE  /\ rows[e] \in Row /\ rows[e] # NoRow /\ rows[e].claimedBy = r /\ r # NoRelay
           /\ rows[e].attempts \in Nat /\ rows[e].done \in SUBSET Subs
  BY RelayAssumption DEF Mine, TypeOK, Row

LEMMA ClaimLawful ==
    ASSUME TypeOK, ContractInv, NEW r \in Relays, NEW S \in Claimable(r), ClaimEffect(r, S),
           UNCHANGED <<answered, published, strategy>>
    PROVE  Lawful(r)
<1>1. rows' = Claimed(r, S) /\ UNCHANGED <<deadLetters, retried>>
  BY DEF ClaimEffect
<1>2. ASSUME NEW e \in Events, rows'[e] # rows[e]
      PROVE  /\ rows[e] # NoRow /\ rows'[e] # NoRow /\ rows'[e].done = rows[e].done
             /\ rows'[e].claimedBy = r /\ retried[e] + 1 <= rows'[e].attempts
  <2>1. e \in S
    BY <1>1, <1>2 DEF Claimed
  <2>2. rows[e] \in Row /\ rows[e] # NoRow
    BY <2>1, NullAssumption DEF Claimable, Due, TypeOK
  <2>3. rows'[e] = [rows[e] EXCEPT !.availableAt = until[r], !.attempts = @ + 1, !.claimedBy = r]
    BY <1>1, <2>1 DEF Claimed
  <2>4. rows[e].attempts + 1 \in Nat /\ until[r] \in Int
    BY <2>2 DEF Row, TypeOK
  <2>5. rows'[e] \in Row
    <3>1. [rows[e] EXCEPT !.availableAt = until[r], !.attempts = @ + 1, !.claimedBy = r] \in Row
      BY <2>2, <2>4, RowTypes
    <3> QED BY <2>3, <3>1
  <2>6. rows'[e].done = rows[e].done /\ rows'[e].claimedBy = r /\ rows'[e].attempts = rows[e].attempts + 1
    BY <2>2, <2>3 DEF Row
  <2>7. retried[e] <= rows[e].attempts
    <3>1. retried[e] \in Nat /\ rows[e].attempts \in Nat
      BY <2>2 DEF Row, TypeOK
    <3> QED BY <2>2, <3>1 DEF ContractInv, LedgerInv, RetriesCounted
  <2>8. retried[e] \in Nat /\ rows[e].attempts \in Nat
    BY <2>2 DEF Row, TypeOK
  <2> QED BY <2>2, <2>5, <2>6, <2>7, <2>8, NullAssumption
<1>3. r # NoRelay
  BY RelayAssumption
<1> QED BY <1>1, <1>2, <1>3, RowsLawful

LEMMA CompleteLawful ==
    ASSUME TypeOK, ContractInv, NEW r \in Relays, CompleteEffect(r),
           UNCHANGED <<answered, published, strategy>>
    PROVE  Lawful(r) /\ ClaimStands(r)
<1>1. rows' = Completed(r) /\ UNCHANGED <<deadLetters, retried>>
  BY DEF CompleteEffect
<1>2. ASSUME NEW e \in Events, rows'[e] # rows[e]
      PROVE  rows[e] # NoRow /\ rows'[e] = NoRow /\ Matching[e] \subseteq Accounted(e)
  <2>1. e \in handled[r] /\ Mine(r, e) /\ rows'[e] = NoRow
    BY <1>1, <1>2 DEF Completed
  <2> QED BY <2>1 DEF Mine, ContractInv, Carries
<1>3. ClaimStands(r)
  BY <1>2 DEF ClaimStands, Mine
<1> QED BY <1>1, <1>2, <1>3, RowsLawful

LEMMA ExtendLawful ==
    ASSUME TypeOK, ContractInv, NEW r \in Relays, ExtendEffect(r),
           UNCHANGED <<answered, published, strategy>>
    PROVE  Lawful(r) /\ ClaimStands(r)
<1>1. rows' = Extended(r) /\ UNCHANGED <<deadLetters, retried>>
  BY DEF ExtendEffect
<1>2. ASSUME NEW e \in Events, rows'[e] # rows[e]
      PROVE  /\ Mine(r, e) /\ rows'[e] # NoRow
             /\ rows'[e].done = rows[e].done /\ rows'[e].attempts = rows[e].attempts
             /\ rows'[e].claimedBy = r
  <2>1. Mine(r, e) /\ rows'[e] = [rows[e] EXCEPT !.availableAt = until[r]]
    BY <1>1, <1>2 DEF Extended
  <2>2. rows[e] \in Row /\ rows[e].claimedBy = r
    BY <2>1, MineIsRow
  <2>3. rows'[e] \in Row
    <3>1. until[r] \in Int
      BY DEF TypeOK
    <3>2. [rows[e] EXCEPT !.availableAt = until[r]] \in Row
      BY <2>2, <3>1, RowTypes
    <3> QED BY <2>1, <3>2
  <2> QED BY <2>1, <2>2, <2>3, NullAssumption DEF Row
<1>3. ClaimStands(r)
  BY <1>2 DEF ClaimStands, Mine
<1>4. ASSUME NEW e \in Events, Mine(r, e) PROVE retried[e] + 1 <= rows[e].attempts
  BY <1>4, MineIsRow DEF ContractInv, LedgerInv, RetriesCounted
<1> QED BY <1>1, <1>2, <1>3, <1>4, MineIsRow, RowsLawful

LEMMA ReleaseLawful ==
    ASSUME TypeOK, ClaimCounted, ContractInv, NEW r \in Relays, ReleaseEffect(r),
           UNCHANGED <<answered, published, strategy>>
    PROVE  Lawful(r) /\ ClaimStands(r)
<1>1. rows' = Released(r) /\ UNCHANGED <<deadLetters, retried>>
  BY DEF ReleaseEffect
<1>2. ASSUME NEW e \in Events, rows'[e] # rows[e]
      PROVE  /\ Mine(r, e) /\ rows'[e] # NoRow
             /\ rows'[e].done = rows[e].done /\ rows'[e].attempts = rows[e].attempts - 1
             /\ rows'[e].claimedBy = NoRelay
  <2> DEFINE g == CHOOSE d \in queue[r] : d.event = e
  <2>1. /\ Mine(r, e) /\ \E d \in queue[r] : d.event = e
        /\ rows'[e] = [rows[e] EXCEPT !.availableAt = g.dueAt, !.attempts = @ - 1, !.claimedBy = NoRelay]
    BY <1>1, <1>2 DEF Released
  <2>2. g \in queue[r]
    BY <2>1
  <2>3. g.dueAt \in Int
    BY <2>2 DEF TypeOK, Delivery
  <2>4. rows[e] \in Row /\ rows[e].attempts - 1 \in Nat
    <3>1. rows[e] \in Row /\ rows[e] # NoRow /\ rows[e].claimedBy # NoRelay
      BY <2>1, MineIsRow
    <3>2. rows[e].attempts >= 1 /\ rows[e].attempts \in Nat
      BY <3>1 DEF ClaimCounted, Row
    <3> QED BY <3>1, <3>2
  <2> HIDE DEF g
  <2>5. rows'[e] \in Row
    <3>1. [rows[e] EXCEPT !.availableAt = g.dueAt, !.attempts = @ - 1, !.claimedBy = NoRelay] \in Row
      BY <2>3, <2>4, RowTypes
    <3> QED BY <2>1, <3>1
  <2> QED BY <2>1, <2>4, <2>5, NullAssumption DEF Row
<1>3. ClaimStands(r)
  BY <1>2, RelayAssumption DEF ClaimStands, Mine
<1>4. ASSUME NEW e \in Events, Mine(r, e)
      PROVE  retried[e] + 0 <= rows[e].attempts - 1
  <2>1. retried[e] + 1 <= rows[e].attempts
    BY <1>4, MineIsRow DEF ContractInv, LedgerInv, RetriesCounted
  <2>2. retried[e] \in Nat /\ rows[e].attempts \in Nat
    BY <1>4, MineIsRow DEF TypeOK
  <2> QED BY <2>1, <2>2
<1>5. \A e \in Events : rows'[e] # rows[e] => rows[e] # NoRow
  BY <1>2, MineIsRow
<1> QED BY <1>1, <1>2, <1>3, <1>4, <1>5, RowsLawful

\* The failures of a delivery are dead or attempted again.
LEMMA FailuresSplit ==
    ASSUME TypeOK, NEW r \in Relays, NEW n
    PROVE  /\ Failing(r) = Dead(failed[r], n) \cup Again(failed[r], n)
           /\ Failing(r) \in SUBSET Subs
  BY DEF Failing, Dead, Again, TypeOK

\* What is known of the delivery in flight while its claim holds the row.
LEMMA InFlightFacts ==
    ASSUME TypeOK, ContractInv, NEW r \in Relays, Shaped(r), cur[r] # NoDelivery
    PROVE  /\ cur[r] \in Delivery /\ cur[r].event \in Events /\ cur[r].attempts \in Nat
           /\ Splits(r) /\ HandsOver(r) /\ AsClaimed(r, cur[r]) /\ Known(cur[r])
<1>1. cur[r] \in Delivery
  BY DEF TypeOK
<1>2. Carries(r)
  BY DEF ContractInv
<1> QED BY <1>1, <1>2 DEF Carries, InFlight, Carried, Delivery

\* The row after the settling statement.
LEMMA SettledRow ==
    ASSUME TypeOK, NEW r \in Relays, NEW e \in Events, e = cur[r].event, Mine(r, e),
           Again(failed[r], cur[r].attempts) # {}
    PROVE  /\ Settled(r) # NoRow /\ Settled(r).claimedBy = NoRelay
           /\ Settled(r).attempts = rows[e].attempts
           /\ Settled(r).done = done[r] \cup Dead(failed[r], cur[r].attempts)
<1> DEFINE D == done[r] \cup Dead(failed[r], cur[r].attempts)
<1>1. rows[e] \in Row
  BY MineIsRow
<1>2. D \in SUBSET Subs /\ until[r] \in Int
  BY FailuresSplit DEF TypeOK
<1>3. Settled(r) = [rows[e] EXCEPT !.availableAt = until[r], !.claimedBy = NoRelay, !.done = D]
  BY DEF Settled
<1> HIDE DEF D
<1>4. [rows[e] EXCEPT !.availableAt = until[r], !.claimedBy = NoRelay, !.done = D] \in Row
  BY <1>1, <1>2, RowTypes
<1>5. Settled(r).claimedBy = NoRelay /\ Settled(r).attempts = rows[e].attempts /\ Settled(r).done = D
  BY <1>1, <1>3 DEF Row
<1>6. Settled(r) \in Row
  BY <1>3, <1>4
<1> QED BY <1>5, <1>6, NullAssumption DEF D

\* The dead letters after the settling statement.
LEMMA BuriedLetters ==
    ASSUME TypeOK, NEW r \in Relays, NEW e \in Events, e = cur[r].event,
           NEW B, B = Dead(failed[r], cur[r].attempts), deadLetters' = Buried(r)
    PROVE  /\ ExternalStore => deadLetters' = deadLetters
           /\ \A f \in Events : f # e => deadLetters'[f] = deadLetters[f]
           /\ ~ExternalStore => \A s \in Subs : deadLetters'[e][s] = IF s \in B THEN More(deadLetters[e][s])
                                                                     ELSE deadLetters[e][s]
  BY DEF Buried, TypeOK

\* What settling a delivery whose claim holds the row does to its event e: the
\* subscriptions B are dead, the subscriptions A are attempted again.
LEMMA SettleMineLawful ==
    ASSUME TypeOK, ContractInv, NEW r \in Relays, Shaped(r), pc[r] = "settling", SettleEffect(r),
           UNCHANGED <<answered, published, strategy>>,
           NEW e, e = cur[r].event, NEW n, n = cur[r].attempts, Mine(r, e),
           NEW A, A = Again(failed[r], n), NEW B, B = Dead(failed[r], n)
    PROVE  Lawful(r) /\ ClaimStands(r)
<1>0. /\ cur[r] \in Delivery /\ e \in Events /\ n \in Nat
      /\ Splits(r) /\ HandsOver(r) /\ AsClaimed(r, cur[r]) /\ Known(cur[r])
  BY InFlightFacts DEF Shaped
<1>1. /\ rows' = [rows EXCEPT ![e] = Settled(r)]
      /\ deadLetters' = Buried(r)
      /\ retried' = [retried EXCEPT ![e] = IF Granted(failed[r], n) THEN @ + 1 ELSE @]
  BY DEF SettleEffect
<1>2. /\ rows[e] # NoRow /\ rows[e].claimedBy = r /\ r # NoRelay
      /\ rows[e].attempts = n /\ rows[e].done = cur[r].done /\ retried[e] + 1 <= n
  <2>1. rows[e].attempts = n /\ rows[e].done = cur[r].done
    BY <1>0 DEF AsClaimed
  <2> QED BY <1>0, <2>1, MineIsRow DEF ContractInv, LedgerInv, RetriesCounted
<1>3. /\ \A f \in Events : f # e => rows'[f] = rows[f] /\ retried'[f] = retried[f]
      /\ rows'[e] = Settled(r)
      /\ A = {} => rows'[e] = NoRow
      /\ A # {} => /\ rows'[e] # NoRow /\ rows'[e].claimedBy = NoRelay
                   /\ rows'[e].attempts = n /\ rows'[e].done = done[r] \cup B
  <2>1. \A f \in Events : f # e => rows'[f] = rows[f] /\ retried'[f] = retried[f]
    BY <1>1 DEF TypeOK
  <2>2. rows'[e] = Settled(r)
    BY <1>0, <1>1 DEF TypeOK
  <2>3. A = {} => Settled(r) = NoRow
    BY DEF Settled
  <2> QED BY <1>0, <1>2, <2>1, <2>2, <2>3, SettledRow
<1>4. /\ \A f \in Events : f # e => deadLetters'[f] = deadLetters[f]
      /\ ExternalStore => deadLetters' = deadLetters
      /\ ~ExternalStore => \A s \in Subs : deadLetters'[e][s] = IF s \in B THEN More(deadLetters[e][s])
                                                                ELSE deadLetters[e][s]
  BY <1>0, <1>1, BuriedLetters
<1>5. /\ B \subseteq Failing(r) /\ Failing(r) = B \cup A /\ Failing(r) \subseteq Subs
      /\ todo[r] = {} /\ toAdd[r] = {} /\ done[r] \in SUBSET Subs
      /\ cur[r].done \subseteq done[r] /\ done[r] \subseteq Accounted(e)
      /\ Matching[e] \subseteq done[r] \cup B \cup A /\ B \cap cur[r].done = {}
  <2>1. Failing(r) = B \cup A /\ Failing(r) \in SUBSET Subs
    BY FailuresSplit
  <2>2. done[r] \in SUBSET Subs
    BY DEF TypeOK
  <2> QED BY <1>0, <2>1, <2>2 DEF Splits, HandsOver
<1>6. \A f \in Events, s \in Subs : deadLetters[f][s] \in 0..2 /\ deadLetters'[f][s] >= deadLetters[f][s]
  <2>1. \A f \in Events, s \in Subs : deadLetters[f][s] \in 0..2
    BY DEF TypeOK
  <2> QED BY <1>4, <2>1 DEF More
<1>7. \A f \in Events : Recorded(f) \subseteq Recorded(f)'
  <2> SUFFICES ASSUME NEW f \in Events, NEW s \in Subs, deadLetters[f][s] > 0 PROVE deadLetters'[f][s] > 0
    BY DEF Recorded
  <2>1. deadLetters'[f][s] \in Int
    <3>1. CASE f # e \/ ExternalStore
      BY <1>4, <1>6, <3>1
    <3>2. CASE f = e /\ ~ExternalStore
      BY <1>4, <1>6, <3>2 DEF More
    <3> QED BY <3>1, <3>2
  <2> QED BY <1>6, <2>1
<1>8. B \subseteq Recorded(e)'
  <2>1. CASE ExternalStore
    <3>1. B \subseteq Recorded(e)
      BY <1>0, <1>5, <2>1 DEF HandsOver
    <3> QED BY <1>0, <1>7, <3>1
  <2>2. CASE ~ExternalStore
    <3> SUFFICES ASSUME NEW s \in B PROVE s \in Subs /\ deadLetters'[e][s] > 0
      BY DEF Recorded
    <3>1. s \in Subs /\ deadLetters[e][s] \in 0..2 /\ deadLetters'[e][s] = More(deadLetters[e][s])
      BY <1>0, <1>4, <1>5, <1>6, <2>2
    <3> QED BY <3>1 DEF More
  <2> QED BY <2>1, <2>2
<1>9. Grows /\ \A f \in Events : f # e => Accounted(f)' = Accounted(f)
  BY <1>4, <1>7 DEF Grows, Accounted
<1>10. /\ Accounted(e) \subseteq Accounted(e)' /\ B \subseteq Accounted(e)'
       /\ Accounted(e)' = answered'[e] \cup Recorded(e)'
  BY <1>0, <1>8, <1>9, AccountedGrows DEF Accounted, Recorded
<1>11. retried'[e] <= n /\ retried'[e] < MaxAttempts
  <2>1. retried[e] \in Nat /\ retried[e] < MaxAttempts
    BY <1>0 DEF TypeOK, ContractInv, LedgerInv, RetriesCounted
  <2>2. retried'[e] = IF Granted(failed[r], n) THEN retried[e] + 1 ELSE retried[e]
    BY <1>0, <1>1 DEF TypeOK
  <2>3. Granted(failed[r], n) => n < MaxAttempts
    BY <1>0, SettingsAssumption DEF Granted, Terminal
  <2> QED BY <1>0, <1>2, <2>1, <2>2, <2>3, SettingsAssumption
<1>12. ASSUME NEW f \in Events PROVE RowKnown(f)' /\ RetriesCounted(f)' /\ LettersFinal(f)'
  <2>0. RowKnown(f) /\ RetriesCounted(f) /\ LettersFinal(f)
    BY DEF ContractInv, LedgerInv
  <2>1. CASE f # e
    BY <1>3, <1>4, <1>9, <2>0, <2>1 DEF RowKnown, RetriesCounted, LettersFinal
  <2>2. CASE f = e
    <3>1. RowKnown(e)'
      BY <1>3, <1>5, <1>10 DEF RowKnown
    <3>2. RetriesCounted(e)'
      <4>1. e \in published
        BY <1>0 DEF Known
      <4>2. retried'[e] \in Nat
        BY <1>0, <1>1 DEF TypeOK
      <4> QED BY <1>0, <1>3, <1>11, <4>1, <4>2 DEF RetriesCounted
    <3>3. LettersFinal(e)'
      <4> SUFFICES ASSUME ~ExternalStore, NEW s \in Subs
                   PROVE  /\ deadLetters'[e][s] <= 1
                          /\ deadLetters'[e][s] > 0 =>
                                e \in published /\ (rows'[e] # NoRow => s \in rows'[e].done)
        BY DEF LettersFinal
      <4>1. /\ deadLetters[e][s] \in 0..2 /\ deadLetters[e][s] <= 1
            /\ deadLetters[e][s] > 0 => s \in cur[r].done
        BY <1>0, <1>2, <1>6, <2>0, <2>2 DEF LettersFinal
      <4>2. e \in published
        BY <1>0 DEF Known
      <4>3. CASE s \in B
        <5>1. deadLetters[e][s] = 0
          BY <1>5, <4>1, <4>3
        <5>2. deadLetters'[e][s] = 1
          BY <1>4, <4>3, <5>1 DEF More
        <5> QED BY <1>3, <4>2, <4>3, <5>2
      <4>4. CASE s \notin B
        <5>1. deadLetters'[e][s] = deadLetters[e][s]
          BY <1>4, <4>4
        <5> QED BY <1>3, <1>5, <4>1, <4>2, <5>1
      <4> QED BY <4>3, <4>4
    <3> QED BY <2>2, <3>1, <3>2, <3>3
  <2> QED BY <2>1, <2>2
<1>13. OthersStand(r) /\ ClaimStands(r)
  <2>1. ASSUME NEW x \in Relays, NEW f \in Events, Mine(x, f)' PROVE f # e
    BY <1>3, <2>1, RelayAssumption DEF Mine
  <2>2. ASSUME NEW x \in Relays, NEW f \in Events, Mine(x, f)' PROVE rows'[f] = rows[f]
    BY <1>3, <2>1, <2>2
  <2> QED BY <2>2 DEF OthersStand, ClaimStands, Mine
<1>14. SettlesOnly
  <2> SUFFICES ASSUME NEW f \in Events
               PROVE  /\ Owed(f)' \subseteq Owed(f) /\ Owed(f) \ Owed(f)' \subseteq Accounted(f)'
                      /\ Accounted(f)' # Accounted(f) => f \in published
    BY DEF SettlesOnly
  <2>1. CASE f # e
    BY <1>3, <1>9, <2>1 DEF Owed
  <2>2. CASE f = e
    <3>1. e \in published
      BY <1>0 DEF Known
    <3>2. Owed(e) = Matching[e] \ cur[r].done
      BY <1>2 DEF Owed
    <3>3. CASE A = {}
      <4>1. Owed(e)' = {}
        BY <1>3, <3>3 DEF Owed
      <4>2. Matching[e] \subseteq Accounted(e)'
        BY <1>5, <1>10, <3>3
      <4> QED BY <2>2, <3>1, <3>2, <4>1, <4>2
    <3>4. CASE A # {}
      <4>1. Owed(e)' = Matching[e] \ (done[r] \cup B)
        BY <1>3, <3>4 DEF Owed
      <4>2. done[r] \cup B \subseteq Accounted(e)' /\ cur[r].done \subseteq done[r]
        BY <1>5, <1>10
      <4> QED BY <2>2, <3>1, <3>2, <4>1, <4>2
    <3> QED BY <3>3, <3>4
  <2> QED BY <2>1, <2>2
<1> QED BY <1>9, <1>12, <1>13, <1>14 DEF Lawful, LedgerInv

LEMMA SettleLawful ==
    ASSUME TypeOK, ContractInv, NEW r \in Relays, Shaped(r), pc[r] = "settling", SettleEffect(r),
           UNCHANGED <<answered, published, strategy>>
    PROVE  Lawful(r) /\ ClaimStands(r)
<1>1. CASE ~Mine(r, cur[r].event)
  <2>1. UNCHANGED ledger
    BY <1>1 DEF SettleEffect
  <2>2. ClaimStands(r)
    BY <2>1 DEF ClaimStands, Mine, ledger
  <2> QED BY <2>1, <2>2, RowsLawful DEF ledger
<1>2. CASE Mine(r, cur[r].event)
  BY <1>2, SettleMineLawful
<1> QED BY <1>1, <1>2

\* A step that leaves the rows alone, and only answers or dead-letters what was
\* published.
LEMMA RowsKeptLawful ==
    ASSUME TypeOK, ContractInv, NEW r \in Relays, Grows,
           UNCHANGED <<rows, retried, published>>,
           \A e \in Events : LettersFinal(e)',
           \A e \in Events : Accounted(e)' # Accounted(e) => e \in published
    PROVE  Lawful(r) /\ ClaimStands(r)
<1>1. LedgerInv'
  <2> SUFFICES ASSUME NEW e \in Events PROVE RowKnown(e)' /\ RetriesCounted(e)'
    BY DEF LedgerInv
  <2>1. RowKnown(e) /\ RetriesCounted(e)
    BY DEF ContractInv, LedgerInv
  <2>2. Accounted(e) \subseteq Accounted(e)'
    BY AccountedGrows
  <2> QED BY <2>1, <2>2 DEF RowKnown, RetriesCounted
<1>2. OthersStand(r) /\ ClaimStands(r)
  BY DEF OthersStand, ClaimStands, Mine
<1>3. SettlesOnly
  BY DEF SettlesOnly, Owed
<1> QED BY <1>1, <1>2, <1>3 DEF Lawful

LEMMA SameLedgerLawful ==
    ASSUME TypeOK, ContractInv, NEW r \in Relays, UNCHANGED <<ledger, answered, published, strategy>>
    PROVE  Lawful(r) /\ ClaimStands(r)
<1>1. Grows /\ \A e \in Events : Accounted(e)' = Accounted(e) /\ LettersFinal(e)'
  BY RowsOnly DEF ledger
<1> QED BY <1>1, RowsKeptLawful DEF ledger

\* Subscriptions T answer for the delivery in flight.
LEMMA AnswerLawful ==
    ASSUME TypeOK, ContractInv, NEW r \in Relays, Shaped(r), pc[r] = "handling",
           UNCHANGED <<ledger, published, strategy>>,
           NEW T, answered' = [answered EXCEPT ![cur[r].event] = @ \cup T]
    PROVE  Lawful(r) /\ ClaimStands(r)
<1>1. cur[r].event \in Events /\ cur[r].event \in published
  BY InFlightFacts DEF Shaped, Known
<1>2. \A e \in Events : /\ answered[e] \subseteq answered'[e]
                        /\ e # cur[r].event => answered'[e] = answered[e]
  BY <1>1 DEF TypeOK
<1>3. UNCHANGED <<rows, retried, deadLetters>>
  BY DEF ledger
<1>4. Grows /\ \A e \in Events : Accounted(e)' # Accounted(e) => e \in published
  BY <1>1, <1>2, <1>3 DEF Grows, Recorded, Accounted
<1>5. \A e \in Events : LettersFinal(e)'
  BY <1>3 DEF ContractInv, LedgerInv, LettersFinal
<1> QED BY <1>3, <1>4, <1>5, RowsKeptLawful

\* The external store takes a dead letter of the delivery in flight.
LEMMA AddLawful ==
    ASSUME TypeOK, ContractInv, NEW r \in Relays, Shaped(r), pc[r] = "deadLettering",
           NEW s \in Subs, AddEffect(r, s), UNCHANGED <<answered, published, strategy>>
    PROVE  /\ Lawful(r) /\ ClaimStands(r)
           /\ \A e \in Events : e = cur[r].event => s \in Recorded(e)'
<1>1. cur[r].event \in Events /\ cur[r].event \in published /\ ExternalStore
  BY InFlightFacts DEF Shaped, Known, HandsOver
<1>2. /\ \A e \in Events : e # cur[r].event => deadLetters'[e] = deadLetters[e]
      /\ \A x \in Subs : x # s => deadLetters'[cur[r].event][x] = deadLetters[cur[r].event][x]
      /\ deadLetters'[cur[r].event][s] = More(deadLetters[cur[r].event][s])
  BY <1>1 DEF AddEffect, TypeOK
<1>3. \A e \in Events, x \in Subs : deadLetters[e][x] \in 0..2
  BY DEF TypeOK
<1>4. deadLetters'[cur[r].event][s] > 0
  BY <1>1, <1>2, <1>3 DEF More
<1>5. \A e \in Events : Recorded(e) \subseteq Recorded(e)'
  BY <1>1, <1>2, <1>4 DEF Recorded
<1>6. UNCHANGED <<rows, retried>>
  BY DEF AddEffect
<1>7. Grows /\ \A e \in Events : Accounted(e)' # Accounted(e) => e \in published
  BY <1>1, <1>2, <1>5 DEF Grows, Accounted
<1>8. \A e \in Events : LettersFinal(e)'
  BY <1>1 DEF LettersFinal
<1>9. \A e \in Events : e = cur[r].event => s \in Recorded(e)'
  BY <1>4 DEF Recorded
<1> QED BY <1>6, <1>7, <1>8, <1>9, RowsKeptLawful

\* Whatever a relay awaits, it leaves the ledger lawful, and what it carries as
\* it was claimed unless it is claiming.
LEMMA MaybeEffectLawful ==
    ASSUME TInv, ContractInv, NEW r \in Relays, Shaped(r), MaybeEffect(r), UNCHANGED <<published, strategy>>
    PROVE  Lawful(r) /\ (pc[r] # "claiming" => ClaimStands(r))
<1> USE DEF TInv
<1>1. CASE UNCHANGED <<ledger, answered>>
  BY <1>1, SameLedgerLawful
<1>2. CASE pc[r] = "claiming" /\ (\E S \in Claimable(r) : ClaimEffect(r, S)) /\ UNCHANGED answered
  BY <1>2, ClaimLawful
<1>3. CASE CompleteEffect(r) /\ UNCHANGED answered
  BY <1>3, CompleteLawful
<1>4. CASE ReleaseEffect(r) /\ UNCHANGED answered
  BY <1>4, ReleaseLawful
<1>5. CASE ExtendEffect(r) /\ UNCHANGED answered
  BY <1>5, ExtendLawful
<1>6. CASE pc[r] = "settling" /\ SettleEffect(r) /\ UNCHANGED answered
  BY <1>6, SettleLawful
<1>7. CASE pc[r] = "deadLettering" /\ (\E s \in First(toAdd[r]) : AddEffect(r, s)) /\ UNCHANGED answered
  <2>1. First(toAdd[r]) \subseteq Subs
    BY DEF First, TypeOK
  <2> QED BY <1>7, <2>1, AddLawful
<1>8. CASE pc[r] = "handling" /\ (\E s \in First(todo[r]) : HandleEffect(r, s)) /\ UNCHANGED ledger
  <2>1. PICK s \in First(todo[r]) : HandleEffect(r, s)
    BY <1>8
  <2> QED BY <1>8, <2>1, AnswerLawful DEF HandleEffect
<1> QED BY <1>1, <1>2, <1>3, <1>4, <1>5, <1>6, <1>7, <1>8 DEF MaybeEffect, UnseenEffect

LEMMA StepLawful ==
    ASSUME TInv, ContractInv, NEW r \in Relays, Shaped(r), Step(r)
    PROVE  Lawful(r) /\ (pc[r] # "claiming" => ClaimStands(r))
<1> USE DEF TInv
<1>1. ASSUME \/ Start(r) \/ TaskEnds(r) \/ BeginClaim(r) \/ LeaseRunsShort(r) \/ StartDelivery(r)
             \/ RoundOver(r) \/ RoundFailed(r)
      PROVE  UNCHANGED <<ledger, answered, published, strategy>>
  BY <1>1 DEF Start, TaskEnds, BeginClaim, LeaseRunsShort, StartDelivery, RoundOver, RoundFailed
<1>2. CASE Claim(r)
  BY <1>2, ClaimLawful DEF Claim
<1>3. CASE HandlerSucceeds(r)
  <2>1. PICK s : answered' = [answered EXCEPT ![cur[r].event] = @ \cup {s} \cup LetGo(r, s, failed[r])]
    BY <1>3 DEF HandlerSucceeds
  <2>2. answered' = [answered EXCEPT ![cur[r].event] = @ \cup ({s} \cup LetGo(r, s, failed[r]))]
    BY <2>1
  <2>3. pc[r] = "handling" /\ UNCHANGED <<ledger, published, strategy>>
    BY <1>3 DEF HandlerSucceeds
  <2> QED BY <2>2, <2>3, AnswerLawful
<1>4. ASSUME NEW kind \in Failures, HandlerFails(r, kind) PROVE Lawful(r) /\ ClaimStands(r)
  <2>1. PICK s, took : answered' = [answered EXCEPT ![cur[r].event] =
                                      @ \cup took \cup LetGo(r, s, failed[r] \cup {<<s, kind>>})]
    BY <1>4 DEF HandlerFails
  <2>2. answered' = [answered EXCEPT ![cur[r].event] =
                         @ \cup (took \cup LetGo(r, s, failed[r] \cup {<<s, kind>>}))]
    BY <2>1
  <2>3. pc[r] = "handling" /\ UNCHANGED <<ledger, published, strategy>>
    BY <1>4 DEF HandlerFails
  <2> QED BY <2>2, <2>3, AnswerLawful
<1>5. CASE AddDeadLetter(r)
  <2>1. First(toAdd[r]) \subseteq Subs
    BY DEF First, TypeOK
  <2> QED BY <1>5, <2>1, AddLawful DEF AddDeadLetter
<1>6. CASE Settle(r)
  BY <1>6, SettleLawful DEF Settle
<1>7. CASE Complete(r)
  BY <1>7, CompleteLawful DEF Complete
<1>8. CASE Extend(r)
  BY <1>8, ExtendLawful DEF Extend
<1>9. CASE Release(r)
  BY <1>9, ReleaseLawful DEF Release
<1> QED BY <1>1, <1>2, <1>3, <1>4, <1>5, <1>6, <1>7, <1>8, <1>9, SameLedgerLawful DEF Step

LEMMA DisturbLawful ==
    ASSUME TInv, ContractInv, NEW r \in Relays, Shaped(r), Disturb(r)
    PROVE  Lawful(r) /\ (pc[r] # "claiming" => ClaimStands(r))
<1> USE DEF TInv
<1>1. ASSUME RequestStop(r) \/ CancelGivingBack(r)
      PROVE  UNCHANGED <<ledger, answered, published, strategy>>
  BY <1>1 DEF RequestStop, CancelGivingBack
<1>2. ASSUME \/ Cancel(r) \/ CancelClaim(r) \/ ClaimFails(r) \/ StatementFails(r) \/ GivingBackFails(r)
             \/ RefuseDeadLetter(r) \/ Crash(r)
      PROVE  MaybeEffect(r) /\ UNCHANGED <<published, strategy>>
  BY <1>2 DEF Cancel, CancelClaim, ClaimFails, StatementFails, GivingBackFails, RefuseDeadLetter, Crash
<1> QED BY <1>1, <1>2, SameLedgerLawful, MaybeEffectLawful DEF Disturb

----------------------------------------------------------------------------
(* What the relays carry. *)

LEMMA CarriedTypes ==
    ASSUME TypeOK, NEW r \in Relays
    PROVE  Carried(r) \subseteq Delivery /\ \A d \in Delivery : d.event \in Events /\ d.done \in SUBSET Subs
  BY DEF Carried, Delivery, TypeOK

\* A delivery that was carried is known, and as claimed, after the step.
LEMMA CarriedKept ==
    ASSUME TypeOK, NEW r \in Relays, Carries(r), Grows, ClaimStands(r), NEW d \in Carried(r)
    PROVE  AsClaimed(r, d)' /\ Known(d)'
<1>1. d.event \in Events
  BY CarriedTypes
<1>2. AsClaimed(r, d) /\ Known(d)
  BY DEF Carries
<1>3. AsClaimed(r, d)'
  BY <1>1, <1>2 DEF AsClaimed, ClaimStands
<1>4. Known(d)'
  BY <1>1, <1>2, AccountedGrows DEF Known, Grows
<1> QED BY <1>3, <1>4

LEMMA HandledKept ==
    ASSUME TypeOK, NEW r \in Relays, Carries(r), Grows, NEW e \in handled[r]
    PROVE  e \in published' /\ Matching[e] \subseteq Accounted(e)'
<1>1. e \in Events
  BY DEF TypeOK
<1> QED BY <1>1, AccountedGrows DEF Carries, Grows

\* The relays that do not move carry on.
LEMMA CarriesFrame ==
    ASSUME TypeOK, NEW r \in Relays, NEW x \in Relays \ {r}, Untouched(x), Grows, OthersStand(r), Carries(x)
    PROVE  Carries(x)'
<1>1. /\ pc'[x] = pc[x] /\ queue'[x] = queue[x] /\ handled'[x] = handled[x]
      /\ cur'[x] = cur[x] /\ todo'[x] = todo[x] /\ done'[x] = done[x]
      /\ failed'[x] = failed[x] /\ toAdd'[x] = toAdd[x]
  BY DEF Untouched, SamePlace, SameRound, SameAttempt
<1>2. ClaimStands(x)
  BY DEF OthersStand, ClaimStands, Mine
<1>3. Carried(x)' = Carried(x)
  BY <1>1 DEF Carried
<1>4. \A d \in Carried(x)' : AsClaimed(x, d)' /\ Known(d)'
  BY <1>2, <1>3, CarriedKept
<1>5. \A e \in handled'[x] : e \in published' /\ Matching[e] \subseteq Accounted(e)'
  BY <1>1, HandledKept
<1>6. InFlight(x)'
  <2>1. CASE cur[x] = NoDelivery
    BY <1>1, <2>1 DEF Carries, InFlight
  <2>2. CASE cur[x] # NoDelivery
    <3>1. Splits(x) /\ HandsOver(x) /\ cur[x].event \in Events
      BY <2>2 DEF Carries, InFlight, TypeOK, Delivery
    <3>2. PICK e \in Events : e = cur[x].event
      BY <3>1
    <3>3. Accounted(e) \subseteq Accounted(e)' /\ Recorded(e) \subseteq Recorded(e)'
      BY AccountedGrows DEF Grows
    <3>4. Splits(x)'
      BY <1>1, <3>1, <3>2, <3>3 DEF Splits, Failing
    <3>5. \A F, n : Dead(F, n)' = Dead(F, n)
      BY DEF Dead, Terminal, Grows
    <3>6. HandsOver(x)'
      BY <1>1, <3>1, <3>2, <3>3, <3>5 DEF HandsOver
    <3> QED BY <1>1, <2>2, <3>4, <3>6 DEF InFlight
  <2> QED BY <2>1, <2>2
<1> QED BY <1>4, <1>5, <1>6 DEF Carries

\* A relay that ends with nothing in flight, carries no more than before and has
\* handled no more.
LEMMA CarriesLess ==
    ASSUME TypeOK, NEW r \in Relays, Carries(r), Grows, ClaimStands(r),
           cur'[r] = NoDelivery, failed'[r] = {}, toAdd'[r] = {},
           queue'[r] \subseteq Carried(r), handled'[r] \subseteq handled[r]
    PROVE  Carries(r)'
<1>1. Carried(r)' \subseteq Carried(r)
  BY DEF Carried
<1>2. \A d \in Carried(r)' : AsClaimed(r, d)' /\ Known(d)'
  BY <1>1, CarriedKept
<1>3. \A e \in handled'[r] : e \in published' /\ Matching[e] \subseteq Accounted(e)'
  BY HandledKept
<1> QED BY <1>2, <1>3 DEF Carries, InFlight

LEMMA CarriesNothing ==
    ASSUME TypeOK, NEW r \in Relays, cur'[r] = NoDelivery, failed'[r] = {}, toAdd'[r] = {},
           queue'[r] = {}, handled'[r] = {}
    PROVE  Carries(r)'
  BY DEF Carries, InFlight, Carried

LEMMA DownCarries ==
    ASSUME TypeOK, NEW r \in Relays, Down(r)
    PROVE  Carries(r)'
  BY CarriesNothing DEF Down, ForgetRound, ForgetAttempt, TypeOK

\* A subscription of the delivery in flight ended.
LEMMA ConcludeCarries ==
    ASSUME TypeOK, NEW r \in Relays, Shaped(r), Carries(r), Grows, ClaimStands(r), pc[r] = "handling",
           queue'[r] = queue[r],
           NEW s \in todo[r], NEW F, NEW D, Conclude(r, s, F, D),
           NEW e \in Events, e = cur[r].event,
           done[r] \subseteq D, D \subseteq Accounted(e)',
           failed[r] \subseteq F, \A f \in F : f \in failed[r] \/ f[1] = s,
           s \in D \cup {f[1] : f \in F},
           todo[r] = {s} /\ strategy = "ignore" => {f[1] : f \in F} \subseteq Accounted(e)'
    PROVE  Carries(r)'
<1>1. cur[r] # NoDelivery /\ Splits(r) /\ HandsOver(r) /\ toAdd[r] = {}
  BY DEF Shaped, Carries, InFlight, HandsOver
<1>2. \A d \in Carried(r) : AsClaimed(r, d)' /\ Known(d)'
  BY CarriedKept
<1>3. Carried(r) = queue[r] \cup {cur[r]}
  BY <1>1 DEF Carried
<1>4. \A f \in handled[r] : f \in published' /\ Matching[f] \subseteq Accounted(f)'
  BY HandledKept
<1>5. /\ Matching[e] \subseteq D \cup (todo[r] \ {s}) \cup {f[1] : f \in F}
      /\ ((todo[r] \ {s}) \cup {f[1] : f \in F}) \cap cur[r].done = {}
      /\ cur[r].done \subseteq D
  BY <1>1 DEF Splits, Failing
<1>6. CASE todo[r] # {s}
  <2>1. /\ todo'[r] = todo[r] \ {s} /\ failed'[r] = F /\ done'[r] = D /\ pc'[r] = pc[r]
        /\ handled'[r] = handled[r] /\ cur'[r] = cur[r] /\ toAdd'[r] = toAdd[r]
    BY <1>6 DEF Conclude, TypeOK
  <2>2. Splits(r)'
    BY <1>5, <2>1 DEF Splits, Failing
  <2>3. HandsOver(r)'
    BY <1>1, <2>1 DEF HandsOver
  <2>4. Carried(r)' = Carried(r)
    BY <2>1 DEF Carried
  <2> QED BY <1>1, <1>2, <1>4, <2>1, <2>2, <2>3, <2>4 DEF Carries, InFlight
<1>7. CASE todo[r] = {s} /\ (F = {} \/ strategy = "ignore")
  <2>1. /\ handled'[r] = handled[r] \cup {e} /\ cur'[r] = NoDelivery
        /\ failed'[r] = {} /\ toAdd'[r] = {}
    BY <1>7 DEF Conclude, ForgetAttempt, TypeOK
  <2>2. Matching[e] \subseteq Accounted(e)'
    BY <1>5, <1>7
  <2>3. e \in published'
    BY <1>1 DEF Carries, Carried, Known, Grows
  <2>4. Carried(r)' \subseteq Carried(r)
    BY <2>1 DEF Carried
  <2> QED BY <1>2, <1>4, <2>1, <2>2, <2>3, <2>4 DEF Carries, InFlight
<1>8. CASE todo[r] = {s} /\ ~(F = {} \/ strategy = "ignore")
  <2>1. /\ todo'[r] = {} /\ failed'[r] = F /\ done'[r] = D
        /\ handled'[r] = handled[r] /\ cur'[r] = cur[r]
    BY <1>8 DEF Conclude, TypeOK
  <2>2. \/ /\ ExternalStore /\ pc'[r] = "deadLettering" /\ toAdd'[r] = Dead(F, cur[r].attempts)
        \/ /\ ExternalStore => Dead(F, cur[r].attempts) = {}
           /\ pc'[r] = "settling" /\ toAdd'[r] = {}
    BY <1>1, <1>8 DEF Conclude, SendSettle, Goto, TypeOK
  <2>3. Splits(r)'
    BY <1>5, <1>8, <2>1 DEF Splits, Failing
  <2>4. Dead(F, cur[r].attempts)' = Dead(F, cur'[r].attempts)
    BY DEF Dead, Terminal, Grows
  <2>5. HandsOver(r)'
    BY <2>1, <2>2, <2>4 DEF HandsOver
  <2>6. Carried(r)' = Carried(r)
    BY <2>1 DEF Carried
  <2> QED BY <1>1, <1>2, <1>4, <2>1, <2>3, <2>5, <2>6 DEF Carries, InFlight
<1> QED BY <1>6, <1>7, <1>8

LEMMA StartDeliveryCarries ==
    ASSUME TypeOK, NEW r \in Relays, Shaped(r), Carries(r), Grows, ClaimStands(r), StartDelivery(r)
    PROVE  Carries(r)'
<1>1. pc[r] = "loop" /\ cur[r] = NoDelivery /\ failed[r] = {} /\ toAdd[r] = {}
  BY DEF StartDelivery, Shaped, Carries, InFlight
<1>2. PICK d \in NextDelivery(r) :
        /\ queue' = [queue EXCEPT ![r] = @ \ {d}]
        /\ IF Todo(d) = {}
           THEN /\ handled' = [handled EXCEPT ![r] = @ \cup {d.event}]
                /\ UNCHANGED <<pc, attempt>>
           ELSE /\ Goto(r, "handling")
                /\ cur' = [cur EXCEPT ![r] = d]
                /\ todo' = [todo EXCEPT ![r] = Todo(d)]
                /\ done' = [done EXCEPT ![r] = d.done]
                /\ UNCHANGED <<handled, failed, toAdd>>
  BY DEF StartDelivery
<1>3. d \in Carried(r) /\ d \in Delivery /\ d # NoDelivery /\ queue'[r] \subseteq queue[r]
  BY <1>2, NullAssumption DEF NextDelivery, Carried, TypeOK
<1>4. \A f \in Carried(r) : AsClaimed(r, f)' /\ Known(f)'
  BY CarriedKept
<1>5. \A e \in handled[r] : e \in published' /\ Matching[e] \subseteq Accounted(e)'
  BY HandledKept
<1>6. CASE Todo(d) = {}
  <2>1. /\ handled'[r] = handled[r] \cup {d.event}
        /\ cur'[r] = NoDelivery /\ failed'[r] = {} /\ toAdd'[r] = {}
    BY <1>1, <1>2, <1>6 DEF attempt, TypeOK
  <2>2. d.event \in published' /\ Matching[d.event] \subseteq Accounted(d.event)'
    BY <1>3, <1>4, <1>6 DEF Known, Todo
  <2>3. Carried(r)' \subseteq Carried(r)
    BY <1>3, <2>1 DEF Carried
  <2> QED BY <1>4, <1>5, <2>1, <2>2, <2>3 DEF Carries, InFlight
<1>7. CASE Todo(d) # {}
  <2>1. /\ pc'[r] = "handling" /\ cur'[r] = d /\ todo'[r] = Todo(d) /\ done'[r] = d.done
        /\ handled'[r] = handled[r] /\ failed'[r] = {} /\ toAdd'[r] = {}
    BY <1>1, <1>2, <1>7 DEF Goto, TypeOK
  <2>2. Known(d)'
    BY <1>3, <1>4
  <2>3. Splits(r)'
    BY <2>1, <2>2 DEF Splits, Failing, Known, Todo
  <2>4. HandsOver(r)'
    BY <2>1 DEF HandsOver
  <2>5. Carried(r)' \subseteq Carried(r)
    BY <1>3, <2>1 DEF Carried
  <2> QED BY <1>3, <1>4, <1>5, <2>1, <2>3, <2>4, <2>5 DEF Carries, InFlight
<1> QED BY <1>6, <1>7

LEMMA HandlerCarries ==
    ASSUME TypeOK, NEW r \in Relays, Shaped(r), Carries(r), Grows, ClaimStands(r),
           HandlerSucceeds(r) \/ \E kind \in Failures : HandlerFails(r, kind)
    PROVE  Carries(r)'
<1>1. pc[r] = "handling" /\ cur[r] # NoDelivery /\ queue'[r] = queue[r]
  BY DEF HandlerSucceeds, HandlerFails, Shaped
<1>2. PICK e \in Events : e = cur[r].event
  BY <1>1 DEF TypeOK, Delivery
<1>3. done[r] \subseteq Accounted(e)' /\ Failing(r) \subseteq Subs
  <2>1. Accounted(e) \subseteq Accounted(e)'
    BY AccountedGrows
  <2> QED BY <1>1, <1>2, <2>1 DEF Carries, InFlight, Splits, Failing, TypeOK
<1>4. \A x \in answered'[e] : x \in Accounted(e)'
  BY DEF Accounted
<1>5. CASE HandlerSucceeds(r)
  <2>1. PICK s \in First(todo[r]) :
          /\ answered' = [answered EXCEPT ![cur[r].event] = @ \cup {s} \cup LetGo(r, s, failed[r])]
          /\ Conclude(r, s, failed[r], done[r] \cup {s})
    BY <1>5 DEF HandlerSucceeds
  <2>2. s \in todo[r]
    BY <2>1 DEF First
  <2>3. {s} \cup LetGo(r, s, failed[r]) \subseteq answered'[e]
    BY <1>2, <2>1 DEF TypeOK
  <2>4. todo[r] = {s} /\ strategy = "ignore" => {f[1] : f \in failed[r]} \subseteq Accounted(e)'
    BY <1>4, <2>3 DEF LetGo
  <2>5. done[r] \cup {s} \subseteq Accounted(e)'
    BY <1>3, <1>4, <2>3
  <2> QED BY <1>1, <1>2, <2>1, <2>2, <2>4, <2>5, ConcludeCarries
<1>6. ASSUME NEW kind \in Failures, HandlerFails(r, kind) PROVE Carries(r)'
  <2>1. PICK s \in First(todo[r]) :
          /\ \E took \in SUBSET {s} :
                answered' = [answered EXCEPT ![cur[r].event] =
                                @ \cup took \cup LetGo(r, s, failed[r] \cup {<<s, kind>>})]
          /\ Conclude(r, s, failed[r] \cup {<<s, kind>>}, done[r])
    BY <1>6 DEF HandlerFails
  <2> DEFINE F == failed[r] \cup {<<s, kind>>}
  <2>2. s \in todo[r]
    BY <2>1 DEF First
  <2>3. LetGo(r, s, F) \subseteq answered'[e]
    BY <1>2, <2>1 DEF TypeOK
  <2>4. todo[r] = {s} /\ strategy = "ignore" => {f[1] : f \in F} \subseteq Accounted(e)'
    BY <1>4, <2>3 DEF LetGo
  <2>5. /\ failed[r] \subseteq F /\ \A f \in F : f \in failed[r] \/ f[1] = s
        /\ s \in {f[1] : f \in F}
    <3>1. <<s, kind>> \in F /\ <<s, kind>>[1] = s
      OBVIOUS
    <3>2. \A f \in F : f \in failed[r] \/ f = <<s, kind>>
      OBVIOUS
    <3> HIDE DEF F
    <3>3. \A f \in F : f \in failed[r] \/ f[1] = s
      BY <3>1, <3>2
    <3>4. s \in {f[1] : f \in F}
      BY <3>1
    <3>5. failed[r] \subseteq F
      BY DEF F
    <3> QED BY <3>3, <3>4, <3>5
  <2>6. Conclude(r, s, F, done[r])
    BY <2>1
  <2> HIDE DEF F
  <2> QED BY <1>1, <1>2, <1>3, <2>2, <2>4, <2>5, <2>6, ConcludeCarries
<1> QED BY <1>5, <1>6

LEMMA ClaimCarries ==
    ASSUME TypeOK, RowsPublished, ContractInv, NEW r \in Relays, Shaped(r), Claim(r), Grows
    PROVE  Carries(r)'
<1>1. PICK S \in Claimable(r) :
        /\ rows' = Claimed(r, S)
        /\ queue' = [queue EXCEPT ![r] =
              {[event |-> e, attempts |-> rows[e].attempts + 1, done |-> rows[e].done,
                dueAt |-> rows[e].availableAt] : e \in S}]
  BY DEF Claim, ClaimEffect
<1>2. /\ handled'[r] = {} /\ cur'[r] = NoDelivery /\ failed'[r] = {} /\ toAdd'[r] = {}
      /\ UNCHANGED <<published, answered, deadLetters>>
  BY DEF Claim, ClaimEffect, Shaped, ContractInv, Carries, InFlight, attempt, round
<1>3. ASSUME NEW d \in queue'[r] PROVE AsClaimed(r, d)' /\ Known(d)'
  <2>1. PICK e \in S : d = [event |-> e, attempts |-> rows[e].attempts + 1, done |-> rows[e].done,
                            dueAt |-> rows[e].availableAt]
    BY <1>1, <1>3 DEF TypeOK
  <2>2. e \in Events /\ rows[e] \in Row /\ rows[e] # NoRow
    BY NullAssumption DEF Claimable, Due, TypeOK
  <2>3. rows'[e] = [rows[e] EXCEPT !.availableAt = until[r], !.attempts = @ + 1, !.claimedBy = r]
    BY <1>1, <2>2 DEF Claimed
  <2>4. rows'[e].attempts = rows[e].attempts + 1 /\ rows'[e].done = rows[e].done
    BY <2>2, <2>3 DEF Row
  <2>5. e \in published /\ rows[e].done \subseteq Accounted(e)
    BY <2>2 DEF RowsPublished, ContractInv, LedgerInv, RowKnown
  <2>6. Accounted(e)' = Accounted(e)
    BY <1>2 DEF Accounted
  <2> QED BY <1>2, <2>1, <2>4, <2>5, <2>6 DEF AsClaimed, Known
<1>4. Carried(r)' = queue'[r]
  BY <1>2 DEF Carried
<1> QED BY <1>2, <1>3, <1>4 DEF Carries, InFlight

LEMMA AddCarries ==
    ASSUME TypeOK, ContractInv, NEW r \in Relays, Shaped(r), Grows, ClaimStands(r), AddDeadLetter(r)
    PROVE  Carries(r)'
<1>1. pc[r] = "deadLettering" /\ cur[r] # NoDelivery
  BY DEF AddDeadLetter, Shaped
<1>2. PICK s \in First(toAdd[r]) :
        /\ AddEffect(r, s)
        /\ toAdd' = [toAdd EXCEPT ![r] = @ \ {s}]
        /\ IF toAdd[r] = {s} THEN SendSettle(r) ELSE UNCHANGED <<pc, until>>
  BY DEF AddDeadLetter
<1>3. /\ toAdd'[r] = toAdd[r] \ {s} /\ s \in Subs
      /\ pc'[r] = IF toAdd[r] = {s} THEN "settling" ELSE "deadLettering"
      /\ queue'[r] = queue[r] /\ handled'[r] = handled[r] /\ cur'[r] = cur[r]
      /\ todo'[r] = todo[r] /\ done'[r] = done[r] /\ failed'[r] = failed[r]
  BY <1>1, <1>2 DEF AddDeadLetter, SendSettle, Goto, round, First, TypeOK
<1>4. PICK e \in Events : e = cur[r].event
  BY <1>1 DEF TypeOK, Delivery
<1>5. Carries(r) /\ Splits(r) /\ HandsOver(r)
  BY <1>1 DEF ContractInv, Carries, InFlight
<1>6. s \in Recorded(e)' /\ Recorded(e) \subseteq Recorded(e)' /\ Accounted(e) \subseteq Accounted(e)'
  <2>1. UNCHANGED <<answered, published, strategy>>
    BY DEF AddDeadLetter
  <2>2. s \in Recorded(e)'
    BY <1>1, <1>2, <1>3, <1>4, <2>1, AddLawful
  <2> QED BY <2>2, AccountedGrows DEF Grows
<1>7. Splits(r)'
  BY <1>1, <1>3, <1>4, <1>5, <1>6 DEF Splits, Failing
<1>8. HandsOver(r)'
  <2>1. \A F, n : Dead(F, n)' = Dead(F, n)
    BY DEF Dead, Terminal, Grows
  <2>2. pc'[r] = "settling" => toAdd'[r] = {}
    BY <1>3
  <2> QED BY <1>1, <1>3, <1>4, <1>5, <1>6, <2>1, <2>2 DEF HandsOver
<1>9. Carried(r)' = Carried(r)
  BY <1>3 DEF Carried
<1>10. \A d \in Carried(r)' : AsClaimed(r, d)' /\ Known(d)'
  BY <1>5, <1>9, CarriedKept
<1>11. \A f \in handled'[r] : f \in published' /\ Matching[f] \subseteq Accounted(f)'
  BY <1>3, <1>5, HandledKept
<1> QED BY <1>1, <1>3, <1>7, <1>8, <1>10, <1>11 DEF Carries, InFlight

LEMMA StepCarries ==
    ASSUME TypeOK, RowsPublished, ContractInv, NEW r \in Relays, Shaped(r), Step(r),
           Grows, pc[r] # "claiming" => ClaimStands(r)
    PROVE  Carries(r)'
<1>0. Carries(r)
  BY DEF ContractInv
<1>1. ASSUME \/ Start(r) \/ BeginClaim(r) \/ LeaseRunsShort(r)
      PROVE  Carries(r)'
  <2>1. /\ pc[r] # "claiming" /\ cur[r] = NoDelivery /\ UNCHANGED <<round, attempt>>
    BY <1>1 DEF Start, BeginClaim, LeaseRunsShort, Shaped
  <2> QED BY <1>0, <2>1, CarriesLess DEF Carries, InFlight, Carried, round, attempt
<1>2. CASE TaskEnds(r)
  BY <1>2, DownCarries DEF TaskEnds
<1>3. CASE Claim(r)
  BY <1>3, ClaimCarries
<1>4. CASE StartDelivery(r)
  BY <1>0, <1>4, StartDeliveryCarries DEF StartDelivery
<1>5. CASE HandlerSucceeds(r) \/ \E kind \in Failures : HandlerFails(r, kind)
  BY <1>0, <1>5, HandlerCarries DEF HandlerSucceeds, HandlerFails
<1>6. CASE AddDeadLetter(r)
  BY <1>6, AddCarries DEF AddDeadLetter
<1>7. CASE Settle(r)
  <2>1. /\ pc[r] # "claiming" /\ queue' = queue /\ handled' = handled
        /\ cur'[r] = NoDelivery /\ failed'[r] = {} /\ toAdd'[r] = {}
    BY <1>7 DEF Settle, ForgetAttempt, round, TypeOK
  <2> QED BY <1>0, <2>1, CarriesLess DEF Carried
<1>8. ASSUME Complete(r) \/ Extend(r) \/ Release(r) PROVE Carries(r)'
  <2>1. pc[r] # "claiming" /\ cur[r] = NoDelivery /\ UNCHANGED attempt
    BY <1>8 DEF Complete, Completing, Extend, Release, Releasing, Leaving, Shaped
  <2>2. queue'[r] \subseteq queue[r] /\ handled'[r] \subseteq handled[r]
    <3>1. CASE Complete(r)
      BY <3>1 DEF Complete, Return, ForgetRound, TypeOK
    <3>2. CASE Extend(r)
      BY <3>2 DEF Extend, TypeOK
    <3>3. CASE Release(r)
      BY <3>3 DEF Release, Return, ForgetRound, TypeOK
    <3> QED BY <1>8, <3>1, <3>2, <3>3
  <2> QED BY <1>0, <2>1, <2>2, CarriesLess DEF Carries, InFlight, Carried, attempt
<1>9. CASE RoundOver(r)
  <2>1. cur[r] = NoDelivery /\ UNCHANGED attempt /\ queue'[r] = {} /\ handled'[r] = {}
    BY <1>9 DEF RoundOver, Leaving, Return, ForgetRound, Shaped, TypeOK
  <2> QED BY <1>0, <2>1, CarriesNothing DEF Carries, InFlight, attempt
<1>10. CASE RoundFailed(r)
  <2>1. CASE cancelled[r]
    BY <1>10, <2>1, DownCarries DEF RoundFailed
  <2>2. CASE ~cancelled[r]
    <3>1. cur[r] = NoDelivery /\ UNCHANGED attempt /\ queue'[r] = {} /\ handled'[r] = {}
      BY <1>10, <2>2 DEF RoundFailed, ForgetRound, Shaped, TypeOK
    <3> QED BY <1>0, <3>1, CarriesNothing DEF Carries, InFlight, attempt
  <2> QED BY <2>1, <2>2
<1> QED BY <1>1, <1>2, <1>3, <1>4, <1>5, <1>6, <1>7, <1>8, <1>9, <1>10 DEF Step

\* What was dead by the failures of a delivery is attempted again once the
\* external store refused it.
LEMMA RefusedFailures ==
    ASSUME TypeOK, NEW r \in Relays, NEW n, NEW F,
           F = {IF Terminal(f[2], n) THEN <<f[1], "refused">> ELSE f : f \in failed[r]}
    PROVE  {f[1] : f \in F} = Failing(r) /\ Dead(F, n) = {}
<1>1. \A f \in failed[r] : f[1] \in Subs
  BY DEF TypeOK
<1>2. ASSUME NEW f \in failed[r]
      PROVE  \E g \in F : g[1] = f[1]
  <2>1. CASE Terminal(f[2], n)
    <3>1. <<f[1], "refused">> \in F /\ <<f[1], "refused">>[1] = f[1]
      BY <2>1
    <3> QED BY <3>1
  <2>2. CASE ~Terminal(f[2], n)
    <3>1. f \in F
      BY <2>2
    <3> QED BY <3>1
  <2> QED BY <2>1, <2>2
<1>3. ASSUME NEW g \in F
      PROVE  ~Terminal(g[2], n) /\ \E f \in failed[r] : g[1] = f[1]
  <2>1. PICK f \in failed[r] : g = IF Terminal(f[2], n) THEN <<f[1], "refused">> ELSE f
    OBVIOUS
  <2>2. ~Terminal("refused", n)
    BY DEF Terminal
  <2>3. CASE Terminal(f[2], n)
    <3>1. g = <<f[1], "refused">>
      BY <2>1, <2>3
    <3>2. g[1] = f[1] /\ g[2] = "refused"
      BY <3>1
    <3> QED BY <2>2, <3>2
  <2>4. CASE ~Terminal(f[2], n)
    BY <2>1, <2>4
  <2> QED BY <2>3, <2>4
<1> QED BY <1>2, <1>3 DEF Failing, Dead

LEMMA RefuseCarries ==
    ASSUME TypeOK, NEW r \in Relays, Shaped(r), Carries(r), Grows, ClaimStands(r), RefuseDeadLetter(r)
    PROVE  Carries(r)'
<1>1. pc[r] = "deadLettering" /\ cur[r] # NoDelivery /\ Splits(r)
  BY DEF RefuseDeadLetter, Shaped, Carries, InFlight
<1>2. PICK n, F : /\ n = cur[r].attempts
                  /\ F = {IF Terminal(f[2], n) THEN <<f[1], "refused">> ELSE f : f \in failed[r]}
  OBVIOUS
<1>3. /\ failed'[r] = F /\ toAdd'[r] = {} /\ pc'[r] = "settling"
      /\ queue'[r] = queue[r] /\ handled'[r] = handled[r] /\ cur'[r] = cur[r]
      /\ todo'[r] = todo[r] /\ done'[r] = done[r]
  BY <1>2 DEF RefuseDeadLetter, SendSettle, Goto, round, TypeOK
<1>4. {f[1] : f \in F} = Failing(r) /\ Dead(F, n) = {}
  BY <1>2, RefusedFailures
<1>5. PICK e \in Events : e = cur[r].event
  BY <1>1 DEF TypeOK, Delivery
<1>6. Splits(r)'
  <2>1. Accounted(e) \subseteq Accounted(e)'
    BY AccountedGrows
  <2> QED BY <1>1, <1>3, <1>4, <1>5, <2>1 DEF Splits, Failing
<1>7. HandsOver(r)'
  <2>1. \A G, m : Dead(G, m)' = Dead(G, m)
    BY DEF Dead, Terminal, Grows
  <2> QED BY <1>2, <1>3, <1>4, <2>1 DEF HandsOver
<1>8. \A d \in Carried(r)' : AsClaimed(r, d)' /\ Known(d)'
  <2>1. Carried(r)' = Carried(r)
    BY <1>3 DEF Carried
  <2> QED BY <2>1, CarriedKept
<1>9. \A f \in handled'[r] : f \in published' /\ Matching[f] \subseteq Accounted(f)'
  BY <1>3, HandledKept
<1> QED BY <1>1, <1>3, <1>6, <1>7, <1>8, <1>9 DEF Carries, InFlight

LEMMA DisturbCarries ==
    ASSUME TypeOK, ContractInv, NEW r \in Relays, Shaped(r), Disturb(r),
           Grows, pc[r] # "claiming" => ClaimStands(r)
    PROVE  Carries(r)'
<1>0. Carries(r)
  BY DEF ContractInv
<1>1. ASSUME RequestStop(r) \/ CancelGivingBack(r) PROVE Carries(r)'
  <2>1. UNCHANGED <<ledger, published, strategy, answered, pc, round, attempt>>
    BY <1>1 DEF RequestStop, CancelGivingBack
  <2> QED BY <1>0, <2>1 DEF Carries, InFlight, Carried, AsClaimed, Known, Splits, HandsOver, Failing, Recorded,
                            Accounted, Mine, Dead, Terminal, ledger, round, attempt
<1>2. CASE Cancel(r)
  <2>1. pc[r] # "claiming"
    BY <1>2 DEF Cancel, Completing, Releasing, Leaving
  <2>2. /\ queue'[r] = Carried(r) /\ handled' = handled
        /\ cur'[r] = NoDelivery /\ failed'[r] = {} /\ toAdd'[r] = {}
    BY <1>2 DEF Cancel, ForgetAttempt, Carried, TypeOK
  <2> QED BY <1>0, <2>1, <2>2, CarriesLess
<1>3. CASE CancelClaim(r) \/ Crash(r)
  BY <1>3, DownCarries DEF CancelClaim, Crash
<1>4. CASE ClaimFails(r)
  <2>1. cur[r] = NoDelivery /\ UNCHANGED attempt /\ queue'[r] = {} /\ handled'[r] = {}
    BY <1>4 DEF ClaimFails, Shaped, round
  <2> QED BY <1>0, <2>1, CarriesNothing DEF Carries, InFlight, attempt
<1>5. CASE StatementFails(r)
  <2>1. pc[r] # "claiming"
    BY <1>5 DEF StatementFails, Completing, Releasing, Leaving
  <2>2. /\ queue' = queue /\ handled' = handled
        /\ cur'[r] = NoDelivery /\ failed'[r] = {} /\ toAdd'[r] = {}
    BY <1>5 DEF StatementFails, ForgetAttempt, round, TypeOK
  <2> QED BY <1>0, <2>1, <2>2, CarriesLess DEF Carried
<1>6. CASE GivingBackFails(r)
  <2>1. pc[r] # "claiming" /\ cur[r] = NoDelivery /\ UNCHANGED attempt
    BY <1>6 DEF GivingBackFails, Shaped
  <2>2. queue'[r] \subseteq queue[r] /\ handled'[r] \subseteq handled[r]
    BY <1>6 DEF GivingBackFails, TypeOK
  <2> QED BY <1>0, <2>1, <2>2, CarriesLess DEF Carries, InFlight, Carried, attempt
<1>7. CASE RefuseDeadLetter(r)
  BY <1>0, <1>7, RefuseCarries DEF RefuseDeadLetter
<1> QED BY <1>1, <1>2, <1>3, <1>4, <1>5, <1>6, <1>7 DEF Disturb

LEMMA PublishKeeps ==
    ASSUME TypeOK, Shape, RowsPublished, ContractInv, NEW e \in Events, Publish(e)
    PROVE  ContractInv'
<1>1. /\ rows[e] = NoRow /\ e \notin published /\ published' = published \cup {e}
      /\ rows'[e] = [availableAt |-> 0, attempts |-> 0, claimedBy |-> NoRelay, done |-> {}]
      /\ \A f \in Events : f # e => rows'[f] = rows[f]
      /\ UNCHANGED <<deadLetters, retried, strategy, answered>>
  BY DEF Publish, RowsPublished, TypeOK
<1>2. Grows /\ \A f \in Events : Accounted(f)' = Accounted(f)
  BY <1>1 DEF Grows, Recorded, Accounted
<1>3. LedgerInv'
  <2> SUFFICES ASSUME NEW f \in Events PROVE RowKnown(f)' /\ RetriesCounted(f)' /\ LettersFinal(f)'
    BY DEF LedgerInv
  <2>1. RowKnown(f) /\ RetriesCounted(f) /\ LettersFinal(f)
    BY DEF ContractInv, LedgerInv
  <2>2. CASE f # e
    BY <1>1, <1>2, <2>1, <2>2 DEF RowKnown, RetriesCounted, LettersFinal
  <2>3. CASE f = e
    <3>1. rows'[e].done = {} /\ rows'[e].attempts = 0 /\ rows'[e].claimedBy = NoRelay
      BY <1>1
    <3>2. \A s \in Subs : deadLetters[e][s] \in 0..2
      BY DEF TypeOK
    <3> QED BY <1>1, <2>1, <2>3, <3>1, <3>2 DEF RowKnown, RetriesCounted, LettersFinal
  <2> QED BY <2>2, <2>3
<1>4. ASSUME NEW r \in Relays PROVE Carries(r)'
  <2>1. Carries(r) /\ Shaped(r)
    BY DEF ContractInv, Shape
  <2>2. /\ UNCHANGED <<queue, handled, cur, todo, done, failed, toAdd>>
        /\ pc'[r] = IF pc[r] = "waiting" THEN "idle" ELSE pc[r]
    BY DEF Publish, round, attempt, TypeOK
  <2>3. ClaimStands(r)
    <3>1. rows'[e].claimedBy = NoRelay
      BY <1>1
    <3> QED BY <1>1, <3>1, RelayAssumption DEF ClaimStands, Mine
  <2>4. Carried(r)' = Carried(r)
    BY <2>2 DEF Carried
  <2>5. \A d \in Carried(r)' : AsClaimed(r, d)' /\ Known(d)'
    BY <1>2, <2>1, <2>3, <2>4, CarriedKept
  <2>6. \A f \in handled'[r] : f \in published' /\ Matching[f] \subseteq Accounted(f)'
    BY <1>2, <2>1, <2>2, HandledKept
  <2>7. InFlight(r)'
    <3>1. cur[r] # NoDelivery => pc'[r] = pc[r]
      BY <2>1, <2>2 DEF Shaped
    <3>2. \A F, n : Dead(F, n)' = Dead(F, n)
      BY <1>1 DEF Dead, Terminal
    <3>3. cur[r] # NoDelivery => Accounted(cur[r].event)' = Accounted(cur[r].event)
      BY <1>1, <2>2 DEF Accounted
    <3> QED BY <1>1, <2>1, <2>2, <3>1, <3>2, <3>3 DEF Carries, InFlight, Splits, HandsOver, Failing, Recorded
  <2> QED BY <2>5, <2>6, <2>7 DEF Carries
<1> QED BY <1>3, <1>4 DEF ContractInv

LEMMA TickKeeps ==
    ASSUME TypeOK, Shape, ContractInv, Tick
    PROVE  ContractInv' /\ SettlesOnly
<1>1. UNCHANGED <<deadLetters, retried, published, strategy, answered, handled, todo, done, failed, toAdd>>
  BY DEF Tick
<1>2. Grows /\ \A e \in Events : Accounted(e)' = Accounted(e)
  BY <1>1 DEF Grows, Recorded, Accounted
<1>3. ASSUME NEW e \in Events
      PROVE  /\ rows[e] = NoRow => rows'[e] = NoRow
             /\ rows[e] # NoRow =>
                   /\ rows'[e] # NoRow /\ rows'[e].attempts = rows[e].attempts
                   /\ rows'[e].claimedBy = rows[e].claimedBy /\ rows'[e].done = rows[e].done
  <2>1. CASE rows[e] = NoRow
    BY <2>1 DEF Tick
  <2>2. CASE rows[e] # NoRow
    <3>1. rows[e] \in Row /\ rows'[e] = [rows[e] EXCEPT !.availableAt = CountDown(@, -Latency)]
      BY <2>2 DEF Tick, TypeOK
    <3>2. CountDown(rows[e].availableAt, -Latency) \in Int
      BY <3>1, BoundAssumption DEF CountDown, Row
    <3>3. rows'[e] \in Row
      BY <3>1, <3>2 DEF Row
    <3> QED BY <2>2, <3>1, <3>3, NullAssumption DEF Row
  <2> QED BY <2>1, <2>2
<1>4. LedgerInv'
  <2> SUFFICES ASSUME NEW e \in Events PROVE RowKnown(e)' /\ RetriesCounted(e)' /\ LettersFinal(e)'
    BY DEF LedgerInv
  <2>1. RowKnown(e) /\ RetriesCounted(e) /\ LettersFinal(e)
    BY DEF ContractInv, LedgerInv
  <2> QED BY <1>1, <1>2, <1>3, <2>1 DEF RowKnown, RetriesCounted, LettersFinal
<1>5. SettlesOnly
  BY <1>2, <1>3 DEF SettlesOnly, Owed
<1>6. ASSUME NEW r \in Relays PROVE Carries(r)'
  <2> DEFINE aged(d) == [d EXCEPT !.dueAt = CountDown(@, -Latency)]
  <2>1. Carries(r) /\ Shaped(r)
    BY DEF ContractInv, Shape
  <2>2. /\ pc'[r] = IF pc[r] = "waiting" THEN "idle" ELSE pc[r]
        /\ queue'[r] = {aged(d) : d \in queue[r]}
        /\ cur'[r] = IF cur[r] = NoDelivery THEN NoDelivery ELSE aged(cur[r])
    BY DEF Tick, TypeOK
  <2>3. ASSUME NEW d \in Delivery
        PROVE  /\ aged(d) \in Delivery /\ aged(d) # NoDelivery
               /\ aged(d).event = d.event /\ aged(d).attempts = d.attempts /\ aged(d).done = d.done
    <3>1. CountDown(d.dueAt, -Latency) \in Int
      BY BoundAssumption DEF CountDown, Delivery
    <3>2. aged(d) \in Delivery
      BY <3>1 DEF Delivery
    <3> QED BY <3>2, NullAssumption DEF Delivery
  <2>4. Carried(r) \subseteq Delivery
    BY CarriedTypes
  <2>5. cur[r] # NoDelivery => cur[r] \in Delivery
    BY DEF TypeOK
  <2> HIDE DEF aged
  <2>6. ClaimStands(r)
    BY <1>3 DEF ClaimStands, Mine
  <2>7. ASSUME NEW g \in Carried(r)' PROVE AsClaimed(r, g)' /\ Known(g)'
    <3>1. PICK d \in Carried(r) : g = aged(d)
      BY <2>2, <2>3, <2>5 DEF Carried
    <3>2. AsClaimed(r, d)' /\ Known(d)'
      BY <1>2, <2>1, <2>6, CarriedKept
    <3>3. g.event = d.event /\ g.attempts = d.attempts /\ g.done = d.done
      BY <2>3, <2>4, <3>1
    <3> QED BY <3>2, <3>3 DEF AsClaimed, Known
  <2>8. \A f \in handled'[r] : f \in published' /\ Matching[f] \subseteq Accounted(f)'
    BY <1>1, <1>2, <2>1, HandledKept
  <2>9. InFlight(r)'
    <3>1. CASE cur[r] = NoDelivery
      BY <1>1, <2>1, <2>2, <3>1 DEF Carries, InFlight
    <3>2. CASE cur[r] # NoDelivery
      <4>1. /\ cur'[r] # NoDelivery /\ pc'[r] = pc[r] /\ cur'[r].event = cur[r].event
            /\ cur'[r].attempts = cur[r].attempts /\ cur'[r].done = cur[r].done
        BY <2>1, <2>2, <2>3, <2>5, <3>2 DEF Shaped
      <4>2. \A F, n : Dead(F, n)' = Dead(F, n)
        BY <1>1 DEF Dead, Terminal
      <4>3. Splits(r) /\ HandsOver(r)
        BY <2>1, <3>2 DEF Carries, InFlight
      <4>4. Splits(r)'
        BY <1>1, <4>1, <4>3 DEF Splits, Failing, Accounted
      <4>5. HandsOver(r)'
        BY <1>1, <4>1, <4>2, <4>3 DEF HandsOver, Recorded
      <4> QED BY <4>1, <4>4, <4>5 DEF InFlight
    <3> QED BY <3>1, <3>2
  <2> QED BY <2>7, <2>8, <2>9 DEF Carries
<1> QED BY <1>4, <1>5, <1>6 DEF ContractInv

LEMMA ContractInit == Init => ContractInv
<1> SUFFICES ASSUME Init PROVE ContractInv
  OBVIOUS
<1>1. LedgerInv
  BY SettingsAssumption DEF Init, LedgerInv, RowKnown, RetriesCounted, LettersFinal
<1>2. \A r \in Relays : Carries(r)
  BY DEF Init, Carries, InFlight, Carried
<1> QED BY <1>1, <1>2 DEF ContractInv

\* A step of a relay keeps the invariant and settles only what is accounted for.
LEMMA RelayKeeps ==
    ASSUME Inductive, ContractInv, NEW r \in Relays, Step(r) \/ Disturb(r)
    PROVE  ContractInv' /\ SettlesOnly /\ published' = published
<1>1. TypeOK /\ TInv /\ Shape /\ Shaped(r) /\ RowsPublished
  BY DEF Inductive, TInv, Shape, LeaseInv
<1>2. Lawful(r) /\ (pc[r] # "claiming" => ClaimStands(r))
  BY <1>1, StepLawful, DisturbLawful
<1>3. ASSUME NEW x \in Relays PROVE Carries(x)'
  <2>1. CASE x = r
    BY <1>1, <1>2, <2>1, StepCarries, DisturbCarries DEF Lawful
  <2>2. CASE x # r
    <3>1. Untouched(x)
      BY <1>1, <2>2, StepFrame, DisturbFrame
    <3> QED BY <1>1, <1>2, <2>2, <3>1, CarriesFrame DEF Lawful, ContractInv
  <2> QED BY <2>1, <2>2
<1>4. published' = published
  BY <1>1, StepsOnOwnRows
<1> QED BY <1>2, <1>3, <1>4 DEF Lawful, ContractInv

LEMMA ContractNext == Inductive /\ ContractInv /\ [Next]_vars => ContractInv'
<1> SUFFICES ASSUME Inductive, ContractInv, [Next]_vars PROVE ContractInv'
  OBVIOUS
<1>1. TypeOK /\ Shape /\ RowsPublished
  BY DEF Inductive, TInv, LeaseInv
<1>2. CASE UNCHANGED vars
  BY <1>2 DEF vars, ledger, round, attempt, ContractInv, LedgerInv, RowKnown, RetriesCounted, LettersFinal,
              Carries, InFlight, Carried, AsClaimed, Known, Splits, HandsOver, Failing, Recorded, Accounted,
              Mine, Dead, Terminal
<1> QED BY <1>1, <1>2, PublishKeeps, RelayKeeps, TickKeeps DEF Next

\* The policy never grants an event more than max_attempts - 1 further attempts,
\* in whatever order claims, give-backs, lost leases and crashes come.
THEOREM RetriesBounded == Spec => []BoundedRetries
<1>1. Inductive /\ ContractInv => BoundedRetries
  BY DEF ContractInv, LedgerInv, RetriesCounted, BoundedRetries
<1> QED BY <1>1, InductiveInit, InductiveNext, ContractInit, ContractNext, PTL DEF Spec

\* With the outbox's own table a dead letter is written once, and a relay whose
\* lease lasts does not run its subscription on the event again.
THEOREM LettersAreFinal == Spec => []DeadLettersFinal
<1>1. ASSUME Inductive, ContractInv PROVE DeadLettersFinal
  <2> SUFFICES ASSUME ~ExternalStore PROVE DeadLettersFinal
    BY DEF DeadLettersFinal
  <2>1. \A e \in Events, s \in Subs : deadLetters[e][s] <= 1
    BY <1>1 DEF ContractInv, LedgerInv, LettersFinal
  <2>2. ASSUME NEW r \in Relays, Running(r), lease[r] > 0, NEW s \in todo[r]
        PROVE  deadLetters[cur[r].event][s] = 0
    <3>1. cur[r] # NoDelivery /\ Carries(r) /\ TypeOK
      BY <1>1, <2>2 DEF Running, Inductive, TInv, Shape, Shaped, ContractInv
    <3>2. PICK e \in Events : e = cur[r].event
      BY <3>1 DEF TypeOK, Delivery
    <3>3. Mine(r, e)
      BY <1>1, <2>2, <3>1, <3>2 DEF Running, Held, Inductive, LeaseInv, LeaseHolds
    <3>4. rows[e] # NoRow /\ rows[e].done = cur[r].done
      BY <3>1, <3>2, <3>3 DEF Carries, Carried, AsClaimed, Mine
    <3>5. s \in Subs /\ deadLetters[e][s] \in 0..2 /\ s \notin cur[r].done
      BY <3>1, <3>2 DEF TypeOK, Carries, InFlight, Splits
    <3>6. deadLetters[e][s] > 0 => s \in rows[e].done
      BY <1>1, <3>2, <3>4, <3>5 DEF ContractInv, LedgerInv, LettersFinal
    <3> QED BY <3>2, <3>4, <3>5, <3>6
  <2> QED BY <2>1, <2>2 DEF DeadLettersFinal
<1> QED BY <1>1, InductiveInit, InductiveNext, ContractInit, ContractNext, PTL DEF Spec

----------------------------------------------------------------------------
(* The refinement: each step of the relays is a step of OutboxContract. *)

LEMMA MapsInit == Init => Contract!Init
  BY DEF Init, Contract!Init, Accounted

LEMMA MapsPublish ==
    ASSUME TypeOK, RowsPublished, NEW e \in Events, Publish(e)
    PROVE  Contract!Publish(e)
<1>1. /\ rows[e] = NoRow /\ e \notin published /\ published' = published \cup {e}
      /\ rows'[e] = [availableAt |-> 0, attempts |-> 0, claimedBy |-> NoRelay, done |-> {}]
      /\ \A f \in Events : f # e => rows'[f] = rows[f]
      /\ UNCHANGED <<deadLetters, answered>>
  BY DEF Publish, RowsPublished, TypeOK
<1>2. rows'[e] # NoRow /\ rows'[e].done = {}
  <2>1. [availableAt |-> 0, attempts |-> 0, claimedBy |-> NoRelay, done |-> {}] \in Row
    BY DEF Row
  <2> QED BY <1>1, <2>1, NullAssumption
<1> QED BY <1>1, <1>2 DEF Contract!Publish, Accounted

LEMMA MapsSettle ==
    ASSUME TypeOK, TypeOK', SettlesOnly, \A e \in Events : Accounted(e) \subseteq Accounted(e)',
           published' = published
    PROVE  Contract!Settle
<1> DEFINE O == [e \in Events |-> Owed(e)']
           A == [e \in Events |-> Accounted(e)']
<1>1. O \in [Events -> SUBSET Subs] /\ A \in [Events -> SUBSET Subs]
  <2>1. ASSUME NEW e \in Events PROVE Owed(e)' \subseteq Subs /\ Accounted(e)' \subseteq Subs
    BY RelayAssumption DEF Owed, Accounted, TypeOK
  <2> QED BY <2>1
<1> QED BY <1>1 DEF Contract!Settle, SettlesOnly, Owed

LEMMA MapsNext ==
    ASSUME Inductive, ContractInv, Inductive', [Next]_vars
    PROVE  [Contract!Next]_Contract!vars
<1>1. TypeOK /\ TypeOK' /\ Shape /\ RowsPublished
  BY DEF Inductive, TInv, LeaseInv
<1>2. ASSUME NEW e \in Events, Publish(e) PROVE Contract!Next
  BY <1>1, <1>2, MapsPublish DEF Contract!Next
<1>3. ASSUME NEW r \in Relays, Step(r) \/ Disturb(r) PROVE Contract!Next
  <2>1. SettlesOnly /\ published' = published
    BY <1>3, RelayKeeps
  <2>2. \A e \in Events : Accounted(e) \subseteq Accounted(e)'
    <3>1. Lawful(r)
      BY <1>1, <1>3, StepLawful, DisturbLawful DEF Inductive, Shape
    <3> QED BY <3>1, AccountedGrows DEF Lawful
  <2> QED BY <1>1, <2>1, <2>2, MapsSettle DEF Contract!Next
<1>4. CASE Tick
  <2>1. SettlesOnly
    BY <1>1, <1>4, TickKeeps
  <2>2. published' = published /\ \A e \in Events : Accounted(e)' = Accounted(e)
    BY <1>4 DEF Tick, Accounted
  <2> QED BY <1>1, <2>1, <2>2, MapsSettle DEF Contract!Next
<1>5. CASE UNCHANGED vars
  BY <1>5 DEF vars, ledger, Contract!vars, Accounted
<1> QED BY <1>2, <1>3, <1>4, <1>5 DEF Next

\* The relays and their store implement OutboxContract: an event is owed to every
\* matching subscription from its commit on, and stops being owed to one for good
\* and only once that one answered, was let go or is in the dead letters, whatever
\* statements fail and whichever relays stop, are cancelled or die.
THEOREM RelaysKeepContract == Spec => KeepsContract
<1>1. Init => Contract!Init
  BY MapsInit
<1>2. Inductive /\ ContractInv /\ Inductive' /\ [Next]_vars => [Contract!Next]_Contract!vars
  BY MapsNext
<1> QED BY <1>1, <1>2, InductiveInit, InductiveNext, ContractInit, ContractNext, PTL
        DEF Spec, KeepsContract, Contract!Spec

=============================================================================
