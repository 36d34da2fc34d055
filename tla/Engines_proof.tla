---------------------------- MODULE Engines_proof ----------------------------
(***************************************************************************)
(* Proofs about TccEngine, for any participants, whichever are optional or *)
(* cancellable, and any number of attempts; about ProjectionRunner, for    *)
(* any runners, page size, stuck events and bounds; and about an execution *)
(* of any engine as MCTransactional puts them together.                    *)
(***************************************************************************)
EXTENDS MCTransactional, SagaEngine_proof

-------------------------------------------------------------------------------
(* The TCC engine. *)

Places == 1..Len(Order)

OneEach(s) == \A i, j \in 1..Len(s) : s[i] = s[j] => i = j

\* The ledger: who was tried, and what took effect of whom.
Ledger ==
  /\ tried \in Seq(Participants) /\ OneEach(tried)
  /\ reserved \in [Participants -> 0..1] /\ confirmed \in [Participants -> 0..1]
  /\ released \in [Participants -> 0..1]
  /\ cancelError \subseteq Participants /\ skipped \subseteq Participants
  /\ \A p \in Participants : confirmed[p] # 0 => Contains(tried, p)

\* The rest of the types.
Shape ==
  /\ phase \in {"new", "try", "confirm", "cancel", "finish", "ended"}
  /\ place \in 1..(Len(Order) + 1) /\ try \in 1..TotalAttempts
  /\ todo \in Seq(Participants) /\ OneEach(todo)
  /\ after \in {"continue", "fail", "raise"} /\ told \in BOOLEAN
  /\ outcome \in {"none", "success", "failed", "cancelled"}
  /\ outcome = "none" <=> phase \notin {"finish", "ended"}
  /\ tccRecord \in {"absent", "IN_FLIGHT", "COMPLETED", "FAILED"}

\* What is to be released still.
Unreleased(p) == Releasable(p) /\ released[p] # 1

\* Those tried hold what they reserved; AllHeld: and nobody else holds anything.
TriedHold == \A p \in Participants : Contains(tried, p) => reserved[p] = 1 /\ released[p] = 0

AllHeld == TriedHold /\ \A p \in Participants : Unreleased(p) => Contains(tried, p)

\* Everyone before the place n was tried, or is optional; nobody from n on
\* has done anything.
TriedUpTo(n) ==
  /\ \A p \in Participants : confirmed[p] = 0
  /\ \A j \in Places : j < n => Contains(tried, Order[j]) \/ Order[j] \in Optional
  /\ \A j \in Places : j >= n =>
       reserved[Order[j]] = 0 /\ released[Order[j]] = 0 /\ ~Contains(tried, Order[j])

\* Those tried before the place n are confirmed, and the others are optional.
ConfirmedUpTo(n) ==
  /\ \A p \in Participants : Contains(tried, p) \/ p \in Optional
  /\ \A j \in Places : Contains(tried, Order[j]) => confirmed[Order[j]] = IF j < n THEN 1 ELSE 0

\* A CANCEL phase is of one optional participant, or of all who were tried.
Cancels ==
  /\ \A p \in Participants : Contains(todo, p) => released[p] = 0
  /\ IF after = "continue"
     THEN /\ place \in Places /\ TriedHold /\ TriedUpTo(place + 1)
          /\ ~Contains(tried, Order[place])
          /\ \A p \in Participants : Contains(todo, p) => p = Order[place]
          /\ \A p \in Participants : Unreleased(p) => Contains(tried, p) \/ Contains(todo, p)
     ELSE \A p \in Participants : Unreleased(p) => Contains(todo, p)

TInv ==
  /\ Ledger /\ Shape
  /\ phase = "new" => place = 1 /\ tried = <<>> /\ AllHeld /\ TriedUpTo(1)
  /\ phase = "try" => place \in Places /\ AllHeld /\ TriedUpTo(place)
  /\ phase = "confirm" =>
       place \in Places /\ AllHeld /\ ConfirmedUpTo(place) /\ Contains(tried, Order[place])
  /\ phase = "cancel" => Cancels
  /\ outcome = "success" => AllHeld /\ ConfirmedUpTo(Len(Order) + 1)
  /\ outcome \in {"failed", "cancelled"} => \A p \in Participants : ~Unreleased(p)

-------------------------------------------------------------------------------
(* Sequences whose elements differ. *)

LEMMA OrderIs ==
  /\ Len(Order) \in Nat /\ Len(Order) >= 1 /\ OneEach(Order)
  /\ \A j \in Places : Order[j] \in Participants
  /\ \A p \in Participants : \E j \in Places : p = Order[j]
<1>1. Order \in Seq(Participants) /\ Order # <<>>
  BY TccAssumption
<1>2. Len(Order) \in Nat /\ DOMAIN Order = 1..Len(Order)
  BY <1>1, LenProperties
<1>3. Len(Order) # 0
  BY <1>1, EmptySeq
<1>4. OneEach(Order)
  BY <1>2, TccAssumption DEF OneEach, IsInjective
<1>5. \A p \in Participants : \E j \in Places : p = Order[j]
  BY <1>2 DEF Participants, ToSet, Places
<1>6. \A j \in Places : Order[j] \in Participants
  BY <1>2 DEF Participants, ToSet, Places
<1> QED BY <1>2, <1>3, <1>4, <1>5, <1>6

LEMMA ReverseIs ==
  ASSUME NEW S, NEW s \in Seq(S), OneEach(s)
  PROVE  /\ Reverse(s) \in Seq(S) /\ OneEach(Reverse(s))
         /\ \A p : Contains(Reverse(s), p) <=> Contains(s, p)
<1> DEFINE n == Len(s)
           at(i) == n - i + 1
<1>1. n \in Nat /\ \A i \in 1..n : s[i] \in S
  BY LenProperties, ElementOfSeq
<1> HIDE DEF n
<1>2. \A i \in 1..n : at(i) \in 1..n /\ at(at(i)) = i
  BY <1>1
<1>3. Reverse(s) = [i \in 1..n |-> s[at(i)]]
  BY DEF Reverse, n
<1>4. Reverse(s) \in [1..n -> S]
  BY <1>1, <1>2, <1>3
<1>5. Reverse(s) \in Seq(S) /\ Len(Reverse(s)) = n
  BY <1>1, <1>4, IsASeq, LenProperties
<1>6. OneEach(Reverse(s))
  <2> SUFFICES ASSUME NEW i \in 1..n, NEW j \in 1..n, Reverse(s)[i] = Reverse(s)[j]
               PROVE  i = j
    BY <1>5 DEF OneEach
  <2>1. s[at(i)] = s[at(j)]
    BY <1>3
  <2>2. at(i) = at(j)
    BY <1>2, <2>1 DEF OneEach, n
  <2> QED BY <1>1, <2>2
<1>7. ASSUME NEW p, NEW i \in 1..n, s[i] = p
      PROVE  \E j \in 1..n : Reverse(s)[j] = p
  BY <1>2, <1>3, <1>7
<1>8. ASSUME NEW p, NEW i \in 1..n, Reverse(s)[i] = p
      PROVE  \E j \in 1..n : s[j] = p
  BY <1>2, <1>3, <1>8
<1> QED BY <1>5, <1>6, <1>7, <1>8 DEF Contains, n

LEMMA TailIs ==
  ASSUME NEW S, NEW s \in Seq(S), s # <<>>, OneEach(s)
  PROVE  /\ Tail(s) \in Seq(S) /\ OneEach(Tail(s)) /\ Head(s) \in S /\ Contains(s, Head(s))
         /\ \A p : Contains(Tail(s), p) <=> Contains(s, p) /\ p # Head(s)
<1> DEFINE n == Len(s)
           t == Tail(s)
<1>1. n \in Nat /\ n # 0
  BY LenProperties, EmptySeq
<1>2. /\ t \in Seq(S) /\ Len(t) = n - 1 /\ Head(s) \in S
      /\ \A i \in 1..Len(t) : t[i] = s[i + 1]
  BY HeadTailProperties
<1>3. Head(s) = s[1]
  OBVIOUS
<1> HIDE DEF n, t
<1>4. OneEach(t)
  BY <1>1, <1>2 DEF OneEach, n
<1>5. ASSUME NEW p, Contains(t, p) PROVE Contains(s, p) /\ p # Head(s)
  <2>1. PICK i \in 1..(n - 1) : s[i + 1] = p
    BY <1>1, <1>2, <1>5 DEF Contains
  <2>2. i + 1 \in 1..n /\ 1 \in 1..n /\ i + 1 # 1
    BY <1>1
  <2> QED BY <1>3, <2>1, <2>2 DEF Contains, OneEach, n
<1>6. ASSUME NEW p, Contains(s, p), p # Head(s) PROVE Contains(t, p)
  <2>1. PICK i \in 1..n : s[i] = p
    BY <1>6 DEF Contains, n
  <2>2. i # 1
    BY <1>3, <1>6, <2>1
  <2>3. i - 1 \in 1..(n - 1) /\ (i - 1) + 1 = i
    BY <1>1, <2>2
  <2>4. t[i - 1] = p
    BY <1>2, <2>1, <2>3
  <2> QED BY <1>2, <2>3, <2>4 DEF Contains
<1>7. Contains(s, Head(s))
  <2>1. 1 \in 1..n
    BY <1>1
  <2> QED BY <1>3, <2>1 DEF Contains, n
<1> QED BY <1>2, <1>4, <1>5, <1>6, <1>7 DEF t

LEMMA AppendIs ==
  ASSUME NEW S, NEW s \in Seq(S), OneEach(s), NEW e \in S, ~Contains(s, e)
  PROVE  /\ Append(s, e) \in Seq(S) /\ OneEach(Append(s, e))
         /\ \A p : Contains(Append(s, e), p) <=> Contains(s, p) \/ p = e
<1> DEFINE n == Len(s)
           t == Append(s, e)
<1>1. n \in Nat
  BY LenProperties
<1>2. /\ t \in Seq(S) /\ Len(t) = n + 1 /\ t[n + 1] = e
      /\ \A i \in 1..n : t[i] = s[i]
  BY AppendProperties
<1>3. \A i \in 1..n : s[i] # e
  BY DEF Contains
<1>4. \A i, j \in 1..n : s[i] = s[j] => i = j
  BY DEF OneEach
<1> HIDE DEF n, t
<1>5. \A i \in 1..Len(t) : i \in 1..n \/ i = n + 1
  BY <1>1, <1>2
<1>6. \A i \in 1..(n + 1) : i \in 1..n \/ i = n + 1
  BY <1>1
<1>7. OneEach(t)
  BY <1>1, <1>2, <1>3, <1>4, <1>6 DEF OneEach
<1>8. \A p : Contains(t, p) => Contains(s, p) \/ p = e
  BY <1>2, <1>5 DEF Contains, n
<1>9. \A p : Contains(s, p) \/ p = e => Contains(t, p)
  <2>1. n + 1 \in 1..Len(t) /\ \A i \in 1..n : i \in 1..Len(t)
    BY <1>1, <1>2
  <2> QED BY <1>2, <2>1 DEF Contains, n
<1> QED BY <1>2, <1>7, <1>8, <1>9 DEF t

LEMMA EmptyIs ==
  ASSUME NEW S
  PROVE  <<>> \in Seq(S) /\ OneEach(<<>>) /\ \A p : ~Contains(<<>>, p)
<1>1. <<>> \in Seq(S) /\ Len(<<>>) = 0
  BY EmptySeq
<1>2. 1..0 = {}
  OBVIOUS
<1> QED BY <1>1, <1>2 DEF OneEach, Contains

LEMMA SingleIs ==
  ASSUME NEW S, NEW e \in S
  PROVE  <<e>> \in Seq(S) /\ OneEach(<<e>>) /\ \A p : Contains(<<e>>, p) <=> p = e
<1>1. <<e>> \in Seq(S) /\ Len(<<e>>) = 1 /\ <<e>>[1] = e
  OBVIOUS
<1>2. 1..1 = {1}
  OBVIOUS
<1> QED BY <1>1, <1>2 DEF OneEach, Contains

-------------------------------------------------------------------------------
(* From one participant, or one phase, to the next. *)

\* What TriesFrom, ConfirmsFrom and CancelsThen leave to others.
Others == after \in {"continue", "fail", "raise"} /\ told \in BOOLEAN
          /\ todo \in Seq(Participants) /\ OneEach(todo)
          /\ tccRecord \in {"absent", "IN_FLIGHT", "COMPLETED", "FAILED"}

LEMMA ConfirmsOn ==
  ASSUME NEW n \in 1..(Len(Order) + 1), ConfirmsFrom(n), outcome = "none",
         Ledger', AllHeld', ConfirmedUpTo(n)', Others'
  PROVE  TInv'
<1> DEFINE later == {i \in n..Len(Order) : Contains(tried', Order[i])}
<1>1. Len(Order) \in Nat /\ n \in Nat /\ n >= 1 /\ TotalAttempts \in Nat \ {0}
  BY OrderIs, TccAssumption
<1>2. try' \in 1..TotalAttempts
  BY <1>1 DEF ConfirmsFrom
<1>3. CASE later = {}
  <2>1. place' = Len(Order) + 1 /\ phase' = "finish" /\ outcome' = "success"
    BY <1>3 DEF ConfirmsFrom, Concludes
  <2>2. \A j \in Places : j >= n => ~Contains(tried', Order[j])
    BY <1>1, <1>3 DEF Places
  <2>3. \A j \in Places : Contains(tried', Order[j]) => j < n /\ j < Len(Order) + 1
    BY <1>1, <2>2 DEF Places
  <2>4. ConfirmedUpTo(Len(Order) + 1)'
    BY <2>3 DEF ConfirmedUpTo
  <2>5. Shape'
    BY <1>1, <1>2, <2>1 DEF Shape, Others
  <2> QED BY <2>1, <2>4, <2>5 DEF TInv
<1>4. CASE later # {}
  <2>1. /\ phase' = "confirm" /\ outcome' = "none"
        /\ place' \in later /\ \A j \in later : place' <= j
    BY <1>4 DEF ConfirmsFrom
  <2>2. /\ place' \in Places /\ place' >= n /\ Contains(tried', Order[place'])
        /\ place' \in 1..(Len(Order) + 1)
    BY <1>1, <2>1 DEF Places
  <2>3. \A j \in Places : Contains(tried', Order[j]) => (j < n <=> j < place')
    BY <1>1, <2>1, <2>2 DEF Places
  <2>4. ConfirmedUpTo(place)'
    BY <2>3 DEF ConfirmedUpTo
  <2>5. Shape'
    BY <1>2, <2>1, <2>2 DEF Shape, Others
  <2> QED BY <2>1, <2>2, <2>4, <2>5 DEF TInv
<1> QED BY <1>3, <1>4

LEMMA TriesOn ==
  ASSUME NEW n \in 1..(Len(Order) + 1), TriesFrom(n), outcome = "none",
         Ledger', AllHeld', TriedUpTo(n)', Others'
  PROVE  TInv'
<1>1. Len(Order) \in Nat /\ n \in Nat /\ n >= 1 /\ TotalAttempts \in Nat \ {0}
  BY OrderIs, TccAssumption
<1>2. CASE n > Len(Order)
  <2>1. ConfirmsFrom(1) /\ 1 \in 1..(Len(Order) + 1)
    BY <1>1, <1>2 DEF TriesFrom
  <2>2. \A p \in Participants : Contains(tried', p) \/ p \in Optional
    BY <1>1, <1>2, OrderIs DEF TriedUpTo, Places
  <2>3. \A j \in Places : confirmed'[Order[j]] = 0 /\ ~(j < 1)
    BY <1>1, OrderIs DEF TriedUpTo, Places
  <2>4. ConfirmedUpTo(1)'
    BY <2>2, <2>3 DEF ConfirmedUpTo
  <2> QED BY <2>1, <2>4, ConfirmsOn
<1>3. CASE ~(n > Len(Order))
  <2>1. phase' = "try" /\ place' = n /\ try' = 1 /\ outcome' = "none" /\ n \in Places
    BY <1>1, <1>3 DEF TriesFrom, Places
  <2>2. Shape'
    BY <1>1, <2>1 DEF Shape, Others
  <2> QED BY <2>1, <2>2 DEF TInv
<1> QED BY <1>2, <1>3

\* The CANCEL phase of all who were tried.
LEMMA CancelsOn ==
  ASSUME TInv, NEW next \in {"fail", "raise"}, CancelsThen(tried', next), outcome = "none",
         Ledger', UNCHANGED tccRecord,
         \A p \in Participants : Contains(tried', p) => released'[p] = 0,
         \A p \in Participants : Unreleased(p)' => Contains(tried', p)
  PROVE  TInv'
<1>1. /\ todo' \in Seq(Participants) /\ OneEach(todo')
      /\ \A p : Contains(todo', p) <=> Contains(tried', p)
  BY ReverseIs DEF CancelsThen, Ledger
<1>2. /\ phase' = "cancel" /\ after' = next /\ try' = 1 /\ told' = FALSE
      /\ UNCHANGED <<place, outcome>> /\ 1 \in 1..TotalAttempts
  BY TccAssumption DEF CancelsThen
<1>3. Shape'
  BY <1>1, <1>2 DEF Shape, TInv
<1>4. Cancels'
  BY <1>1, <1>2 DEF Cancels
<1> QED BY <1>2, <1>3, <1>4 DEF TInv

-------------------------------------------------------------------------------

LEMMA InitTInv == TccInit => TInv
<1> SUFFICES ASSUME TccInit PROVE TInv
  OBVIOUS
<1>1. \A p : ~Contains(tried, p)
  BY EmptyIs DEF TccInit
<1>2. Ledger
  <2>1. tried \in Seq(Participants) /\ OneEach(tried) /\ cancelError = {} /\ skipped = {}
    BY EmptyIs DEF TccInit
  <2>2. /\ reserved \in [Participants -> 0..1] /\ confirmed \in [Participants -> 0..1]
        /\ released \in [Participants -> 0..1] /\ \A p \in Participants : confirmed[p] = 0
    BY DEF TccInit
  <2> QED BY <2>1, <2>2 DEF Ledger
<1>3. Shape
  <2>1. todo \in Seq(Participants) /\ OneEach(todo)
    BY EmptyIs DEF TccInit
  <2>2. place \in 1..(Len(Order) + 1) /\ try \in 1..TotalAttempts
    BY OrderIs, TccAssumption DEF TccInit
  <2>3. /\ phase = "new" /\ after = "continue" /\ told \in BOOLEAN /\ outcome = "none"
        /\ tccRecord = "absent"
    BY DEF TccInit
  <2> QED BY <2>1, <2>2, <2>3 DEF Shape
<1>4. \A p \in Participants : reserved[p] = 0 /\ released[p] = 0 /\ confirmed[p] = 0
  BY DEF TccInit
<1>5. AllHeld
  BY <1>1, <1>4 DEF AllHeld, TriedHold, Unreleased, Releasable
<1>6. TriedUpTo(1)
  <2>1. \A j \in Places : Order[j] \in Participants /\ ~(j < 1)
    BY OrderIs DEF Places
  <2> QED BY <1>1, <1>4, <2>1 DEF TriedUpTo
<1> QED BY <1>2, <1>3, <1>5, <1>6 DEF TInv, TccInit

\* Nothing but the phase changes, and the record.
LEMMA StartsKeeps ==
  ASSUME TInv, TccStarts \/ TccRefused \/ TccFinishes \/ TccFinishFails
  PROVE  TInv'
<1> USE DEF TInv
<1>1. /\ UNCHANGED <<place, try, tried, todo, after, told, reserved, confirmed, released,
                     cancelError, skipped>>
      /\ tccRecord' \in {"absent", "IN_FLIGHT", "COMPLETED", "FAILED"}
  BY DEF TccStarts, TccRefused, TccFinishes, TccFinishFails, OnlyFinish, Marked, ghosts, Shape
<1>2. Ledger'
  BY <1>1 DEF Ledger
<1>3. /\ AllHeld => AllHeld'
      /\ TriedUpTo(1) => TriedUpTo(1)'
      /\ ConfirmedUpTo(Len(Order) + 1) => ConfirmedUpTo(Len(Order) + 1)'
      /\ \A p \in Participants : Unreleased(p)' <=> Unreleased(p)
  BY <1>1 DEF AllHeld, TriedHold, TriedUpTo, ConfirmedUpTo, Unreleased, Releasable
<1>4. CASE TccStarts
  <2>1. phase = "new" /\ phase' = "try" /\ outcome' = outcome /\ outcome = "none"
    BY <1>4 DEF TccStarts, Shape
  <2>2. place' \in Places /\ place' = 1
    BY <1>1, <2>1, OrderIs DEF Places
  <2>3. Shape'
    BY <1>1, <2>1 DEF Shape
  <2>4. TriedUpTo(place)'
    BY <1>3, <2>1, <2>2
  <2> QED BY <1>2, <1>3, <2>1, <2>2, <2>3, <2>4
<1>5. CASE TccRefused
  <2>1. phase = "new" /\ phase' = "ended" /\ outcome' \in {"failed", "cancelled"}
    BY <1>5 DEF TccRefused
  <2>2. \A p \in Participants : ~Unreleased(p)
    BY <2>1, EmptyIs DEF AllHeld
  <2>3. Shape'
    BY <1>1, <2>1 DEF Shape
  <2> QED BY <1>2, <1>3, <2>1, <2>2, <2>3
<1>6. CASE TccFinishes \/ TccFinishFails
  <2>1. phase = "finish" /\ phase' = "ended" /\ outcome' = outcome
    BY <1>6 DEF TccFinishes, TccFinishFails, OnlyFinish
  <2>2. Shape'
    BY <1>1, <2>1 DEF Shape
  <2> QED BY <1>2, <1>3, <2>1, <2>2
<1> QED BY <1>4, <1>5, <1>6

\* What a step of the TRY phase does to the ledger.
LEMMA ReservingLedger ==
  ASSUME TInv, phase = "try", NEW took \in BOOLEAN, NEW seen \in BOOLEAN,
         Reserving(took), Also(seen), UNCHANGED <<cancelError, skipped>>
  PROVE  /\ Ledger' /\ Current \in Participants /\ place \in Places
         /\ \A p : Contains(tried', p) <=> Contains(tried, p) \/ (seen /\ p = Current)
         /\ \A p \in Participants :
              /\ p # Current => reserved'[p] = reserved[p]
              /\ released'[p] = released[p] /\ confirmed'[p] = 0
         /\ reserved[Current] = 0 /\ reserved'[Current] = IF took THEN 1 ELSE 0
         /\ released[Current] = 0 /\ ~Contains(tried, Current)
<1> USE DEF TInv
<1>1. /\ place \in Places /\ Current \in Participants /\ reserved[Current] = 0
      /\ released[Current] = 0 /\ ~Contains(tried, Current) /\ place >= place
  BY OrderIs DEF TriedUpTo, Current, Places
<1>2. /\ reserved' = [reserved EXCEPT ![Current] = reserved[Current] + (IF took THEN 1 ELSE 0)]
      /\ UNCHANGED <<confirmed, released>>
  BY DEF Reserving, Did
<1>3. tried' = IF seen THEN Append(tried, Current) ELSE tried
  BY DEF Also
<1>4. /\ tried' \in Seq(Participants) /\ OneEach(tried')
      /\ \A p : Contains(tried', p) <=> Contains(tried, p) \/ (seen /\ p = Current)
  <2>1. CASE seen
    BY <1>1, <1>3, <2>1, AppendIs DEF Ledger
  <2>2. CASE ~seen
    BY <1>3, <2>2 DEF Ledger
  <2> QED BY <2>1, <2>2
<1>5. reserved' \in [Participants -> 0..1] /\ reserved'[Current] = IF took THEN 1 ELSE 0
  BY <1>1, <1>2 DEF Ledger
<1>6. \A p \in Participants : p # Current => reserved'[p] = reserved[p]
  BY <1>1, <1>2 DEF Ledger
<1>7. \A p \in Participants : released'[p] = released[p] /\ confirmed'[p] = 0
  BY <1>2 DEF TriedUpTo
<1>8. Ledger'
  BY <1>2, <1>4, <1>5, <1>7 DEF Ledger
<1> QED BY <1>1, <1>4, <1>5, <1>6, <1>7, <1>8

\* After that step, everyone before the next place n was tried or is optional;
\* those tried before still hold.
LEMMA NextTries ==
  ASSUME TInv, phase = "try", NEW took \in BOOLEAN, NEW seen \in BOOLEAN,
         Reserving(took), Also(seen), UNCHANGED <<cancelError, skipped>>,
         NEW n, n = place + 1
  PROVE  /\ n \in 1..(Len(Order) + 1)
         /\ seen \/ Current \in Optional => TriedUpTo(n)'
         /\ (seen => took) => TriedHold'
         /\ \A p \in Participants : Unreleased(p)' => Contains(tried, p) \/ (took /\ p = Current)
<1>1. /\ Ledger' /\ Current \in Participants /\ place \in Places
      /\ \A p : Contains(tried', p) <=> Contains(tried, p) \/ (seen /\ p = Current)
      /\ \A p \in Participants :
              /\ p # Current => reserved'[p] = reserved[p]
              /\ released'[p] = released[p] /\ confirmed'[p] = 0
      /\ reserved[Current] = 0 /\ reserved'[Current] = IF took THEN 1 ELSE 0
      /\ released[Current] = 0 /\ ~Contains(tried, Current)
  BY ReservingLedger
<1>2. /\ TriedHold /\ TriedUpTo(place) /\ \A p \in Participants : Unreleased(p) => Contains(tried, p)
  BY DEF TInv, AllHeld
<1>3. Len(Order) \in Nat /\ place \in Nat /\ n \in 1..(Len(Order) + 1)
  BY <1>1, OrderIs DEF Places
<1>4. \A j \in Places : Order[j] \in Participants /\ (Order[j] = Current => j = place)
  BY <1>1, OrderIs DEF OneEach, Places, Current
<1>5. ASSUME seen \/ Current \in Optional PROVE TriedUpTo(n)'
  <2>1. ASSUME NEW j \in Places, j < n
        PROVE  Contains(tried', Order[j]) \/ Order[j] \in Optional
    <3>1. CASE j = place
      BY <1>1, <1>5, <3>1 DEF Current
    <3>2. CASE j < place
      BY <1>1, <1>2, <3>2 DEF TriedUpTo
    <3> QED BY <1>3, <2>1, <3>1, <3>2 DEF Places
  <2>2. ASSUME NEW j \in Places, j >= n
        PROVE  reserved'[Order[j]] = 0 /\ released'[Order[j]] = 0 /\ ~Contains(tried', Order[j])
    <3>1. j >= place /\ j # place
      BY <1>3, <2>2 DEF Places
    <3>2. Order[j] # Current /\ Order[j] \in Participants
      BY <1>4, <3>1
    <3> QED BY <1>1, <1>2, <3>1, <3>2 DEF TriedUpTo
  <2> QED BY <1>1, <2>1, <2>2 DEF TriedUpTo
<1>6. ASSUME seen => took PROVE TriedHold'
  BY <1>1, <1>2, <1>6 DEF TriedHold
<1>7. ASSUME NEW p \in Participants, Unreleased(p)'
      PROVE  Contains(tried, p) \/ (took /\ p = Current)
  <2>1. CASE p = Current
    BY <1>1, <1>7, <2>1 DEF Unreleased, Releasable
  <2>2. CASE p # Current
    BY <1>1, <1>2, <1>7, <2>2 DEF Unreleased, Releasable
  <2> QED BY <2>1, <2>2
<1> QED BY <1>3, <1>5, <1>6, <1>7

LEMMA TryKeeps ==
  ASSUME TInv, TrySucceeds \/ \E took, seen \in BOOLEAN :
                   \/ TryFails(took, seen) \/ OptionalTryFails(took, seen) \/ TryCancelled(took, seen)
  PROVE  TInv'
<1> USE DEF Kept
<1>1. (outcome = "none" /\ Others /\ TotalAttempts \in Nat \ {0}) \/ phase # "try"
  BY TccAssumption DEF TInv, Shape, Others
<1>2. PICK n : n = place + 1
  OBVIOUS
<1>3. CASE TrySucceeds
  <2>1. /\ phase = "try" /\ Reserving(TRUE) /\ Also(TRUE) /\ TriesFrom(n)
        /\ UNCHANGED <<todo, after, told>> /\ UNCHANGED <<cancelError, skipped, tccRecord>>
    BY <1>2, <1>3 DEF TrySucceeds
  <2>2. Ledger' /\ TriedUpTo(n)' /\ TriedHold' /\ n \in 1..(Len(Order) + 1)
    BY <1>2, <2>1, ReservingLedger, NextTries
  <2>3. \A p : Contains(tried', p) <=> Contains(tried, p) \/ p = Current
    BY <2>1, ReservingLedger
  <2>4. AllHeld'
    BY <1>2, <2>1, <2>2, <2>3, NextTries DEF AllHeld
  <2>5. Others'
    BY <1>1, <2>1 DEF Others
  <2> QED BY <1>1, <2>1, <2>2, <2>4, <2>5, TriesOn
<1>4. ASSUME NEW took \in BOOLEAN, NEW seen \in BOOLEAN, TryFails(took, seen) \/ TryCancelled(took, seen)
      PROVE  TInv'
  <2>1. /\ phase = "try" /\ Reserving(took) /\ Also(seen) /\ (took => seen)
        /\ UNCHANGED <<cancelError, skipped, tccRecord>>
        /\ \E next \in {"fail", "raise"} : CancelsThen(tried', next)
    BY <1>4 DEF TryFails, TryCancelled
  <2>2. Ledger' /\ \A p : Contains(tried', p) <=> Contains(tried, p) \/ (seen /\ p = Current)
    BY <2>1, ReservingLedger
  <2>3. ASSUME NEW p \in Participants, Contains(tried', p) PROVE released'[p] = 0
    <3>1. released'[p] = released[p] /\ released[Current] = 0
      BY <2>1, ReservingLedger
    <3>2. Contains(tried, p) => released[p] = 0
      BY <2>1 DEF TInv, AllHeld, TriedHold
    <3> QED BY <2>2, <2>3, <3>1, <3>2
  <2>4. ASSUME NEW p \in Participants, Unreleased(p)' PROVE Contains(tried', p)
    BY <1>2, <2>1, <2>2, <2>4, NextTries
  <2> QED BY <1>1, <2>1, <2>2, <2>3, <2>4, CancelsOn
<1>5. ASSUME NEW took \in BOOLEAN, NEW seen \in BOOLEAN, OptionalTryFails(took, seen)
      PROVE  TInv'
  <2>1. /\ phase = "try" /\ Reserving(took) /\ Also(FALSE) /\ (took => seen) /\ Current \in Optional
        /\ UNCHANGED <<cancelError, skipped, tccRecord, tried>>
        /\ IF seen THEN CancelsThen(<<Current>>, "continue")
           ELSE TriesFrom(n) /\ UNCHANGED <<todo, after, told>>
    BY <1>2, <1>5 DEF OptionalTryFails, Also
  <2>2. Ledger' /\ TriedUpTo(n)' /\ TriedHold' /\ n \in 1..(Len(Order) + 1)
    BY <1>2, <2>1, ReservingLedger, NextTries
  <2>3. \A p \in Participants : Unreleased(p)' => Contains(tried', p) \/ (took /\ p = Current)
    BY <1>2, <2>1, NextTries
  <2>4. CASE ~seen
    <3>1. AllHeld'
      BY <2>1, <2>2, <2>3, <2>4 DEF AllHeld
    <3>2. Others' /\ TriesFrom(n)
      BY <1>1, <2>1, <2>4 DEF Others
    <3> QED BY <1>1, <2>1, <2>2, <3>1, <3>2, TriesOn
  <2>5. CASE seen
    <3>1. /\ Current \in Participants /\ place \in Places /\ released'[Current] = 0
          /\ ~Contains(tried', Current)
      BY <2>1, ReservingLedger
    <3>2. /\ phase' = "cancel" /\ after' = "continue" /\ try' = 1 /\ told' = FALSE
          /\ UNCHANGED <<place, outcome>> /\ todo' = Reverse(<<Current>>)
      BY <2>1, <2>5 DEF CancelsThen
    <3>3. /\ todo' \in Seq(Participants) /\ OneEach(todo')
          /\ \A p : Contains(todo', p) <=> p = Current
      BY <3>1, <3>2, SingleIs, ReverseIs
    <3>4. Shape'
      <4>1. try' \in 1..TotalAttempts
        BY <1>1, <2>1, <3>2
      <4>2. place' \in 1..(Len(Order) + 1)
        BY <3>2 DEF TInv, Shape
      <4> QED BY <1>1, <2>1, <3>2, <3>3, <4>1, <4>2 DEF Shape, Others
    <3>5. TriedUpTo(place + 1)'
      BY <1>2, <2>2, <3>2
    <3>6. Current' = Current
      BY <3>2 DEF Current
    <3>7. Cancels'
      BY <2>2, <2>3, <3>1, <3>2, <3>3, <3>5, <3>6 DEF Cancels, Current
    <3> QED BY <1>1, <2>1, <2>2, <3>2, <3>4, <3>7 DEF TInv
  <2> QED BY <2>4, <2>5
<1> QED BY <1>3, <1>4, <1>5

LEMMA TryRetriedKeeps ==
  ASSUME TInv, NEW took \in BOOLEAN, NEW seen \in BOOLEAN, TryRetried(took, seen)
  PROVE  TInv'
<1>1. /\ phase = "try" /\ Reserving(FALSE) /\ try # TotalAttempts /\ try' = try + 1
      /\ UNCHANGED <<tried, phase, place, todo, after, told, outcome, cancelError, skipped, tccRecord>>
  BY DEF TryRetried, LastTry, Again, Kept
<1>2. Current \in Participants /\ place \in Places
  BY <1>1, OrderIs DEF TInv, Current, Places
<1>3. UNCHANGED <<reserved, confirmed, released>>
  BY <1>1, <1>2 DEF Reserving, Did, TInv, Ledger
<1>4. try' \in 1..TotalAttempts
  BY <1>1, TccAssumption DEF TInv, Shape
<1>5. Ledger' /\ Shape'
  BY <1>1, <1>3, <1>4 DEF TInv, Ledger, Shape
<1>6. AllHeld' /\ TriedUpTo(place)'
  BY <1>1, <1>3 DEF TInv, AllHeld, TriedHold, TriedUpTo, Unreleased, Releasable
<1> QED BY <1>1, <1>2, <1>5, <1>6 DEF TInv, Shape

-------------------------------------------------------------------------------

\* What a step of the CONFIRM phase does to the ledger.
LEMMA ConfirmingLedger ==
  ASSUME TInv, phase = "confirm", NEW took \in BOOLEAN,
         Confirming(took), UNCHANGED <<tried, cancelError, skipped>>
  PROVE  /\ Ledger' /\ AllHeld' /\ place \in Places /\ Current \in Participants
         /\ confirmed[Current] = 0 /\ Contains(tried, Current)
         /\ \A p \in Participants : p # Current => confirmed'[p] = confirmed[p]
         /\ confirmed'[Current] = IF took THEN 1 ELSE 0
<1>1. /\ place \in Places /\ Current \in Participants /\ Contains(tried, Current)
      /\ ConfirmedUpTo(place) /\ AllHeld /\ Ledger
  BY OrderIs DEF TInv, Current, Places
<1>2. place \in Nat /\ confirmed[Current] = 0
  BY <1>1, OrderIs DEF ConfirmedUpTo, Current, Places
<1>3. /\ confirmed' = [confirmed EXCEPT ![Current] = confirmed[Current] + (IF took THEN 1 ELSE 0)]
      /\ UNCHANGED <<reserved, released>>
  BY DEF Confirming, Did
<1>4. /\ confirmed' \in [Participants -> 0..1] /\ confirmed'[Current] = IF took THEN 1 ELSE 0
      /\ \A p \in Participants : p # Current => confirmed'[p] = confirmed[p]
  BY <1>1, <1>2, <1>3 DEF Ledger
<1>5. Ledger'
  BY <1>1, <1>3, <1>4 DEF Ledger
<1>6. AllHeld'
  BY <1>1, <1>3 DEF AllHeld, TriedHold, Unreleased, Releasable
<1> QED BY <1>1, <1>2, <1>4, <1>5, <1>6

LEMMA ConfirmKeeps ==
  ASSUME TInv, ConfirmSucceeds \/ (\E took, seen \in BOOLEAN : ConfirmFails(took, seen))
                 \/ (\E took \in BOOLEAN : ConfirmCancelled(took))
  PROVE  TInv'
<1> USE DEF Kept
<1>1. CASE ConfirmSucceeds
  <2>1. PICK n : n = place + 1
    OBVIOUS
  <2>2. /\ phase = "confirm" /\ Confirming(TRUE) /\ ConfirmsFrom(n) /\ outcome = "none"
        /\ UNCHANGED <<tried, todo, after, told, cancelError, skipped, tccRecord>>
    BY <1>1, <2>1 DEF ConfirmSucceeds, TInv, Shape
  <2>3. Ledger' /\ AllHeld' /\ place \in Places /\ ConfirmedUpTo(place)
    BY <2>2, ConfirmingLedger DEF TInv
  <2>4. n \in 1..(Len(Order) + 1)
    BY <2>1, <2>3, OrderIs DEF Places
  <2>5. ConfirmedUpTo(n)'
    <3>1. ASSUME NEW j \in Places, Contains(tried', Order[j])
          PROVE  confirmed'[Order[j]] = IF j < n THEN 1 ELSE 0
      <4>1. CASE j = place
        <5>1. j < n /\ Order[j] = Current
          BY <2>1, <2>3, <4>1, OrderIs DEF Current, Places
        <5>2. confirmed'[Current] = 1
          BY <2>2, ConfirmingLedger
        <5>3. PICK c : c = Current
          OBVIOUS
        <5>4. Order[j] = c /\ confirmed'[c] = 1
          BY <5>1, <5>2, <5>3
        <5> QED BY <5>1, <5>4
      <4>2. CASE j # place
        <5>1. Order[j] \in Participants /\ Order[j] # Current
          BY <2>3, <4>2, OrderIs DEF OneEach, Current, Places
        <5>2. confirmed'[Order[j]] = confirmed[Order[j]]
          BY <2>2, <5>1, ConfirmingLedger
        <5>3. j < n <=> j < place
          BY <2>1, <2>3, <4>2, OrderIs DEF Places
        <5> QED BY <2>2, <2>3, <3>1, <5>2, <5>3 DEF ConfirmedUpTo
      <4> QED BY <4>1, <4>2
    <3> QED BY <2>2, <2>3, <3>1 DEF ConfirmedUpTo
  <2>6. Others'
    BY <2>2 DEF TInv, Shape, Others
  <2> QED BY <2>2, <2>3, <2>4, <2>5, <2>6, ConfirmsOn
<1>2. ASSUME NEW took \in BOOLEAN, (\E seen \in BOOLEAN : ConfirmFails(took, seen)) \/ ConfirmCancelled(took)
      PROVE  TInv'
  <2>1. /\ phase = "confirm" /\ Confirming(took) /\ outcome = "none"
        /\ UNCHANGED <<tried, cancelError, skipped, tccRecord>>
        /\ \E next \in {"fail", "raise"} : CancelsThen(tried, next)
    BY <1>2 DEF ConfirmFails, ConfirmCancelled, TInv, Shape
  <2>2. \E next \in {"fail", "raise"} : CancelsThen(tried', next)
    BY <2>1 DEF CancelsThen
  <2>3. Ledger' /\ AllHeld'
    BY <2>1, ConfirmingLedger
  <2> QED BY <2>1, <2>2, <2>3, CancelsOn DEF AllHeld, TriedHold
<1> QED BY <1>1, <1>2

LEMMA ConfirmRetriedKeeps ==
  ASSUME TInv, NEW took \in BOOLEAN, NEW seen \in BOOLEAN, ConfirmRetried(took, seen)
  PROVE  TInv'
<1>1. /\ phase = "confirm" /\ Confirming(FALSE) /\ try # TotalAttempts /\ try' = try + 1
      /\ UNCHANGED <<tried, phase, place, todo, after, told, outcome, cancelError, skipped, tccRecord>>
  BY DEF ConfirmRetried, LastTry, Again, Kept
<1>2. Current \in Participants /\ place \in Places
  BY <1>1, OrderIs DEF TInv, Current, Places
<1>3. UNCHANGED <<reserved, confirmed, released>>
  BY <1>1, <1>2 DEF Confirming, Did, TInv, Ledger
<1>4. try' \in 1..TotalAttempts
  BY <1>1, TccAssumption DEF TInv, Shape
<1>5. Ledger' /\ Shape'
  BY <1>1, <1>3, <1>4 DEF TInv, Ledger, Shape
<1>6. AllHeld' /\ ConfirmedUpTo(place)'
  BY <1>1, <1>3 DEF TInv, AllHeld, TriedHold, ConfirmedUpTo, Unreleased, Releasable
<1> QED BY <1>1, <1>2, <1>5, <1>6 DEF TInv, Shape

-------------------------------------------------------------------------------

\* The CANCEL phase leaves all but the released alone.
LEMMA CancellingLedger ==
  ASSUME TInv, phase = "cancel", todo # <<>>, NEW took \in BOOLEAN,
         Releasing(Head(todo), took), UNCHANGED tried,
         cancelError' \subseteq Participants, skipped' \subseteq Participants
  PROVE  /\ Ledger' /\ Head(todo) \in Participants /\ Contains(todo, Head(todo))
         /\ UNCHANGED <<reserved, confirmed>>
         /\ \A p \in Participants : p # Head(todo) => released'[p] = released[p]
         /\ released'[Head(todo)] = IF took THEN 1 ELSE 0
<1>1. Head(todo) \in Participants /\ Contains(todo, Head(todo)) /\ Ledger
  BY TailIs DEF TInv, Shape
<1>2. released[Head(todo)] = 0
  BY <1>1 DEF TInv, Cancels
<1>3. /\ released' = [released EXCEPT ![Head(todo)] = released[Head(todo)] + (IF took THEN 1 ELSE 0)]
      /\ UNCHANGED <<reserved, confirmed>>
  BY DEF Releasing, Did
<1>4. released' \in [Participants -> 0..1] /\ released'[Head(todo)] = IF took THEN 1 ELSE 0
  BY <1>1, <1>2, <1>3 DEF Ledger
<1>5. Ledger'
  BY <1>1, <1>3, <1>4 DEF Ledger
<1> QED BY <1>1, <1>3, <1>4, <1>5 DEF Ledger

\* The CANCEL phase goes on with todo', whose participants are as they were;
\* the others of todo are released, failed or passed over.
LEMMA CancelsGoOn ==
  ASSUME TInv, phase = "cancel", todo # <<>>, Ledger',
         UNCHANGED <<phase, place, tried, after, told, outcome, tccRecord, reserved, confirmed>>,
         try' \in 1..TotalAttempts, todo' \in Seq(Participants), OneEach(todo'),
         \A p \in Participants : Contains(todo', p) => Contains(todo, p) /\ released'[p] = released[p],
         \A p \in Participants : ~Contains(todo, p) => released'[p] = released[p],
         \A p \in Participants : Unreleased(p)' => Unreleased(p),
         \A p \in Participants : Unreleased(p)' /\ Contains(todo, p) => Contains(todo', p)
  PROVE  TInv'
<1>1. Shape'
  BY DEF TInv, Shape
<1>2. \A p \in Participants : Contains(todo', p) => released'[p] = 0
  BY DEF TInv, Cancels
<1>3. CASE after # "continue"
  <2>1. Cancels'
    BY <1>2, <1>3 DEF TInv, Cancels
  <2> QED BY <1>1, <2>1 DEF TInv, Shape
<1>4. CASE after = "continue"
  <2>1. /\ place \in Places /\ TriedHold /\ TriedUpTo(place + 1) /\ ~Contains(tried, Order[place])
        /\ \A p \in Participants : Contains(todo, p) => p = Order[place]
        /\ \A p \in Participants : Unreleased(p) => Contains(tried, p) \/ Contains(todo, p)
    BY <1>4 DEF TInv, Cancels
  <2>2. \A p \in Participants : p # Order[place] => released'[p] = released[p]
    BY <2>1
  <2>3. TriedHold'
    BY <2>1, <2>2 DEF TriedHold
  <2>4. TriedUpTo(place + 1)'
    <3>1. \A j \in Places : j >= place + 1 => Order[j] \in Participants /\ Order[j] # Order[place]
      BY <2>1, OrderIs DEF OneEach, Places
    <3> QED BY <2>1, <2>2, <3>1 DEF TriedUpTo
  <2>5. Cancels'
    BY <1>2, <1>4, <2>1, <2>3, <2>4 DEF Cancels
  <2> QED BY <1>1, <2>5 DEF TInv, Shape
<1> QED BY <1>3, <1>4

LEMMA CancelKeeps ==
  ASSUME TInv, CancelSkips \/ CancelSucceeds \/ \E took, seen \in BOOLEAN :
                 CancelRetried(took, seen) \/ CancelFails(took, seen) \/ CancelBreaksOff(took)
  PROVE  TInv'
<1> USE DEF OnlyCancel, Cancelling
<1>1. /\ phase = "cancel" /\ todo # <<>>
      /\ UNCHANGED <<phase, place, tried, after, told, outcome, tccRecord>>
  BY DEF CancelSkips, CancelSucceeds, CancelRetried, CancelFails, CancelBreaksOff
<1>2. /\ Tail(todo) \in Seq(Participants) /\ OneEach(Tail(todo)) /\ Head(todo) \in Participants
      /\ \A p : Contains(Tail(todo), p) <=> Contains(todo, p) /\ p # Head(todo)
      /\ Contains(todo, Head(todo)) /\ todo \in Seq(Participants) /\ OneEach(todo)
  BY <1>1, TailIs DEF TInv, Shape
<1>3. /\ try \in 1..TotalAttempts /\ 1 \in 1..TotalAttempts
      /\ cancelError \subseteq Participants /\ skipped \subseteq Participants
      /\ released[Head(todo)] = 0
  BY <1>1, <1>2, TccAssumption DEF TInv, Shape, Ledger, Cancels
<1>4. CASE CancelSkips
  <2>1. /\ todo' = Tail(todo) /\ UNCHANGED <<try, reserved, confirmed, released, cancelError, skipped>>
        /\ Head(todo) \notin Cancellable
    BY <1>4 DEF CancelSkips, ghosts
  <2>2. Ledger'
    BY <1>1, <2>1 DEF TInv, Ledger
  <2>3. \A p \in Participants : Unreleased(p)' => Unreleased(p) /\ p # Head(todo)
    BY <2>1 DEF Unreleased, Releasable
  <2>4. \A p \in Participants : Unreleased(p)' /\ Contains(todo, p) => Contains(todo', p)
    BY <1>2, <2>1, <2>3
  <2> QED BY <1>1, <1>2, <1>3, <2>1, <2>2, <2>3, <2>4, CancelsGoOn
<1>5. CASE CancelSucceeds
  <2>1. /\ todo' = Tail(todo) /\ try' = 1 /\ UNCHANGED <<cancelError, skipped>>
        /\ Releasing(Head(todo), TRUE)
    BY <1>5 DEF CancelSucceeds
  <2>2. /\ Ledger' /\ UNCHANGED <<reserved, confirmed>>
        /\ \A p \in Participants : p # Head(todo) => released'[p] = released[p]
        /\ released'[Head(todo)] = 1
    BY <1>1, <1>3, <2>1, CancellingLedger
  <2>3. /\ \A p \in Participants : Unreleased(p)' => Unreleased(p) /\ p # Head(todo)
    BY <2>1, <2>2 DEF Unreleased, Releasable
  <2>4. \A p \in Participants : Unreleased(p)' /\ Contains(todo, p) => Contains(todo', p)
    BY <1>2, <2>1, <2>3
  <2> QED BY <1>1, <1>2, <1>3, <2>1, <2>2, <2>3, <2>4, CancelsGoOn
<1>6. ASSUME NEW took \in BOOLEAN, NEW seen \in BOOLEAN, CancelRetried(took, seen) PROVE TInv'
  <2>1. /\ UNCHANGED <<todo, cancelError, skipped>> /\ try' = try + 1 /\ try # TotalAttempts
        /\ Releasing(Head(todo), FALSE)
    BY <1>6 DEF CancelRetried, LastTry
  <2>2. try' \in 1..TotalAttempts
    BY <1>3, <2>1, TccAssumption
  <2>3. /\ Ledger' /\ UNCHANGED <<reserved, confirmed>>
        /\ \A p \in Participants : released'[p] = released[p]
    BY <1>1, <1>3, <2>1, CancellingLedger
  <2>4. \A p \in Participants : Unreleased(p)' => Unreleased(p)
    BY <2>1, <2>3 DEF Unreleased, Releasable
  <2> QED BY <1>1, <1>2, <2>1, <2>2, <2>3, <2>4, CancelsGoOn
<1>7. ASSUME NEW took \in BOOLEAN, NEW seen \in BOOLEAN, CancelFails(took, seen) PROVE TInv'
  <2>1. /\ todo' = Tail(todo) /\ try' = 1 /\ UNCHANGED skipped
        /\ cancelError' = cancelError \cup {Head(todo)} /\ Releasing(Head(todo), took)
    BY <1>7 DEF CancelFails
  <2>2. /\ Ledger' /\ UNCHANGED <<reserved, confirmed>>
        /\ \A p \in Participants : p # Head(todo) => released'[p] = released[p]
    BY <1>1, <1>2, <1>3, <2>1, CancellingLedger
  <2>3. /\ \A p \in Participants : Unreleased(p)' => Unreleased(p) /\ p # Head(todo)
    BY <2>1, <2>2 DEF Unreleased, Releasable
  <2>4. \A p \in Participants : Unreleased(p)' /\ Contains(todo, p) => Contains(todo', p)
    BY <1>2, <2>1, <2>3
  <2> QED BY <1>1, <1>2, <1>3, <2>1, <2>2, <2>3, <2>4, CancelsGoOn
<1>8. ASSUME NEW took \in BOOLEAN, CancelBreaksOff(took) PROVE TInv'
  <2>1. /\ todo' = <<>> /\ try' = 1 /\ UNCHANGED cancelError
        /\ skipped' = skipped \cup ToSet(todo) /\ Releasing(Head(todo), took)
    BY <1>8 DEF CancelBreaksOff
  <2>2. /\ \A p : Contains(todo, p) => p \in ToSet(todo)
        /\ ToSet(todo) \subseteq Participants
    <3>1. DOMAIN todo = 1..Len(todo) /\ \A i \in 1..Len(todo) : todo[i] \in Participants
      BY <1>2, LenProperties, ElementOfSeq
    <3> QED BY <3>1 DEF Contains, ToSet
  <2>3. skipped' \subseteq Participants
    BY <1>3, <2>1, <2>2
  <2>4. /\ Ledger' /\ UNCHANGED <<reserved, confirmed>>
        /\ \A p \in Participants : p # Head(todo) => released'[p] = released[p]
    BY <1>1, <1>3, <2>1, <2>3, CancellingLedger
  <2>5. \A p \in Participants : Unreleased(p)' => Unreleased(p) /\ ~Contains(todo, p)
    BY <1>2, <2>1, <2>2, <2>4 DEF Unreleased, Releasable
  <2>6. todo' \in Seq(Participants) /\ OneEach(todo') /\ \A p : ~Contains(todo', p)
    BY <2>1, EmptyIs
  <2> QED BY <1>1, <1>2, <1>3, <2>1, <2>4, <2>5, <2>6, CancelsGoOn
<1> QED BY <1>4, <1>5, <1>6, <1>7, <1>8

LEMMA CallerCancelsKeeps ==
  ASSUME TInv, CallerCancelsTcc
  PROVE  TInv'
<1>1. /\ UNCHANGED <<phase, place, try, tried, todo, after, outcome, reserved, confirmed, released,
                     cancelError, skipped, tccRecord>>
      /\ told' = TRUE /\ phase \in {"cancel", "finish"}
  BY DEF CallerCancelsTcc, Kept, ghosts
<1>2. Ledger'
  BY <1>1 DEF TInv, Ledger
<1>3. Shape'
  BY <1>1 DEF TInv, Shape
<1>4. phase = "cancel" => Cancels'
  BY <1>1 DEF TInv, Cancels, TriedHold, TriedUpTo, Unreleased, Releasable
<1>5. /\ AllHeld => AllHeld'
      /\ ConfirmedUpTo(Len(Order) + 1) => ConfirmedUpTo(Len(Order) + 1)'
      /\ \A p \in Participants : Unreleased(p)' <=> Unreleased(p)
  BY <1>1 DEF AllHeld, TriedHold, ConfirmedUpTo, Unreleased, Releasable
<1> QED BY <1>1, <1>2, <1>3, <1>4, <1>5 DEF TInv

LEMMA CancelEndsKeeps ==
  ASSUME TInv, CancelEnds
  PROVE  TInv'
<1>1. /\ phase = "cancel" /\ todo = <<>> /\ outcome = "none" /\ Cancels
      /\ UNCHANGED <<tried, reserved, confirmed, released, cancelError, skipped, tccRecord>>
      /\ \A p : ~Contains(todo, p)
  BY EmptyIs DEF CancelEnds, Kept, ghosts, TInv, Shape
<1>2. Ledger' /\ \A p \in Participants : Unreleased(p)' <=> Unreleased(p)
  BY <1>1 DEF TInv, Ledger, Unreleased, Releasable
<1>3. CASE after = "continue" /\ told
  <2>1. CancelsThen(tried, "raise") /\ TriedHold
        /\ \A p \in Participants : Unreleased(p) => Contains(tried, p)
    BY <1>1, <1>3 DEF CancelEnds, Cancels
  <2>2. CancelsThen(tried', "raise")
    BY <1>1, <2>1 DEF CancelsThen
  <2>3. \A p \in Participants : Contains(tried', p) => released'[p] = 0
    BY <1>1, <2>1 DEF TriedHold
  <2>4. \A p \in Participants : Unreleased(p)' => Contains(tried', p)
    BY <1>1, <1>2, <2>1
  <2> QED BY <1>1, <1>2, <2>2, <2>3, <2>4, CancelsOn
<1>4. CASE after = "continue" /\ ~told
  <2>1. PICK n : n = place + 1
    OBVIOUS
  <2>2. TriesFrom(n) /\ UNCHANGED <<todo, after, told>>
    BY <1>4, <2>1 DEF CancelEnds
  <2>3. /\ place \in Places /\ TriedUpTo(n) /\ TriedHold
        /\ \A p \in Participants : Unreleased(p) => Contains(tried, p)
    BY <1>1, <1>4, <2>1 DEF Cancels
  <2>4. n \in 1..(Len(Order) + 1)
    BY <2>1, <2>3, OrderIs DEF Places
  <2>5. AllHeld' /\ TriedUpTo(n)'
    BY <1>1, <1>2, <2>3 DEF AllHeld, TriedHold, TriedUpTo
  <2>6. Others'
    BY <1>1, <2>2 DEF TInv, Shape, Others
  <2> QED BY <1>1, <1>2, <2>2, <2>4, <2>5, <2>6, TriesOn
<1>5. CASE after # "continue"
  <2>1. /\ phase' = "finish" /\ outcome' \in {"cancelled", "failed"}
        /\ UNCHANGED <<place, try, todo, after, told>>
    BY <1>5 DEF CancelEnds, Concludes
  <2>2. \A p \in Participants : ~Unreleased(p)'
    BY <1>1, <1>2, <1>5 DEF Cancels
  <2>3. Shape'
    BY <1>1, <2>1 DEF TInv, Shape
  <2> QED BY <1>2, <2>1, <2>2, <2>3 DEF TInv
<1> QED BY <1>3, <1>4, <1>5

LEMMA TccStepKeepsTInv == TInv /\ [TccNext]_tccVars => TInv'
<1> SUFFICES ASSUME TInv, [TccNext]_tccVars PROVE TInv'
  OBVIOUS
<1>1. CASE UNCHANGED tccVars
  <2>1. UNCHANGED <<phase, place, try, tried, todo, after, told, outcome, reserved, confirmed,
                    released, cancelError, skipped, tccRecord>>
    BY <1>1 DEF tccVars, ghosts
  <2>2. Ledger' /\ Shape' /\ (Cancels => Cancels') /\ (AllHeld => AllHeld')
    BY <2>1 DEF TInv, Ledger, Shape, Cancels, AllHeld, TriedHold, TriedUpTo, Unreleased, Releasable
  <2>3. /\ TriedUpTo(1) => TriedUpTo(1)'
        /\ TriedUpTo(place) => TriedUpTo(place)'
        /\ ConfirmedUpTo(place) => ConfirmedUpTo(place)'
        /\ ConfirmedUpTo(Len(Order) + 1) => ConfirmedUpTo(Len(Order) + 1)'
        /\ \A p \in Participants : Unreleased(p)' <=> Unreleased(p)
    BY <2>1 DEF TriedUpTo, ConfirmedUpTo, Unreleased, Releasable
  <2> QED BY <2>1, <2>2, <2>3 DEF TInv
<1>2. CASE TccNext
  BY <1>2, StartsKeeps, TryKeeps, TryRetriedKeeps, ConfirmKeeps, ConfirmRetriedKeeps, CancelKeeps,
     CallerCancelsKeeps, CancelEndsKeeps DEF TccNext, TccStep, TryMoves, ConfirmMoves, CancelMoves
<1> QED BY <1>1, <1>2

-------------------------------------------------------------------------------
(* The theorems. *)

LEMMA TInvAlways == TccSpec => []TInv
  BY InitTInv, TccStepKeepsTInv, PTL DEF TccSpec

\* What execute answers, and what the record says, agrees with what the phases
\* came to: only an exception leaves that open.
Told ==
  /\ answer \in {"none", "success", "failed", "error", "cancelled"}
  /\ answer = "none" <=> phase # "ended"
  /\ answer \in {"success", "failed"} => outcome = answer
  /\ tccRecord = "COMPLETED" => phase = "ended" /\ outcome = "success"
  /\ tccRecord = "FAILED" => phase = "ended" /\ outcome \in {"failed", "cancelled"}

LEMMA StepsEndNothing ==
  ASSUME TccStep
  PROVE  phase # "ended" /\ phase' # "ended"
<1>1. CASE TccStarts \/ TrySucceeds \/ ConfirmSucceeds \/ CallerCancelsTcc
  <2>1. phase # "ended"
    BY <1>1 DEF TccStarts, TrySucceeds, ConfirmSucceeds, CallerCancelsTcc
  <2>2. CASE TccStarts \/ CallerCancelsTcc
    BY <2>1, <2>2 DEF TccStarts, CallerCancelsTcc
  <2>3. CASE TrySucceeds
    BY <2>1, <2>3 DEF TrySucceeds, TriesFrom, ConfirmsFrom, Concludes
  <2>4. CASE ConfirmSucceeds
    BY <2>1, <2>4 DEF ConfirmSucceeds, ConfirmsFrom, Concludes
  <2> QED BY <1>1, <2>1, <2>2, <2>3, <2>4
<1>2. CASE CancelSucceeds \/ CancelSkips \/ \E took, seen \in BOOLEAN : CancelMoves(took, seen)
  BY <1>2 DEF CancelSucceeds, CancelSkips, CancelMoves, CancelRetried, CancelFails, CancelBreaksOff,
     Cancelling, OnlyCancel
<1>3. CASE \E took, seen \in BOOLEAN : TryMoves(took, seen)
  <2>1. PICK took \in BOOLEAN, seen \in BOOLEAN : TryMoves(took, seen)
    BY <1>3
  <2>2. phase = "try"
    BY <2>1 DEF TryMoves, TryRetried, TryFails, OptionalTryFails, TryCancelled
  <2>3. CASE TryRetried(took, seen)
    BY <2>2, <2>3 DEF TryRetried, Again
  <2>4. CASE TryFails(took, seen) \/ TryCancelled(took, seen)
    BY <2>2, <2>4 DEF TryFails, TryCancelled, CancelsThen
  <2>5. CASE OptionalTryFails(took, seen)
    BY <2>2, <2>5 DEF OptionalTryFails, CancelsThen, TriesFrom, ConfirmsFrom, Concludes
  <2> QED BY <2>1, <2>3, <2>4, <2>5 DEF TryMoves
<1>4. CASE \E took, seen \in BOOLEAN : ConfirmMoves(took, seen)
  BY <1>4 DEF ConfirmMoves, ConfirmRetried, ConfirmFails, ConfirmCancelled, Again, CancelsThen
<1>5. CASE CancelEnds
  <2>1. phase = "cancel"
    BY <1>5 DEF CancelEnds
  <2>2. CASE after = "continue" /\ told
    BY <1>5, <2>1, <2>2 DEF CancelEnds, CancelsThen
  <2>3. CASE after = "continue" /\ ~told
    BY <1>5, <2>1, <2>3 DEF CancelEnds, TriesFrom, ConfirmsFrom, Concludes
  <2>4. CASE after # "continue"
    BY <1>5, <2>1, <2>4 DEF CancelEnds, Concludes
  <2> QED BY <2>2, <2>3, <2>4
<1> QED BY <1>1, <1>2, <1>3, <1>4, <1>5 DEF TccStep

LEMMA StepsMarkNothing ==
  ASSUME TccStep
  PROVE  tccRecord' = tccRecord \/ tccRecord' = "IN_FLIGHT"
<1>1. CASE TccStarts
  BY <1>1 DEF TccStarts
<1>2. CASE CancelSucceeds \/ CancelSkips \/ \E took, seen \in BOOLEAN : CancelMoves(took, seen)
  BY <1>2 DEF CancelSucceeds, CancelSkips, CancelMoves, CancelRetried, CancelFails, CancelBreaksOff,
     OnlyCancel
<1>3. CASE TrySucceeds \/ ConfirmSucceeds \/ CallerCancelsTcc \/ CancelEnds
  BY <1>3 DEF TrySucceeds, ConfirmSucceeds, CallerCancelsTcc, CancelEnds, Kept
<1>4. CASE \E took, seen \in BOOLEAN : TryMoves(took, seen) \/ ConfirmMoves(took, seen)
  BY <1>4 DEF TryMoves, TryRetried, TryFails, OptionalTryFails, TryCancelled, ConfirmMoves,
     ConfirmRetried, ConfirmFails, ConfirmCancelled, Kept
<1> QED BY <1>1, <1>2, <1>3, <1>4 DEF TccStep

LEMMA ToldAlways == TccSpec => []Told
<1>1. TccInit => Told
  BY DEF TccInit, Told
<1>2. ASSUME TInv, Told, [TccNext]_tccVars PROVE Told'
  <2>1. outcome = "none" <=> phase \notin {"finish", "ended"}
    BY <1>2 DEF TInv, Shape
  <2>2. CASE TccStep /\ UNCHANGED answer
    <3>1. tccRecord' = tccRecord \/ tccRecord' = "IN_FLIGHT"
      BY <2>2, StepsMarkNothing
    <3> QED BY <1>2, <2>2, <3>1, StepsEndNothing DEF Told
  <2>3. CASE TccRefused
    BY <1>2, <2>3 DEF TccRefused, Told
  <2>4. CASE TccFinishes \/ TccFinishFails
    <3>1. /\ phase = "finish" /\ phase' = "ended" /\ outcome' = outcome
          /\ tccRecord' \in {tccRecord, Marked}
          /\ answer' \in {outcome, "error", "cancelled"}
      BY <2>4 DEF TccFinishes, TccFinishFails, OnlyFinish
    <3>2. outcome \in {"success", "failed", "cancelled"}
      BY <1>2, <2>1, <3>1 DEF TInv, Shape
    <3> QED BY <1>2, <3>1, <3>2 DEF Told, Marked
  <2>5. CASE UNCHANGED tccVars
    BY <1>2, <2>5 DEF tccVars, Told
  <2> QED BY <1>2, <2>2, <2>3, <2>4, <2>5 DEF TccNext
<1>3. TInv /\ Told /\ [TccNext]_tccVars => Told'
  BY <1>2
<1> QED BY <1>1, <1>3, TInvAlways, PTL DEF TccSpec

\* The engine's state is what its code makes it.
THEOREM TccTypes == TccSpec => []TccTypeOK
<1>1. TInv /\ Told => TccTypeOK
  <2> SUFFICES ASSUME TInv, Told PROVE TccTypeOK
    OBVIOUS
  <2>1. \A g \in {reserved, confirmed, released} : g \in [Participants -> Nat]
    <3>1. \A g \in [Participants -> 0..1] : g \in [Participants -> Nat]
      OBVIOUS
    <3> QED BY <3>1 DEF TInv, Ledger
  <2> QED BY <2>1 DEF TInv, Ledger, Shape, Told, TccTypeOK
<1> QED BY <1>1, TInvAlways, ToldAlways, PTL

\* No phase of a participant takes effect twice, for any participants and any
\* number of attempts (_invoke_with_retry_and_timeout and the phases).
THEOREM TccPhasesOnce == TccSpec => []PhasesOnce
<1>1. TInv => PhasesOnce
  <2> SUFFICES ASSUME TInv, NEW p \in Participants
               PROVE  reserved[p] <= 1 /\ confirmed[p] <= 1 /\ released[p] <= 1
    BY DEF PhasesOnce
  <2>1. reserved[p] \in 0..1 /\ confirmed[p] \in 0..1 /\ released[p] \in 0..1
    BY DEF TInv, Ledger
  <2> QED BY <2>1
<1> QED BY <1>1, TInvAlways, PTL

LEMMA SuccessConfirms ==
  ASSUME TInv, outcome = "success"
  PROVE  AllConfirmed
<1> SUFFICES ASSUME NEW p \in Participants
             PROVE  IF Contains(tried, p)
                    THEN reserved[p] = 1 /\ confirmed[p] = 1 /\ released[p] = 0
                    ELSE p \in Optional /\ confirmed[p] = 0 /\ (Releasable(p) => released[p] = 1)
  BY DEF AllConfirmed
<1>1. AllHeld /\ ConfirmedUpTo(Len(Order) + 1)
  BY DEF TInv
<1>2. PICK j \in Places : p = Order[j]
  BY OrderIs
<1>3. j < Len(Order) + 1
  BY OrderIs DEF Places
<1>4. CASE Contains(tried, p)
  BY <1>1, <1>2, <1>3, <1>4 DEF AllHeld, TriedHold, ConfirmedUpTo
<1>5. CASE ~Contains(tried, p)
  <2>1. ~Unreleased(p) /\ p \in Optional /\ confirmed[p] = 0
    BY <1>1, <1>5 DEF AllHeld, ConfirmedUpTo, TInv, Ledger
  <2>2. Releasable(p) => released[p] = 1
    BY <2>1 DEF Unreleased
  <2> QED BY <1>5, <2>1, <2>2
<1> QED BY <1>4, <1>5

(* However a TCC ends, everything is confirmed or everything is released; a   *)
(* result that is returned, and a record that was marked, says which, and an  *)
(* exception of execute does not (execute and _finish).                       *)
THEOREM TccAllOrNothing == TccSpec => []AllOrNothing
<1>1. TInv /\ Told => AllOrNothing
  <2> SUFFICES ASSUME TInv, Told, phase = "ended"
               PROVE  /\ answer = "success" \/ tccRecord = "COMPLETED" => AllConfirmed
                      /\ answer = "failed" \/ tccRecord = "FAILED" => AllReleased
                      /\ AllConfirmed \/ AllReleased
    BY DEF AllOrNothing
  <2>1. outcome = "success" \/ outcome \in {"failed", "cancelled"}
    BY DEF TInv, Shape
  <2>2. outcome = "success" => AllConfirmed
    BY SuccessConfirms
  <2>3. outcome \in {"failed", "cancelled"} => AllReleased
    BY DEF TInv, Unreleased, AllReleased
  <2>4. /\ answer = "success" \/ tccRecord = "COMPLETED" => outcome = "success"
        /\ answer = "failed" \/ tccRecord = "FAILED" => outcome \in {"failed", "cancelled"}
    BY DEF Told
  <2> QED BY <2>1, <2>2, <2>3, <2>4
<1> QED BY <1>1, TInvAlways, ToldAlways, PTL

\* Nobody confirms before everyone mandatory holds a reservation, nor on a
\* reservation that was released; nobody reserves once one has confirmed.
THEOREM TccConfirmedTogether == TccSpec => ConfirmedTogether
<1> DEFINE Together ==
      /\ confirmed' # confirmed =>
           \A p \in Participants : IF Contains(tried, p) THEN reserved[p] = 1 /\ released[p] = 0
                                   ELSE p \in Optional
      /\ reserved' # reserved => \A p \in Participants : confirmed[p] = 0
<1>1. ASSUME TInv, [TccNext]_tccVars PROVE [Together]_tccVars
  <2>1. confirmed' # confirmed => phase = "confirm"
    BY <1>1 DEF TccNext, TccStep, tccVars, ghosts, TccStarts, TccRefused, TccFinishes, TccFinishFails,
       OnlyFinish, TrySucceeds,
       CancelSucceeds, TryMoves, CancelMoves, TryRetried, TryFails, OptionalTryFails, TryCancelled,
       CancelRetried, CancelFails, CancelBreaksOff, CallerCancelsTcc, CancelSkips, CancelEnds,
       Reserving, Releasing, ConfirmSucceeds, ConfirmMoves, ConfirmRetried, ConfirmFails, ConfirmCancelled
  <2>2. reserved' # reserved => phase = "try"
    BY <1>1 DEF TccNext, TccStep, tccVars, ghosts, TccStarts, TccRefused, TccFinishes, TccFinishFails,
       OnlyFinish, TrySucceeds,
       CancelSucceeds, TryMoves, CancelMoves, TryRetried, TryFails, OptionalTryFails, TryCancelled,
       CancelRetried, CancelFails, CancelBreaksOff, CallerCancelsTcc, CancelSkips, CancelEnds,
       Confirming, Releasing, ConfirmSucceeds, ConfirmMoves, ConfirmRetried, ConfirmFails, ConfirmCancelled
  <2>3. phase = "confirm" =>
          \A p \in Participants : IF Contains(tried, p) THEN reserved[p] = 1 /\ released[p] = 0
                                  ELSE p \in Optional
    BY <1>1 DEF TInv, AllHeld, TriedHold, ConfirmedUpTo
  <2>4. phase = "try" => \A p \in Participants : confirmed[p] = 0
    BY <1>1 DEF TInv, TriedUpTo
  <2> QED BY <2>1, <2>2, <2>3, <2>4
<1>2. TInv /\ [TccNext]_tccVars => [Together]_tccVars
  BY <1>1
<1>3. TccSpec => [][Together]_tccVars
  BY <1>2, TInvAlways, PTL DEF TccSpec
<1> QED BY <1>3 DEF ConfirmedTogether

-------------------------------------------------------------------------------
(* The runners of a projection. *)

AtRow == {"handling", "committing"}

(* A runner is between its claim of the row and the end of its batch exactly  *)
(* while its unit holds the row, and then the checkpoint is where it believes. *)
HoldsRow(r) ==
  /\ rowLock = r <=> doing[r] \in AtRow
  /\ doing[r] \in AtRow => checkpoint = position[r]

(* A runner with a page knows where the page begins, and the page has events. *)
HasPage(r) ==
  /\ doing[r] \in {"reading", "claiming"} \cup AtRow => position[r] # Unknown
  /\ doing[r] \in {"claiming"} \cup AtRow => position[r] < target[r]

FromOrigin == checkpoint # Unknown => origin <= checkpoint

PTypes == ProjectionTypeOK /\ stuck \in Nat
PRow == FromOrigin /\ \A r \in Runners : HoldsRow(r) /\ HasPage(r)
PInv == PTypes /\ PRow /\ AppliedInOrder

--------------------------------------------------------------------------------
(* Spans of consecutive positions.                                            *)

(* The positions after one up to a later one are a sequence of their number.  *)
LEMMA SpanIsSeq ==
  ASSUME NEW m \in Nat, NEW n \in Nat, m <= n
  PROVE  Span(m, n) \in Seq(Nat) /\ Len(Span(m, n)) = n - m
<1>1. n - m \in Nat OBVIOUS
<1>2. \A i \in 1..(n - m) : m + i \in Nat OBVIOUS
<1> QED BY <1>1, <1>2 DEF Span

(* Nothing lies between a position and itself.                                *)
LEMMA SpanOfNone == ASSUME NEW n \in Nat PROVE Span(n, n) = <<>>
BY SpanIsSeq DEF Span

(* A page applied after what the read model holds continues it.               *)
LEMMA SpansJoin ==
  ASSUME NEW l \in Nat, NEW m \in Nat, NEW n \in Nat, l <= m, m <= n
  PROVE  Span(l, m) \o Span(m, n) = Span(l, n)
<1> DEFINE one == Span(l, m)
           two == Span(m, n)
           all == Span(l, n)
<1>1. one \in Seq(Nat) /\ Len(one) = m - l BY SpanIsSeq
<1>2. two \in Seq(Nat) /\ Len(two) = n - m BY SpanIsSeq
<1>3. all \in Seq(Nat) /\ Len(all) = n - l BY SpanIsSeq
<1>4. /\ \A i \in 1..(m - l) : one[i] = l + i
      /\ \A i \in 1..(n - m) : two[i] = m + i
      /\ \A i \in 1..(n - l) : all[i] = l + i
  BY DEF Span
<1> HIDE DEF one, two, all
<1>5. one \o two \in Seq(Nat) /\ Len(one \o two) = n - l BY <1>1, <1>2
<1>6. ASSUME NEW i \in 1..(n - l) PROVE (one \o two)[i] = all[i]
  <2>1. CASE i <= m - l
    <3>1. i \in 1..(m - l) BY <2>1
    <3>2. (one \o two)[i] = one[i] BY <1>1, <1>2, <3>1
    <3> QED BY <1>4, <3>1, <3>2
  <2>2. CASE i > m - l
    <3>1. i - (m - l) \in 1..(n - m) BY <2>2
    <3>2. (one \o two)[i] = two[i - (m - l)] BY <1>1, <1>2, <2>2, <3>1
    <3>3. two[i - (m - l)] = m + (i - (m - l)) BY <1>4, <3>1
    <3> QED BY <1>4, <3>2, <3>3
  <2>3. i <= m - l \/ i > m - l OBVIOUS
  <2> QED BY <2>1, <2>2, <2>3
<1>7. one \o two = all BY <1>3, <1>5, <1>6, SeqEqual
<1> QED BY <1>7 DEF one, two, all

--------------------------------------------------------------------------------
(* The row. *)

RowKept == UNCHANGED <<checkpoint, readModel, origin>>
RowTypes == checkpoint \in Nat \cup {Unknown} /\ readModel \in Seq(Nat) /\ origin \in Nat

(* A row inserted unless it is there begins the read model, or changes nothing. *)
LEMMA RowThereKeeps ==
  ASSUME PInv, NEW initial \in Nat, RowThere(initial)
  PROVE  /\ RowTypes' /\ FromOrigin' /\ AppliedInOrder'
         /\ checkpoint' # Unknown /\ rowLock' = rowLock
         /\ checkpoint # Unknown => checkpoint' = checkpoint
<1> USE DEF PInv, PTypes, PRow, ProjectionTypeOK, FromOrigin, RowThere, RowTypes, Unknown, AppliedInOrder
<1>1. CASE checkpoint = Unknown
  <2>1. checkpoint' = initial /\ origin' = initial /\ readModel' = <<>> BY <1>1
  <2>2. readModel' = Span(origin', checkpoint') BY <2>1, SpanOfNone
  <2> QED BY <1>1, <2>1, <2>2
<1>2. CASE checkpoint # Unknown
  <2>1. RowKept BY <1>2 DEF RowKept
  <2>2. AppliedInOrder' BY <2>1 DEF RowKept, Span
  <2> QED BY <1>2, <2>1, <2>2 DEF RowKept
<1> QED BY <1>1, <1>2

(* A batch that commits moves the checkpoint to its last event and applies    *)
(* the events from where the checkpoint was, since no other unit moved it.    *)
LEMMA CommittedKeeps ==
  ASSUME PInv, NEW r \in Runners, doing[r] \in AtRow, Committed(r)
  PROVE  RowTypes' /\ FromOrigin' /\ AppliedInOrder' /\ checkpoint' # Unknown
<1>1. /\ checkpoint = position[r] /\ checkpoint \in Nat /\ checkpoint < target[r]
      /\ target[r] \in Nat /\ origin \in Nat /\ origin <= checkpoint
  BY DEF PInv, PTypes, PRow, HoldsRow, HasPage, ProjectionTypeOK, FromOrigin, Unknown
<1>2. readModel = Span(origin, checkpoint) BY <1>1 DEF PInv, AppliedInOrder, Unknown
<1>3. checkpoint' = target[r] /\ origin' = origin /\ readModel' = readModel \o Span(checkpoint, target[r])
  BY <1>1 DEF Committed
<1>4. readModel' = Span(origin, target[r])
  <2>1. checkpoint <= target[r] BY <1>1
  <2>2. Span(origin, checkpoint) \o Span(checkpoint, target[r]) = Span(origin, target[r])
    BY <1>1, <2>1, SpansJoin
  <2> QED BY <1>2, <1>3, <2>2
<1>5. AppliedInOrder'
  <2>1. checkpoint' # Unknown /\ Span(origin, target[r]) = Span(origin', checkpoint')
    BY <1>1, <1>3 DEF Unknown
  <2>2. Span(origin', checkpoint') = Span(origin, checkpoint)' BY DEF Span
  <2> QED BY <1>4, <2>1, <2>2 DEF AppliedInOrder, Unknown
<1>6. readModel' \in Seq(Nat)
  <2>1. origin <= target[r] BY <1>1
  <2>2. Span(origin, target[r]) \in Seq(Nat) BY <1>1, <2>1, SpanIsSeq
  <2> QED BY <1>4, <2>2
<1> QED BY <1>1, <1>3, <1>5, <1>6 DEF RowTypes, FromOrigin, Unknown

(* What is left alone stays in order.                                         *)
LEMMA KeptKeeps ==
  ASSUME PInv, RowKept PROVE RowTypes' /\ FromOrigin' /\ AppliedInOrder'
BY DEF PInv, PTypes, PRow, ProjectionTypeOK, RowKept, RowTypes, FromOrigin, AppliedInOrder, Span

--------------------------------------------------------------------------------
(* The steps. *)

LEMMA PageSizeTypes ==
  ASSUME ProjectionAssumption, PTypes, NEW r \in Runners, NEW now \in Int, PageSize(r, now)
  PROVE  size' \in [Runners -> Nat \ {0}] /\ narrowUntil' \in [Runners -> Nat]
<1>1. (IF now < narrowUntil[r] THEN 1 ELSE BatchSize) \in Nat \ {0} BY DEF ProjectionAssumption
<1>2. (IF now < narrowUntil[r] THEN narrowUntil[r] ELSE 0) \in Nat BY DEF PTypes, ProjectionTypeOK
<1> QED BY <1>1, <1>2 DEF PageSize, PTypes, ProjectionTypeOK

LEMMA PublishesKeeps ==
  ASSUME PInv, Publishes PROVE PInv'
<1>1. RowKept BY DEF Publishes, RowKept, row
<1>2. RowTypes' /\ FromOrigin' /\ AppliedInOrder' BY <1>1, KeptKeeps
<1>3. PTypes'
  BY <1>2 DEF Publishes, row, given, pages, PInv, PTypes, ProjectionTypeOK, RowTypes
<1>4. ASSUME NEW q \in Runners PROVE HoldsRow(q)' /\ HasPage(q)'
  BY <1>1 DEF Publishes, row, given, pages, RowKept, PInv, PTypes, PRow, ProjectionTypeOK,
     HoldsRow, HasPage, AtRow
<1> QED BY <1>2, <1>3, <1>4 DEF PInv, PRow

LEMMA LeaseEndsKeeps ==
  ASSUME ProjectionAssumption, PInv, LeaseEnds PROVE PInv'
<1>1. RowKept BY DEF LeaseEnds, RowKept, row
<1>2. RowTypes' /\ FromOrigin' /\ AppliedInOrder' BY <1>1, KeptKeeps
<1>3. PTypes'
  BY <1>2, ProjectionAssumption DEF LeaseEnds, row, given, pages, PInv, PTypes,
     ProjectionTypeOK, RowTypes
<1>4. ASSUME NEW q \in Runners PROVE HoldsRow(q)' /\ HasPage(q)'
  BY <1>1, ProjectionAssumption DEF LeaseEnds, row, given, pages, RowKept, PInv, PTypes,
     PRow, ProjectionTypeOK, HoldsRow, HasPage, AtRow
<1> QED BY <1>2, <1>3, <1>4 DEF PInv, PRow

LEMMA RunnerStartsKeeps ==
  ASSUME PInv, NEW r \in Runners, RunnerStarts(r) PROVE PInv'
<1>1. RowKept BY DEF RunnerStarts, RowKept, row
<1>2. RowTypes' /\ FromOrigin' /\ AppliedInOrder' BY <1>1, KeptKeeps
<1>3. PTypes'
  BY <1>2 DEF RunnerStarts, Turns, row, given, PInv, PTypes, ProjectionTypeOK, RowTypes
<1>4. ASSUME NEW q \in Runners PROVE HoldsRow(q)' /\ HasPage(q)'
  BY <1>1 DEF RunnerStarts, Turns, row, given, RowKept, PInv, PTypes, PRow,
     ProjectionTypeOK, HoldsRow, HasPage, AtRow
<1> QED BY <1>2, <1>3, <1>4 DEF PInv, PRow

LEMMA HoldsLeaseKeeps ==
  ASSUME PInv, NEW r \in Runners, HoldsLease(r) PROVE PInv'
<1>1. RowKept BY DEF HoldsLease, RowKept, row
<1>2. RowTypes' /\ FromOrigin' /\ AppliedInOrder' BY <1>1, KeptKeeps
<1>3. PTypes'
  BY <1>2 DEF HoldsLease, GoesOn, Turns, Unknown, row, given, pages, PInv, PTypes,
     ProjectionTypeOK, RowTypes
<1>4. ASSUME NEW q \in Runners PROVE HoldsRow(q)' /\ HasPage(q)'
  BY <1>1 DEF HoldsLease, GoesOn, Turns, Unknown, row, given, pages, RowKept, PInv, PTypes,
     PRow, ProjectionTypeOK, HoldsRow, HasPage, AtRow
<1> QED BY <1>2, <1>3, <1>4 DEF PInv, PRow

LEMMA LosesLeaseKeeps ==
  ASSUME PInv, NEW r \in Runners, LosesLease(r) PROVE PInv'
<1>1. RowKept BY DEF LosesLease, RowKept, row
<1>2. RowTypes' /\ FromOrigin' /\ AppliedInOrder' BY <1>1, KeptKeeps
<1>3. PTypes'
  BY <1>2 DEF LosesLease, Turns, row, given, pages, PInv, PTypes, ProjectionTypeOK, RowTypes
<1>4. ASSUME NEW q \in Runners PROVE HoldsRow(q)' /\ HasPage(q)'
  BY <1>1 DEF LosesLease, Turns, row, given, pages, RowKept, PInv, PTypes, PRow,
     ProjectionTypeOK, HoldsRow, HasPage, AtRow
<1> QED BY <1>2, <1>3, <1>4 DEF PInv, PRow

LEMMA AcquiresLeaseKeeps ==
  ASSUME ProjectionAssumption, PInv, NEW r \in Runners, AcquiresLease(r) PROVE PInv'
<1>1. RowKept BY DEF AcquiresLease, RowKept, row
<1>2. RowTypes' /\ FromOrigin' /\ AppliedInOrder' BY <1>1, KeptKeeps
<1>3. PTypes'
  BY <1>2, ProjectionAssumption DEF AcquiresLease, Asks, GoesOn, Turns, Unknown, row, given,
     pages, PInv, PTypes, ProjectionTypeOK, RowTypes
<1>4. ASSUME NEW q \in Runners PROVE HoldsRow(q)' /\ HasPage(q)'
  BY <1>1, ProjectionAssumption DEF AcquiresLease, Asks, GoesOn, Turns, Unknown, row, given,
     pages, RowKept, PInv, PTypes, PRow, ProjectionTypeOK, HoldsRow, HasPage, AtRow
<1> QED BY <1>2, <1>3, <1>4 DEF PInv, PRow

LEMMA StandsByKeeps ==
  ASSUME PInv, NEW r \in Runners, StandsBy(r) PROVE PInv'
<1>1. RowKept BY DEF StandsBy, RowKept, row
<1>2. RowTypes' /\ FromOrigin' /\ AppliedInOrder' BY <1>1, KeptKeeps
<1>3. PTypes'
  BY <1>2 DEF StandsBy, Asks, Turns, Unknown, row, given, PInv, PTypes, ProjectionTypeOK,
     RowTypes
<1>4. ASSUME NEW q \in Runners PROVE HoldsRow(q)' /\ HasPage(q)'
  BY <1>1 DEF StandsBy, Asks, Turns, Unknown, row, given, RowKept, PInv, PTypes, PRow,
     ProjectionTypeOK, HoldsRow, HasPage, AtRow
<1> QED BY <1>2, <1>3, <1>4 DEF PInv, PRow

LEMMA LoadsCheckpointKeeps ==
  ASSUME PInv, NEW r \in Runners, LoadsCheckpoint(r) PROVE PInv'
<1>1. latest[r] \in Nat /\ RowThere(latest[r])
  BY DEF LoadsCheckpoint, PInv, PTypes, ProjectionTypeOK
<1>2. /\ RowTypes' /\ FromOrigin' /\ AppliedInOrder' /\ checkpoint' # Unknown
      /\ rowLock' = rowLock /\ (checkpoint # Unknown => checkpoint' = checkpoint)
  BY <1>1, RowThereKeeps
<1>3. PTypes'
  BY <1>1, <1>2 DEF LoadsCheckpoint, Turns, Unknown, given, PInv, PTypes, ProjectionTypeOK,
     RowTypes
<1>4. ASSUME NEW q \in Runners PROVE HoldsRow(q)' /\ HasPage(q)'
  BY <1>1, <1>2 DEF LoadsCheckpoint, Turns, Unknown, given, PInv, PTypes, PRow,
     ProjectionTypeOK, HoldsRow, HasPage, AtRow
<1> QED BY <1>2, <1>3, <1>4 DEF PInv, PRow

LEMMA LoadsAgainKeeps ==
  ASSUME ProjectionAssumption, PInv, NEW r \in Runners, LoadsAgain(r) PROVE PInv'
<1>1. RowThere(0) /\ PageSize(r, checkpoint') BY DEF LoadsAgain
<1>2. /\ RowTypes' /\ FromOrigin' /\ AppliedInOrder' /\ checkpoint' # Unknown
      /\ rowLock' = rowLock /\ (checkpoint # Unknown => checkpoint' = checkpoint)
  BY <1>1, RowThereKeeps
<1>3. checkpoint' \in Int BY <1>2 DEF RowTypes, Unknown
<1>4. size' \in [Runners -> Nat \ {0}] /\ narrowUntil' \in [Runners -> Nat]
  BY <1>1, <1>3, PageSizeTypes DEF PInv
<1>5. PTypes'
  BY <1>2, <1>4 DEF LoadsAgain, Turns, given, PInv, PTypes, ProjectionTypeOK, RowTypes
<1>6. ASSUME NEW q \in Runners PROVE HoldsRow(q)' /\ HasPage(q)'
  BY <1>2, ProjectionAssumption DEF LoadsAgain, Turns, Unknown, given, PInv,
     PTypes, PRow, ProjectionTypeOK, HoldsRow, HasPage, AtRow
<1> QED BY <1>2, <1>5, <1>6 DEF PInv, PRow

LEMMA ClaimsBatchKeeps ==
  ASSUME ProjectionAssumption, PInv, NEW r \in Runners, ClaimsBatch(r) PROVE PInv'
<1>1. RowKept BY DEF ClaimsBatch, RowKept
<1>2. RowTypes' /\ FromOrigin' /\ AppliedInOrder' BY <1>1, KeptKeeps
<1>3. PTypes'
  BY <1>2, ProjectionAssumption DEF ClaimsBatch, Turns, given, pages, PInv, PTypes,
     ProjectionTypeOK, RowTypes
<1>4. ASSUME NEW q \in Runners PROVE HoldsRow(q)' /\ HasPage(q)'
  BY <1>1, ProjectionAssumption DEF ClaimsBatch, Turns, given, pages, RowKept, PInv, PTypes,
     PRow, ProjectionTypeOK, HoldsRow, HasPage, AtRow
<1> QED BY <1>2, <1>3, <1>4 DEF PInv, PRow

LEMMA FindsItMovedKeeps ==
  ASSUME PInv, NEW r \in Runners, FindsItMoved(r) PROVE PInv'
<1>1. RowKept BY DEF FindsItMoved, RowKept, row
<1>2. RowTypes' /\ FromOrigin' /\ AppliedInOrder' BY <1>1, KeptKeeps
<1>3. PTypes'
  BY <1>2 DEF FindsItMoved, Turns, row, given, PInv, PTypes, ProjectionTypeOK, RowTypes
<1>4. ASSUME NEW q \in Runners PROVE HoldsRow(q)' /\ HasPage(q)'
  BY <1>1 DEF FindsItMoved, Turns, row, given, RowKept, PInv, PTypes, PRow,
     ProjectionTypeOK, HoldsRow, HasPage, AtRow
<1> QED BY <1>2, <1>3, <1>4 DEF PInv, PRow

LEMMA HandlesPageKeeps ==
  ASSUME PInv, NEW r \in Runners, HandlesPage(r) PROVE PInv'
<1>1. RowKept BY DEF HandlesPage, RowKept, row
<1>2. RowTypes' /\ FromOrigin' /\ AppliedInOrder' BY <1>1, KeptKeeps
<1>3. PTypes'
  BY <1>2 DEF HandlesPage, Turns, row, given, pages, PInv, PTypes, ProjectionTypeOK,
     RowTypes
<1>4. ASSUME NEW q \in Runners PROVE HoldsRow(q)' /\ HasPage(q)'
  BY <1>1 DEF HandlesPage, Turns, row, given, pages, RowKept, PInv, PTypes, PRow,
     ProjectionTypeOK, HoldsRow, HasPage, AtRow
<1> QED BY <1>2, <1>3, <1>4 DEF PInv, PRow

LEMMA LoopEndsKeeps ==
  ASSUME ProjectionAssumption, PInv, NEW r \in Runners, LoopEnds(r) PROVE PInv'
<1>1. RowKept BY DEF LoopEnds, RowKept, row
<1>2. RowTypes' /\ FromOrigin' /\ AppliedInOrder' BY <1>1, KeptKeeps
<1>3. PTypes'
  BY <1>2, ProjectionAssumption DEF LoopEnds, Turns, Forgets, Unknown, row, given, PInv,
     PTypes, ProjectionTypeOK, RowTypes
<1>4. ASSUME NEW q \in Runners PROVE HoldsRow(q)' /\ HasPage(q)'
  BY <1>1, ProjectionAssumption DEF LoopEnds, Turns, Forgets, Unknown, row, given, RowKept,
     PInv, PTypes, PRow, ProjectionTypeOK, HoldsRow, HasPage, AtRow
<1> QED BY <1>2, <1>3, <1>4 DEF PInv, PRow

LEMMA ReleasesLeaseKeeps ==
  ASSUME ProjectionAssumption, PInv, NEW r \in Runners, ReleasesLease(r) PROVE PInv'
<1>1. RowKept BY DEF ReleasesLease, RowKept, row
<1>2. RowTypes' /\ FromOrigin' /\ AppliedInOrder' BY <1>1, KeptKeeps
<1>3. PTypes'
  BY <1>2, ProjectionAssumption DEF ReleasesLease, Turns, row, given, pages, PInv, PTypes,
     ProjectionTypeOK, RowTypes
<1>4. ASSUME NEW q \in Runners PROVE HoldsRow(q)' /\ HasPage(q)'
  BY <1>1, ProjectionAssumption DEF ReleasesLease, Turns, row, given, pages, RowKept, PInv,
     PTypes, PRow, ProjectionTypeOK, HoldsRow, HasPage, AtRow
<1> QED BY <1>2, <1>3, <1>4 DEF PInv, PRow

LEMMA StopAskedKeeps ==
  ASSUME PInv, NEW r \in Runners, StopAsked(r) PROVE PInv'
<1>1. RowKept BY DEF StopAsked, RowKept, row
<1>2. RowTypes' /\ FromOrigin' /\ AppliedInOrder' BY <1>1, KeptKeeps
<1>3. PTypes'
  <2>1. stopping' \in [Runners -> BOOLEAN] /\ mishaps' \in Nat
    BY DEF StopAsked, Mishap, PInv, PTypes, ProjectionTypeOK
  <2> QED BY <1>2, <2>1 DEF StopAsked, row, given, pages, PInv, PTypes, ProjectionTypeOK, RowTypes
<1>4. ASSUME NEW q \in Runners PROVE HoldsRow(q)' /\ HasPage(q)'
  BY <1>1 DEF StopAsked, Mishap, row, given, pages, RowKept, PInv, PTypes, PRow,
     ProjectionTypeOK, HoldsRow, HasPage, AtRow
<1> QED BY <1>2, <1>3, <1>4 DEF PInv, PRow

LEMMA StuckCommitFailsKeeps ==
  ASSUME ProjectionAssumption, PInv, NEW r \in Runners, StuckCommitFails(r) PROVE PInv'
<1>1. RowKept BY DEF StuckCommitFails, RowKept, BatchFails, Unlocked
<1>2. RowTypes' /\ FromOrigin' /\ AppliedInOrder' BY <1>1, KeptKeeps
<1>3. PTypes'
  BY <1>2, ProjectionAssumption DEF StuckCommitFails, BatchFails, Loops, Turns, Narrows,
     given, Unlocked, PInv, PTypes, ProjectionTypeOK, RowTypes
<1>4. ASSUME NEW q \in Runners PROVE HoldsRow(q)' /\ HasPage(q)'
  BY <1>1, ProjectionAssumption DEF StuckCommitFails, BatchFails, Loops, Turns, Narrows,
     given, Unlocked, RowKept, PInv, PTypes, PRow, ProjectionTypeOK, HoldsRow, HasPage,
     AtRow
<1> QED BY <1>2, <1>3, <1>4 DEF PInv, PRow

LEMMA ReadsPageKeeps ==
  ASSUME ProjectionAssumption, PInv, NEW r \in Runners, ReadsPage(r) PROVE PInv'
<1>1. RowKept BY DEF ReadsPage, RowKept, row
<1>2. RowTypes' /\ FromOrigin' /\ AppliedInOrder' BY <1>1, KeptKeeps
<1>3. /\ position[r] \in Nat /\ size[r] \in Nat \ {0} /\ published \in Nat
  BY DEF ReadsPage, PInv, PTypes, PRow, HasPage, ProjectionTypeOK, Unknown
<1>4. CASE position[r] >= published
  <2>1. PTypes' BY <1>1, <1>2, <1>4 DEF ReadsPage, PInv, PTypes, ProjectionTypeOK, RowTypes, Turns, row, given
  <2>2. ASSUME NEW q \in Runners PROVE HoldsRow(q)' /\ HasPage(q)'
    BY <1>1, <1>4 DEF ReadsPage, PInv, PTypes, PRow, ProjectionTypeOK, HoldsRow, HasPage, AtRow, RowKept, Turns, row
  <2> QED BY <1>2, <2>1, <2>2 DEF PInv, PRow
<1>5. CASE position[r] < published
  <2> DEFINE end == Lower(published, position[r] + size[r])
  <2>1. end \in Nat /\ position[r] < end BY <1>3, <1>5 DEF Lower
  <2>2. Turns(r, "claiming") /\ target' = [target EXCEPT ![r] = end] BY <1>3, <1>5 DEF ReadsPage
  <2> HIDE DEF end
  <2>3. PTypes'
    BY <1>1, <1>2, <2>1, <2>2 DEF ReadsPage, PInv, PTypes, ProjectionTypeOK, RowTypes, Turns, row, given
  <2>4. ASSUME NEW q \in Runners PROVE HoldsRow(q)' /\ HasPage(q)'
    BY <1>1, <2>1, <2>2
    DEF ReadsPage, PInv, PTypes, PRow, ProjectionTypeOK, HoldsRow, HasPage, AtRow, RowKept, Turns, row, Unknown
  <2> QED BY <1>2, <2>3, <2>4 DEF PInv, PRow
<1> QED BY <1>3, <1>4, <1>5

(* A handler that raises sends the runner back with a smaller page, and the   *)
(* row as it was.                                                             *)
LEMMA HandlerRaisesKeeps ==
  ASSUME ProjectionAssumption, PInv, NEW r \in Runners, NEW e \in Nat, HandlerRaises(r, e),
         mishaps' \in Nat
  PROVE  PInv'
<1>1. RowKept /\ rowLock' = Nobody BY DEF HandlerRaises, Unlocked, RowKept
<1>2. RowTypes' /\ FromOrigin' /\ AppliedInOrder' BY <1>1, KeptKeeps
<1>3. position[r] \in Nat /\ position[r] < e
  BY DEF HandlerRaises, InPage, PInv, PTypes, PRow, HasPage, AtRow, ProjectionTypeOK, Unknown
<1>4. size' \in [Runners -> Nat \ {0}] /\ narrowUntil' \in [Runners -> Nat]
  <2>1. CASE e > position[r] + 1
    <3>1. e - position[r] - 1 \in Nat \ {0} BY <1>3, <2>1
    <3>2. size' = [size EXCEPT ![r] = e - position[r] - 1] /\ narrowUntil' = narrowUntil
      BY <2>1 DEF HandlerRaises
    <3> QED BY <3>1, <3>2 DEF PInv, PTypes, ProjectionTypeOK
  <2>2. CASE ~(e > position[r] + 1)
    <3>1. PageSize(r, position[r]) BY <2>2 DEF HandlerRaises
    <3> QED BY <1>3, <3>1, PageSizeTypes DEF PInv
  <2> QED BY <2>1, <2>2
<1>5. PTypes'
  BY <1>1, <1>2, <1>4 DEF HandlerRaises, Loops, Turns, PInv, PTypes, ProjectionTypeOK, RowTypes, given
<1>6. ASSUME NEW q \in Runners PROVE HoldsRow(q)' /\ HasPage(q)'
  BY <1>1, ProjectionAssumption
  DEF HandlerRaises, Loops, Turns, RowKept, PInv, PTypes, PRow, ProjectionTypeOK, HoldsRow, HasPage, AtRow
<1> QED BY <1>2, <1>5, <1>6 DEF PInv, PRow

LEMMA StuckEventRaisesKeeps ==
  ASSUME ProjectionAssumption, PInv, NEW r \in Runners, StuckEventRaises(r) PROVE PInv'
<1>1. stuck \in Nat /\ HandlerRaises(r, stuck) /\ mishaps' \in Nat
  BY DEF StuckEventRaises, PInv, PTypes, ProjectionTypeOK
<1> QED BY <1>1, HandlerRaisesKeeps

LEMMA EventRaisesKeeps ==
  ASSUME ProjectionAssumption, PInv, NEW r \in Runners, EventRaises(r) PROVE PInv'
<1>1. PICK e \in 1..MaxEvents : HandlerRaises(r, e) BY DEF EventRaises
<1>2. e \in Nat /\ mishaps' \in Nat
  BY DEF EventRaises, Mishap, PInv, PTypes, ProjectionTypeOK
<1> QED BY <1>1, <1>2, HandlerRaisesKeeps

(* A unit that held the row and ends leaves it to the others.                 *)
LEMMA RowFreed ==
  ASSUME ProjectionAssumption, PInv, NEW r \in Runners, rowLock = r, rowLock' = Nobody,
         NEW what \in {"looping", "down"}, Turns(r, what),
         \A q \in Runners \ {r} : position'[q] = position[q] /\ target'[q] = target[q]
  PROVE  \A q \in Runners : HoldsRow(q)' /\ HasPage(q)'
BY DEF ProjectionAssumption, Turns, PInv, PTypes, PRow, ProjectionTypeOK, HoldsRow, HasPage, AtRow

LEMMA CommitsBatchKeeps ==
  ASSUME ProjectionAssumption, PInv, NEW r \in Runners, CommitsBatch(r) PROVE PInv'
<1>1. doing[r] \in AtRow /\ Committed(r) BY DEF CommitsBatch, AtRow
<1>2. RowTypes' /\ FromOrigin' /\ AppliedInOrder' BY <1>1, CommittedKeeps
<1>3. target[r] \in Nat BY DEF PInv, PTypes, ProjectionTypeOK
<1>4. size' \in [Runners -> Nat \ {0}] /\ narrowUntil' \in [Runners -> Nat]
  BY <1>3, PageSizeTypes DEF CommitsBatch, PInv
<1>5. PTypes'
  BY <1>2, <1>3, <1>4 DEF CommitsBatch, Committed, Loops, Turns, PInv, PTypes, ProjectionTypeOK, RowTypes, given
<1>6. \A q \in Runners : HoldsRow(q)' /\ HasPage(q)'
  <2>1. rowLock = r /\ rowLock' = Nobody BY <1>1 DEF Committed, PInv, PRow, HoldsRow
  <2>2. Turns(r, "looping") BY DEF CommitsBatch, Loops
  <2>3. \A q \in Runners \ {r} : position'[q] = position[q] /\ target'[q] = target[q]
    BY DEF CommitsBatch, Loops, PInv, PTypes, ProjectionTypeOK
  <2> QED BY <2>1, <2>2, <2>3, RowFreed
<1> QED BY <1>2, <1>5, <1>6 DEF PInv, PRow

(* A unit in flight whose runner goes on at "looping", or ends: it rolls      *)
(* back, or commits all the same.                                             *)
LEMMA UnitEnds ==
  ASSUME PInv, NEW r \in Runners, doing[r] \in AtRow, Unlocked \/ Committed(r)
  PROVE  RowTypes' /\ FromOrigin' /\ AppliedInOrder' /\ rowLock = r /\ rowLock' = Nobody
<1>1. rowLock = r BY DEF PInv, PRow, HoldsRow
<1>2. CASE Unlocked
  BY <1>1, <1>2, KeptKeeps DEF Unlocked, RowKept
<1>3. CASE Committed(r)
  <2>1. rowLock' = Nobody BY <1>3 DEF Committed
  <2> QED BY <1>1, <1>3, <2>1, CommittedKeeps
<1> QED BY <1>2, <1>3

LEMMA CommitFailsKeeps ==
  ASSUME ProjectionAssumption, PInv, NEW r \in Runners, CommitFails(r) PROVE PInv'
<1>1. BatchFails(r) /\ Turns(r, "looping") /\ mishaps' \in Nat
  BY DEF CommitFails, Mishap, BatchFails, Loops, PInv, PTypes, ProjectionTypeOK
<1>2. size' \in [Runners -> Nat \ {0}] /\ narrowUntil' \in [Runners -> Nat]
  BY <1>1 DEF BatchFails, Narrows, PInv, PTypes, ProjectionTypeOK
<1>3. ASSUME RowTypes', rowLock' \in Runners \cup {Nobody} PROVE PTypes'
  BY <1>1, <1>2, <1>3 DEF BatchFails, Loops, Turns, PInv, PTypes, ProjectionTypeOK, RowTypes, given
<1>4. \A q \in Runners \ {r} : position'[q] = position[q] /\ target'[q] = target[q]
  BY <1>1 DEF BatchFails, Loops, PInv, PTypes, ProjectionTypeOK
<1>5. CASE doing[r] = "claiming" /\ UNCHANGED row
  <2>1. RowKept /\ rowLock' = rowLock BY <1>5 DEF RowKept, row
  <2>2. RowTypes' /\ FromOrigin' /\ AppliedInOrder' BY <2>1, KeptKeeps
  <2>3. rowLock' \in Runners \cup {Nobody} BY <2>1 DEF PInv, PTypes, ProjectionTypeOK
  <2>4. \A q \in Runners : HoldsRow(q)' /\ HasPage(q)'
    BY <1>1, <1>4, <1>5, <2>1
    DEF RowKept, Turns, PInv, PTypes, PRow, ProjectionTypeOK, HoldsRow, HasPage, AtRow
  <2> QED BY <1>3, <2>2, <2>3, <2>4 DEF PInv, PRow
<1>6. CASE doing[r] = "committing" /\ (Unlocked \/ Committed(r))
  <2>1. doing[r] \in AtRow BY <1>6 DEF AtRow
  <2>2. RowTypes' /\ FromOrigin' /\ AppliedInOrder' /\ rowLock = r /\ rowLock' = Nobody
    BY <1>6, <2>1, UnitEnds
  <2>3. \A q \in Runners : HoldsRow(q)' /\ HasPage(q)' BY <1>1, <1>4, <2>2, RowFreed
  <2> QED BY <1>3, <2>2, <2>3 DEF PInv, PRow
<1> QED BY <1>5, <1>6 DEF CommitFails

(* A round of the loop that fails before it has a batch, and a first          *)
(* checkpoint whose answer is lost.                                           *)
LEMMA RoundFailsKeeps ==
  ASSUME ProjectionAssumption, PInv, NEW r \in Runners, RoundFails(r) PROVE PInv'
<1>1. /\ Turns(r, "looping") /\ position' = [position EXCEPT ![r] = Unknown] /\ mishaps' \in Nat
      /\ doing[r] \notin AtRow /\ leaseOf' \in Runners \cup {Nobody}
      /\ UNCHANGED <<target, published, stuck, stopping, size, narrowUntil, latest, leaseHeld>>
  BY DEF RoundFails, Mishap, AtRow, Asks, LeaseAsked, given, PInv, PTypes, ProjectionTypeOK
<1>2. latest[r] \in Nat /\ (UNCHANGED row \/ RowThere(latest[r]))
  BY DEF RoundFails, PInv, PTypes, ProjectionTypeOK
<1>3. /\ RowTypes' /\ FromOrigin' /\ AppliedInOrder' /\ rowLock' = rowLock
      /\ checkpoint # Unknown => checkpoint' = checkpoint
  <2>1. CASE UNCHANGED row BY <2>1, KeptKeeps DEF row, RowKept
  <2>2. CASE RowThere(latest[r]) BY <1>2, <2>2, RowThereKeeps
  <2> QED BY <1>2, <2>1, <2>2
<1>4. PTypes' BY <1>1, <1>3 DEF Turns, PInv, PTypes, ProjectionTypeOK, RowTypes, Unknown
<1>5. ASSUME NEW q \in Runners PROVE HoldsRow(q)' /\ HasPage(q)'
  BY <1>1, <1>3 DEF Turns, PInv, PTypes, PRow, ProjectionTypeOK, HoldsRow, HasPage, AtRow
<1> QED BY <1>3, <1>4, <1>5 DEF PInv, PRow

(* A task that ends where it is.                                              *)
LEMMA LeavesBehindKeeps ==
  ASSUME ProjectionAssumption, PInv, NEW r \in Runners, doing[r] # "down", LeavesBehind(r),
         mishaps' \in Nat, narrowUntil' \in [Runners -> Nat], latest' \in [Runners -> Nat],
         leaseHeld' \in [Runners -> BOOLEAN]
  PROVE  PInv'
<1>1. /\ Turns(r, "down") /\ leaseOf' \in Runners \cup {Nobody} /\ UNCHANGED <<published, stuck>>
      /\ stopping' = [stopping EXCEPT ![r] = FALSE] /\ position' = [position EXCEPT ![r] = Unknown]
      /\ size' = [size EXCEPT ![r] = BatchSize] /\ target' = [target EXCEPT ![r] = 0]
  BY DEF LeavesBehind, Forgets, Asks, LeaseAsked, given, PInv, PTypes, ProjectionTypeOK
<1>2. ASSUME RowTypes', rowLock' \in Runners \cup {Nobody} PROVE PTypes'
  BY <1>1, <1>2, ProjectionAssumption
  DEF ProjectionAssumption, Turns, PInv, PTypes, ProjectionTypeOK, RowTypes, Unknown
<1>3. \A q \in Runners \ {r} : position'[q] = position[q] /\ target'[q] = target[q]
  BY <1>1 DEF PInv, PTypes, ProjectionTypeOK
<1>4. CASE rowLock = r
  <2>1. doing[r] \in AtRow BY <1>4 DEF PInv, PRow, HoldsRow
  <2>2. RowTypes' /\ FromOrigin' /\ AppliedInOrder' /\ rowLock' = Nobody
    BY <1>4, <2>1, UnitEnds DEF LeavesBehind
  <2>3. \A q \in Runners : HoldsRow(q)' /\ HasPage(q)' BY <1>1, <1>3, <1>4, <2>2, RowFreed
  <2> QED BY <1>2, <2>2, <2>3 DEF PInv, PRow
<1>5. CASE rowLock # r
  <2>1. doing[r] \notin AtRow BY <1>5 DEF PInv, PRow, HoldsRow
  <2>2. latest[r] \in Nat /\ (UNCHANGED row \/ RowThere(latest[r]))
    BY <1>5 DEF LeavesBehind, PInv, PTypes, ProjectionTypeOK
  <2>3. /\ RowTypes' /\ FromOrigin' /\ AppliedInOrder' /\ rowLock' = rowLock
        /\ checkpoint # Unknown => checkpoint' = checkpoint
    <3>1. CASE UNCHANGED row BY <3>1, KeptKeeps DEF row, RowKept
    <3>2. CASE RowThere(latest[r]) BY <2>2, <3>2, RowThereKeeps
    <3> QED BY <2>2, <3>1, <3>2
  <2>4. rowLock' \in Runners \cup {Nobody} BY <2>3 DEF PInv, PTypes, ProjectionTypeOK
  <2>5. ASSUME NEW q \in Runners PROVE HoldsRow(q)' /\ HasPage(q)'
    BY <1>1, <1>3, <2>1, <2>3 DEF Turns, PInv, PTypes, PRow, ProjectionTypeOK, HoldsRow, HasPage, AtRow
  <2> QED BY <1>2, <2>3, <2>4, <2>5 DEF PInv, PRow
<1> QED BY <1>4, <1>5

LEMMA StopCancelledKeeps ==
  ASSUME ProjectionAssumption, PInv, NEW r \in Runners, StopCancelled(r) PROVE PInv'
<1>1. /\ mishaps' \in Nat /\ narrowUntil' \in [Runners -> Nat] /\ latest' \in [Runners -> Nat]
      /\ leaseHeld' \in [Runners -> BOOLEAN]
  BY DEF StopCancelled, PInv, PTypes, ProjectionTypeOK
<1>2. doing[r] # "down" /\ LeavesBehind(r) BY DEF StopCancelled
<1> QED BY <1>1, <1>2, LeavesBehindKeeps

LEMMA RunnerCrashesKeeps ==
  ASSUME ProjectionAssumption, PInv, NEW r \in Runners, RunnerCrashes(r) PROVE PInv'
<1>1. /\ mishaps' \in Nat /\ narrowUntil' \in [Runners -> Nat] /\ latest' \in [Runners -> Nat]
      /\ leaseHeld' \in [Runners -> BOOLEAN]
  BY DEF RunnerCrashes, Mishap, PInv, PTypes, ProjectionTypeOK
<1>2. doing[r] # "down" /\ LeavesBehind(r) BY DEF RunnerCrashes
<1> QED BY <1>1, <1>2, LeavesBehindKeeps

LEMMA RebuildsKeeps ==
  ASSUME PInv, Rebuilds PROVE PInv'
<1>1. AppliedInOrder'
  <2>1. checkpoint' = 0 /\ origin' = 0 /\ readModel' = <<>> BY DEF Rebuilds
  <2>2. Span(origin', checkpoint') = <<>> BY <2>1, SpanOfNone
  <2>3. Span(origin', checkpoint') = Span(origin, checkpoint)' BY DEF Span
  <2> QED BY <2>1, <2>2, <2>3 DEF AppliedInOrder
<1>2. FromOrigin' BY DEF Rebuilds, FromOrigin
<1>3. PTypes' BY DEF Rebuilds, Mishap, given, pages, PInv, PTypes, ProjectionTypeOK
<1>4. ASSUME NEW q \in Runners PROVE HoldsRow(q)' /\ HasPage(q)'
  BY DEF Rebuilds, pages, PInv, PRow, HoldsRow, HasPage, AtRow
<1> QED BY <1>1, <1>2, <1>3, <1>4 DEF PInv, PRow

LEMMA PInvInit == ASSUME ProjectionAssumption, ProjectionInit PROVE PInv
<1>1. PTypes BY DEF ProjectionAssumption, ProjectionInit, PTypes, ProjectionTypeOK, Unknown
<1>2. PRow
  BY DEF ProjectionAssumption, ProjectionInit, PRow, FromOrigin, HoldsRow, HasPage, AtRow, Unknown
<1>3. AppliedInOrder BY DEF ProjectionInit, AppliedInOrder
<1> QED BY <1>1, <1>2, <1>3 DEF PInv

LEMMA PInvStutters == ASSUME PInv, UNCHANGED projectionVars PROVE PInv'
<1>1. RowKept BY DEF projectionVars, row, RowKept
<1>2. FromOrigin' /\ AppliedInOrder' BY <1>1, KeptKeeps
<1>3. PTypes' BY DEF projectionVars, row, given, pages, PInv, PTypes, ProjectionTypeOK
<1>4. ASSUME NEW q \in Runners PROVE HoldsRow(q)' /\ HasPage(q)'
  BY DEF projectionVars, row, given, pages, PInv, PRow, HoldsRow, HasPage, AtRow
<1> QED BY <1>2, <1>3, <1>4 DEF PInv, PRow

LEMMA PInvNext == ASSUME ProjectionAssumption, PInv, [ProjectionNext]_projectionVars PROVE PInv'
<1>1. ASSUME NEW r \in Runners, RunnerMoves(r) PROVE PInv'
  <2>1. CASE RunnerStarts(r) BY <1>1, <2>1, RunnerStartsKeeps
  <2>2. CASE HoldsLease(r) BY <1>1, <2>2, HoldsLeaseKeeps
  <2>3. CASE LosesLease(r) BY <1>1, <2>3, LosesLeaseKeeps
  <2>4. CASE AcquiresLease(r) BY <1>1, <2>4, AcquiresLeaseKeeps
  <2>5. CASE StandsBy(r) BY <1>1, <2>5, StandsByKeeps
  <2>6. CASE LoadsCheckpoint(r) BY <1>1, <2>6, LoadsCheckpointKeeps
  <2>7. CASE LoadsAgain(r) BY <1>1, <2>7, LoadsAgainKeeps
  <2>8. CASE ReadsPage(r) BY <1>1, <2>8, ReadsPageKeeps
  <2>9. CASE ClaimsBatch(r) BY <1>1, <2>9, ClaimsBatchKeeps
  <2>10. CASE FindsItMoved(r) BY <1>1, <2>10, FindsItMovedKeeps
  <2>11. CASE HandlesPage(r) BY <1>1, <2>11, HandlesPageKeeps
  <2>12. CASE StuckEventRaises(r) BY <1>1, <2>12, StuckEventRaisesKeeps
  <2>13. CASE CommitsBatch(r) BY <1>1, <2>13, CommitsBatchKeeps
  <2>14. CASE StuckCommitFails(r) BY <1>1, <2>14, StuckCommitFailsKeeps
  <2>15. CASE LoopEnds(r) BY <1>1, <2>15, LoopEndsKeeps
  <2>16. CASE ReleasesLease(r) BY <1>1, <2>16, ReleasesLeaseKeeps
  <2> QED BY <1>1, <2>1, <2>2, <2>3, <2>4, <2>5, <2>6, <2>7, <2>8, <2>9, <2>10, <2>11, <2>12, <2>13, <2>14, <2>15, <2>16 DEF RunnerMoves
<1>2. ASSUME NEW r \in Runners, RunnerFails(r) PROVE PInv'
  <2>1. CASE RoundFails(r) BY <1>2, <2>1, RoundFailsKeeps
  <2>2. CASE EventRaises(r) BY <1>2, <2>2, EventRaisesKeeps
  <2>3. CASE CommitFails(r) BY <1>2, <2>3, CommitFailsKeeps
  <2>4. CASE StopAsked(r) BY <1>2, <2>4, StopAskedKeeps
  <2>5. CASE StopCancelled(r) BY <1>2, <2>5, StopCancelledKeeps
  <2>6. CASE RunnerCrashes(r) BY <1>2, <2>6, RunnerCrashesKeeps
  <2> QED BY <1>2, <2>1, <2>2, <2>3, <2>4, <2>5, <2>6 DEF RunnerFails
<1>3. CASE Publishes BY <1>3, PublishesKeeps
<1>4. CASE LeaseEnds BY <1>4, LeaseEndsKeeps
<1>5. CASE Rebuilds BY <1>5, RebuildsKeeps
<1>6. CASE UNCHANGED projectionVars BY <1>6, PInvStutters
<1> QED BY <1>1, <1>2, <1>3, <1>4, <1>5, <1>6 DEF ProjectionNext

LEMMA PInvAlways == ProjectionSpec => []PInv
<1>1. ProjectionInit => PInv BY ProjectionAssumption, PInvInit
<1>2. PInv /\ [ProjectionNext]_projectionVars => PInv' BY ProjectionAssumption, PInvNext
<1> QED BY <1>1, <1>2, PTL DEF ProjectionSpec

(* Every reachable state of any number of runners is well typed.              *)
THEOREM ProjectionTypes == ProjectionSpec => []ProjectionTypeOK
<1>1. PInv => ProjectionTypeOK BY DEF PInv, PTypes
<1> QED BY <1>1, PInvAlways, PTL

(* What the checkpoint covers is applied once and in order: a runner commits  *)
(* from where the checkpoint is, whichever runner moved it there last         *)
(* (projection.py _apply, checkpoint.py batch).                               *)
THEOREM ProjectionAppliesInOrder == ProjectionSpec => []AppliedInOrder
<1>1. PInv => AppliedInOrder BY DEF PInv
<1> QED BY <1>1, PInvAlways, PTL

-------------------------------------------------------------------------------
(* One execution of an engine. *)

LEMMA EngineTurns ==
  Spec => /\ SagaInit /\ [][SagaNext]_sagaVars
          /\ TccInit /\ [][TccNext]_tccVars
          /\ ProjectionInit /\ [][ProjectionNext]_projectionVars
<1>1. Init => SagaInit /\ TccInit /\ ProjectionInit
  BY DEF Init
<1>2. [SagaTurn \/ TccTurn \/ ProjectionTurn]_vars =>
        [SagaNext]_sagaVars /\ [TccNext]_tccVars /\ [ProjectionNext]_projectionVars
  BY DEF SagaTurn, TccTurn, ProjectionTurn, vars
<1> QED BY <1>1, <1>2, PTL DEF Spec

(* Whichever engine runs, and beside whatever initial state of the others,    *)
(* its state keeps its types.                                                 *)
THEOREM EnginesTypes == Spec => []TypeOK
<1>1. SagaInit /\ [][SagaNext]_sagaVars => []SagaTypeOK
  BY SagaTypes DEF SagaSpec
<1>2. TccInit /\ [][TccNext]_tccVars => []TccTypeOK
  BY TccTypes DEF TccSpec
<1>3. ProjectionInit /\ [][ProjectionNext]_projectionVars => []ProjectionTypeOK
  <2>1. ProjectionInit => PInv
    BY ProjectionAssumption, PInvInit
  <2>2. PInv /\ [ProjectionNext]_projectionVars => PInv'
    BY ProjectionAssumption, PInvNext
  <2>3. PInv => ProjectionTypeOK
    BY DEF PInv, PTypes
  <2> QED BY <2>1, <2>2, <2>3, PTL
<1> QED BY <1>1, <1>2, <1>3, EngineTurns, PTL DEF TypeOK

===============================================================================
