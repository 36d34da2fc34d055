------------------------- MODULE KafkaListener_proof -------------------------
(***************************************************************************)
(* The containers of one consumer group, for any members, partitions,      *)
(* lengths, polls, attempts and mishaps: nothing is skipped, a partition   *)
(* is consumed by one member, and offsets go forward.  Its last theorem is *)
(* of MCConsumers, which runs it beside the outbox's consumers.            *)
(***************************************************************************)
EXTENDS MCConsumers, OutboxStore_proof

-------------------------------------------------------------------------------
(* The inductive invariant: what is behind the offsets. *)

(* What was handled, or is never asked for.                                   *)
Over == handled \cup passed
Behind(p, o) == \A r \in Record : r.p = p /\ r.o < o => r \in Over

Follows(r, s) == r.p = s.p /\ r.o = s.o + 1

(* A record of a poll comes right after the one before it in its partition,   *)
(* or everything before it is over.                                           *)
InOrder(records) ==
  \A i \in DOMAIN records :
    \/ Behind(records[i].p, records[i].o)
    \/ i > 1 /\ Follows(records[i], records[i - 1])

(* Everything before an offset that is to be committed is over, and what the  *)
(* client has fetched of a partition that is the member's is over or in the   *)
(* poll at work.                                                              *)
SkipsNothing(m) ==
  /\ \A p \in Partitions : Behind(p, pending[m][p]) /\ Behind(p, sent[m][p]) /\ Behind(p, told[m][p])
  /\ InOrder(batch[m])
  /\ ~stopping[m] => \A r \in Record : Owns(m, r.p) /\ r.o < position[m][r.p] =>
                        r \in Over \/ \E i \in DOMAIN batch[m] : r = batch[m][i]

(* An eager rebalance takes everything away at once.                          *)
OwnsByTurn(m) ==
  /\ rebalance[m] = "off" <=> task[m] = "down"
  /\ rebalance[m] = "off" => holds[m] = {}
  /\ rebalance[m] \in {"off", "joining"} => assigned[m] = {} /\ revoking[m] = {}
  /\ rebalance[m] = "steady" => assigned[m] = holds[m] /\ revoking[m] = {}
  /\ rebalance[m] \in {"waiting", "telling"} => assigned[m] = holds[m] /\ revoking[m] = holds[m]
  /\ rebalance[m] = "waiting" /\ Busy(m) => Current(m) \in awaited[m]
  /\ \A p \in Partitions : told[m][p] > 0 => rebalance[m] = "telling" /\ p \in holds[m]

(* The inductive invariant: whose a partition is. *)

Holds(m, p) == m \in group /\ rebalance[m] \in {"steady", "waiting", "telling"} /\ p \in holds[m]
Sends(m, p) == task[m] = "committing" /\ ~fenced[m] /\ sent[m][p] > 0
Claims(m, p) == Holds(m, p) \/ Sends(m, p)

(* A partition is held, or committed, by one member of the generation.        *)
OneClaims == \A m, n \in Members, p \in Partitions : Claims(m, p) /\ Claims(n, p) => m = n

(* What a member runs is its own until a rebalance did not wait for it.       *)
RunsItsOwn(m) ==
  /\ m \notin group /\ rebalance[m] \in {"steady", "waiting", "telling"} => overran[m]
  /\ ~overran[m] /\ Busy(m) => rebalance[m] # "telling" /\ \A i \in DOMAIN batch[m] : Holds(m, batch[m][i].p)

(* The inductive invariant: which way the offsets go. *)

(* The records of a partition follow each other in a poll.                    *)
InRuns(records) ==
  \A i, j \in DOMAIN records :
    i < j /\ records[i].p = records[j].p =>
      /\ records[j].o - records[i].o = j - i
      /\ \A k \in i .. j : records[k].p = records[i].p

(* The offsets a member may still commit are of what it holds, are not behind *)
(* the committed one, and are one offset.                                     *)
Ahead(m, p) ==
  /\ pending[m][p] > 0 => Holds(m, p) /\ pending[m][p] >= committed[p]
  /\ told[m][p] > 0 => Holds(m, p) /\ told[m][p] >= committed[p]
  /\ Sends(m, p) => sent[m][p] >= committed[p]
  /\ Sends(m, p) /\ pending[m][p] > 0 => sent[m][p] = pending[m][p]
  /\ Sends(m, p) /\ told[m][p] > 0 => sent[m][p] = told[m][p]
  /\ told[m][p] > 0 /\ pending[m][p] > 0 => told[m][p] = pending[m][p]

(* What it is to run, and to fetch, is ahead of them.                         *)
RunsAhead(m) ==
  /\ \A i \in DOMAIN batch[m] :
       LET r == batch[m][i]
       IN  committed[r.p] <= r.o /\ pending[m][r.p] <= r.o /\ r.o < position[m][r.p]
  /\ \A p \in Partitions : Holds(m, p) =>
       /\ committed[p] <= position[m][p] /\ pending[m][p] <= position[m][p]
       /\ Sends(m, p) => sent[m][p] <= position[m][p]

GoesForward(m) == ~overran[m] => RunsAhead(m) /\ \A p \in Partitions : Ahead(m, p)

MemberInv(m) ==
  SkipsNothing(m) /\ OwnsByTurn(m) /\ RunsItsOwn(m) /\ InRuns(batch[m]) /\ GoesForward(m)

KInv ==
  /\ ListenerTypeOK
  /\ \A p \in Partitions : Behind(p, committed[p])
  /\ OneClaims
  /\ \A m \in Members : MemberInv(m)

-------------------------------------------------------------------------------
(* Operators of the model. *)

LEMMA Sizes == Length \in Nat \ {0} /\ MaxPoll \in Nat \ {0} /\ MaxAttempts \in Nat \ {0} /\ MaxMishaps \in Nat
  BY ListenerAssumption DEF ListenerAssumption

LEMMA KeepIs ==
  ASSUME NEW o \in Offsets, NEW ps
  PROVE  /\ Keep(o, ps) \in Offsets
         /\ \A p \in Partitions : Keep(o, ps)[p] = IF p \in ps THEN o[p] ELSE 0
  BY Sizes DEF Keep, Offsets

LEMMA NoneIs == None \in Offsets /\ \A p \in Partitions : None[p] = 0
  BY Sizes DEF None, Offsets

LEMMA NotNone ==
  ASSUME NEW o \in Offsets
  PROVE  (o # None) <=> \E p \in Partitions : o[p] > 0
<1>1. (\A p \in Partitions : o[p] = 0) => o = None
  BY DEF None, Offsets
<1> QED BY <1>1, NoneIs, Sizes DEF Offsets

LEMMA RecordIs ==
  ASSUME NEW r \in Record
  PROVE  r.p \in Partitions /\ r.o \in 0 .. Length - 1 /\ r.o \in Nat /\ r = [p |-> r.p, o |-> r.o]
  BY Sizes DEF Record

LEMMA SameRecord ==
  ASSUME NEW r \in Record, NEW s \in Record, r.p = s.p, r.o = s.o
  PROVE  r = s
  BY RecordIs

LEMMA Smallest ==
  ASSUME NEW S \in SUBSET Nat, S # {}
  PROVE  \E x \in S : \A y \in S : x <= y
<1> DEFINE R == OpToRel(<, Nat)
<1>1. \A x, y \in Nat : <<y, x>> \in R <=> y < x
  BY Zenon DEF OpToRel
<1>2. IsWellFoundedOn(R, Nat)
  BY NatLessThanWellFounded, Zenon
<1> HIDE DEF R
<1>3. PICK x \in S : \A y \in S : <<y, x>> \notin R
  BY <1>2, WFMin, Zenon
<1>4. \A y \in S : ~(y < x)
  BY <1>1, <1>3, Zenon
<1> QED BY <1>4

LEMMA MinIs ==
  ASSUME NEW S \in SUBSET Nat, S # {}
  PROVE  Min(S) \in S /\ \A x \in S : Min(S) <= x
<1>1. \E x \in S : \A y \in S : x <= y
  BY Smallest
<1> QED BY <1>1 DEF Min

LEMMA MaxIs ==
  ASSUME NEW a \in Nat, NEW b \in Nat
  PROVE  Max({a, b}) = IF a < b THEN b ELSE a
<1>1. \E x \in {a, b} : \A y \in {a, b} : x >= y
  BY SMT
<1>2. Max({a, b}) \in {a, b} /\ \A y \in {a, b} : Max({a, b}) >= y
  BY <1>1 DEF Max
<1> QED BY <1>2

(* A suffix of a sequence: what is left when its first d elements are dropped. *)
Drops(s, t, d) ==
  /\ d \in 0 .. Len(s) /\ Len(t) = Len(s) - d
  /\ \A i \in 1 .. Len(t) : t[i] = s[i + d]

(* What From leaves is what comes from the first of the places on.            *)
LEMMA FromIs ==
  ASSUME NEW S, NEW s \in Seq(S), NEW at \in SUBSET DOMAIN s
  PROVE  /\ From(s, at) \in Seq(S)
         /\ at = {} <=> From(s, at) = <<>>
         /\ \E d \in 0 .. Len(s) :
              /\ Drops(s, From(s, at), d)
              /\ at # {} => d + 1 \in at
              /\ \A j \in 1 .. d : j \notin at
<1>1. CASE at = {}
  <2>1. From(s, at) = <<>>
    BY <1>1 DEF From
  <2>2. Len(s) \in 0 .. Len(s) /\ Drops(s, <<>>, Len(s))
    BY DEF Drops
  <2>3. <<>> \in Seq(S) /\ \A j \in 1 .. Len(s) : j \notin at
    BY <1>1
  <2> QED BY <1>1, <2>1, <2>2, <2>3
<1>2. CASE at # {}
  <2> DEFINE k == Min(at)
  <2>1. k \in at /\ \A j \in at : k <= j
    BY <1>2, MinIs
  <2>2. k \in 1 .. Len(s)
    BY <2>1
  <2>3. From(s, at) = SubSeq(s, k, Len(s))
    BY <1>2 DEF From
  <2> HIDE DEF k
  <2>4. SubSeq(s, k, Len(s)) = [i \in 1 .. Len(s) - k + 1 |-> s[i + k - 1]]
    BY <2>2
  <2>5. From(s, at) \in Seq(S)
    BY <2>2, <2>3
  <2>6. Len(From(s, at)) = Len(s) - k + 1 /\ \A i \in 1 .. Len(From(s, at)) : From(s, at)[i] = s[i + k - 1]
    BY <2>2, <2>3, <2>4
  <2>7. Drops(s, From(s, at), k - 1)
    BY <2>2, <2>6 DEF Drops
  <2>8. k - 1 \in 0 .. Len(s) /\ (k - 1) + 1 \in at /\ \A j \in 1 .. k - 1 : j \notin at
    BY <2>1, <2>2
  <2>9. From(s, at) # <<>>
    BY <2>2, <2>6
  <2> QED BY <1>2, <2>5, <2>7, <2>8, <2>9
<1> QED BY <1>1, <1>2

-------------------------------------------------------------------------------
(* Types. *)

BrokerTypes ==
  /\ end \in Offsets /\ committed \in [Partitions -> -1 .. Length] /\ reached \in Offsets
  /\ group \subseteq Members /\ forming \in BOOLEAN /\ reset \in Resets
  /\ handled \subseteq Record /\ passed \subseteq Record /\ mishaps \in 0 .. MaxMishaps

FlowTypes ==
  /\ task \in [Members -> {"down", "polling", "handling", "burying", "committing", "closing"}]
  /\ batch \in [Members -> Seq(Record)]
  /\ pending \in [Members -> Offsets] /\ sent \in [Members -> Offsets] /\ fenced \in [Members -> BOOLEAN]
  /\ \A m \in Members : /\ Len(batch[m]) <= MaxPoll
                        /\ (batch[m] # <<>>) = Busy(m)
                        /\ (sent[m] # None) = (task[m] = "committing")

RetryTypes ==
  /\ stopping \in [Members -> BOOLEAN]
  /\ failures \in [Members -> [Record -> 0 .. MaxAttempts - 1]]
  /\ recovering \in [Members -> SUBSET Record]
  /\ resumes \in [Members -> SUBSET Partitions]

ClientTypes ==
  /\ overran \in [Members -> BOOLEAN]
  /\ told \in [Members -> Offsets] /\ position \in [Members -> Offsets]
  /\ awaited \in [Members -> SUBSET Record]
  /\ assigned \in [Members -> SUBSET Partitions] /\ revoking \in [Members -> SUBSET Partitions]
  /\ holds \in [Members -> SUBSET Partitions] /\ paused \in [Members -> SUBSET Partitions]
  /\ \A m \in Members : assigned[m] \subseteq holds[m] /\ revoking[m] \subseteq holds[m]
  /\ rebalance \in [Members -> {"off", "steady", "waiting", "telling", "joining"}]

LEMMA TypeParts == ListenerTypeOK <=> BrokerTypes /\ FlowTypes /\ RetryTypes /\ ClientTypes
<1>1. ListenerTypeOK => BrokerTypes /\ FlowTypes
  BY Zenon DEF ListenerTypeOK, BrokerTypes, FlowTypes
<1>2. ListenerTypeOK => RetryTypes
  BY DEF ListenerTypeOK, RetryTypes
<1>3. ListenerTypeOK => ClientTypes
  BY DEF ListenerTypeOK, ClientTypes
<1>4. BrokerTypes /\ FlowTypes /\ RetryTypes /\ ClientTypes => ListenerTypeOK
  BY DEF ListenerTypeOK, BrokerTypes, FlowTypes, RetryTypes, ClientTypes
<1> QED BY <1>1, <1>2, <1>3, <1>4

LEMMA TypesAfter ==
  ASSUME BrokerTypes', FlowTypes', RetryTypes', ClientTypes'
  PROVE  ListenerTypeOK'
  BY DEF ListenerTypeOK, BrokerTypes, FlowTypes, RetryTypes, ClientTypes

LEMMA SameBroker ==
  ASSUME BrokerTypes, UNCHANGED <<end, committed, reached, group, forming, reset, handled, passed, mishaps>>
  PROVE  BrokerTypes'
  BY DEF BrokerTypes

LEMMA SameFlow ==
  ASSUME FlowTypes, UNCHANGED <<task, batch, pending, sent, fenced>>
  PROVE  FlowTypes'
  BY DEF FlowTypes, Busy

LEMMA SameRetry ==
  ASSUME RetryTypes, UNCHANGED <<stopping, failures, recovering, resumes>>
  PROVE  RetryTypes'
  BY DEF RetryTypes

LEMMA SameClient ==
  ASSUME ClientTypes, UNCHANGED <<clientVars, overran>>
  PROVE  ClientTypes'
  BY DEF ClientTypes, clientVars

(* How the loop goes on: the poll is done, or its next record starts.         *)
Goes(m, next, offsets) ==
  /\ batch' = [batch EXCEPT ![m] = next] /\ pending' = [pending EXCEPT ![m] = offsets]
  /\ \/ task' = [task EXCEPT ![m] = "burying"]
     \/ task' = [task EXCEPT ![m] = "handling"]
  /\ UNCHANGED <<sent, fenced>>

LEMMA GoesOnIs ==
  ASSUME NEW m \in Members, NEW rest \in Seq(Record), NEW offsets, GoesOn(m, rest, offsets)
  PROVE  \/ EndsPoll(m, offsets) /\ (stopping[m] \/ \A i \in 1 .. Len(rest) : ~Owns(m, rest[i].p))
         \/ /\ ~stopping[m]
            /\ \E next \in Seq(Record), d \in 0 .. Len(rest) :
                  /\ next # <<>> /\ Drops(rest, next, d) /\ Owns(m, next[1].p)
                  /\ \A i \in 1 .. d : ~Owns(m, rest[i].p)
                  /\ Goes(m, next, offsets)
<1> DEFINE at == {i \in DOMAIN rest : Owns(m, rest[i].p)}
           next == From(rest, at)
<1>1. /\ next \in Seq(Record) /\ (at = {} <=> next = <<>>)
      /\ \E d \in 0 .. Len(rest) :
           /\ Drops(rest, next, d)
           /\ at # {} => d + 1 \in at
           /\ \A j \in 1 .. d : j \notin at
  <2>1. at \in SUBSET DOMAIN rest
    OBVIOUS
  <2> HIDE DEF at
  <2> QED BY <2>1, FromIs
<1>2. CASE stopping[m] \/ next = <<>>
  <2>1. EndsPoll(m, offsets)
    BY <1>2 DEF GoesOn
  <2>2. next = <<>> => \A i \in 1 .. Len(rest) : ~Owns(m, rest[i].p)
    BY <1>1
  <2> QED BY <1>2, <2>1, <2>2
<1>3. CASE ~(stopping[m] \/ next = <<>>)
  <2>1. Goes(m, next, offsets)
    BY <1>3 DEF GoesOn, Goes
  <2>2. PICK d \in 0 .. Len(rest) : Drops(rest, next, d) /\ d + 1 \in at /\ \A j \in 1 .. d : j \notin at
    BY <1>1, <1>3
  <2>3. next[1] = rest[d + 1]
    BY <1>1, <1>3, <2>2 DEF Drops
  <2>4. Owns(m, next[1].p) /\ \A i \in 1 .. d : ~Owns(m, rest[i].p)
    BY <2>2, <2>3
  <2> HIDE DEF next
  <2> QED BY <1>1, <1>3, <2>1, <2>2, <2>4
<1> QED BY <1>2, <1>3

LEMMA GoesOnFlow ==
  ASSUME FlowTypes, NEW m \in Members, NEW rest \in Seq(Record), Len(rest) <= MaxPoll, NEW offsets \in Offsets,
         Busy(m) \/ task[m] = "polling", GoesOn(m, rest, offsets)
  PROVE  FlowTypes'
<1>1. CASE EndsPoll(m, offsets)
  <2> DEFINE kept == Keep(offsets, assigned[m])
  <2>1. kept \in Offsets
    BY KeepIs
  <2> HIDE DEF kept
  <2>2. /\ batch' = [batch EXCEPT ![m] = <<>>] /\ pending' = [pending EXCEPT ![m] = kept]
        /\ sent' = [sent EXCEPT ![m] = kept] /\ fenced' = [fenced EXCEPT ![m] = kept # None /\ m \notin group]
        /\ task' = [task EXCEPT ![m] = IF kept # None THEN "committing"
                                       ELSE IF stopping[m] THEN "closing" ELSE "polling"]
    BY <1>1, Zenon DEF EndsPoll, kept
  <2> QED BY <2>1, <2>2, Sizes DEF FlowTypes, Busy
<1>2. ASSUME NEW next \in Seq(Record), NEW d \in 0 .. Len(rest), next # <<>>, Drops(rest, next, d), Goes(m, next, offsets)
      PROVE  FlowTypes'
  <2>1. Len(next) <= MaxPoll
    BY <1>2, Sizes DEF Drops
  <2>2. sent[m] = None
    BY DEF FlowTypes, Busy
  <2> QED BY <1>2, <2>1, <2>2 DEF FlowTypes, Goes, Busy
<1> QED BY <1>1, <1>2, GoesOnIs

-------------------------------------------------------------------------------
(* A step of one member. *)

(* What the invariant reads of a member is as it was.                         *)
Same(n) ==
  /\ task'[n] = task[n] /\ stopping'[n] = stopping[n] /\ batch'[n] = batch[n]
  /\ pending'[n] = pending[n] /\ sent'[n] = sent[n] /\ fenced'[n] = fenced[n]
  /\ rebalance'[n] = rebalance[n] /\ awaited'[n] = awaited[n] /\ told'[n] = told[n]
  /\ assigned'[n] = assigned[n] /\ revoking'[n] = revoking[n] /\ holds'[n] = holds[n]
  /\ position'[n] = position[n] /\ overran'[n] = overran[n]
  /\ n \in group' <=> n \in group

LEMMA InvTypes ==
  ASSUME KInv
  PROVE  BrokerTypes /\ FlowTypes /\ RetryTypes /\ ClientTypes
  BY TypeParts DEF KInv

LEMMA InFlight ==
  ASSUME FlowTypes, NEW m \in Members, Busy(m)
  PROVE  /\ batch[m] \in Seq(Record) /\ Len(batch[m]) \in 1 .. MaxPoll
         /\ Current(m) = batch[m][1] /\ Current(m) \in Record
         /\ Tail(batch[m]) \in Seq(Record) /\ Drops(batch[m], Tail(batch[m]), 1)
<1>1. batch[m] \in Seq(Record) /\ Len(batch[m]) <= MaxPoll /\ batch[m] # <<>>
  BY DEF FlowTypes
<1> DEFINE b == batch[m]
<1>2. b \in Seq(Record) /\ b # <<>> /\ Len(b) <= MaxPoll /\ Current(m) = Head(b)
  BY <1>1 DEF Current
<1> HIDE DEF b
<1>3. Head(b) = b[1] /\ b[1] \in Record /\ Len(b) \in 1 .. MaxPoll
  BY <1>2, Sizes
<1>4. Tail(b) \in Seq(Record) /\ Drops(b, Tail(b), 1)
  BY <1>2 DEF Drops
<1> QED BY <1>2, <1>3, <1>4 DEF b

LEMMA OverStays ==
  ASSUME Over \subseteq Over', NEW p, NEW o, Behind(p, o)
  PROVE  Behind(p, o)'
  BY DEF Behind

LEMMA OrderStays ==
  ASSUME Over \subseteq Over', NEW records, InOrder(records)
  PROVE  InOrder(records)'
  BY DEF InOrder, Behind

(* A member that is left alone keeps its part, while others commit what they  *)
(* claim.                                                                     *)
LEMMA LeftAlone ==
  ASSUME KInv, NEW n \in Members, Same(n), Over \subseteq Over',
         \A p \in Partitions : committed'[p] = committed[p] \/ ~Claims(n, p)
  PROVE  MemberInv(n)'
<1>1. SkipsNothing(n)'
  BY DEF KInv, MemberInv, SkipsNothing, InOrder, Behind, Same, Owns
<1>2. OwnsByTurn(n)'
  BY DEF KInv, MemberInv, OwnsByTurn, Same, Busy, Current
<1>3. Busy(n)' = Busy(n) /\ (\A p : Holds(n, p)' <=> Holds(n, p)) /\ (\A p : Sends(n, p)' <=> Sends(n, p))
  BY DEF Same, Busy, Holds, Sends
<1>4. RunsItsOwn(n)'
  BY <1>3 DEF KInv, MemberInv, RunsItsOwn, Same
<1>5. InRuns(batch[n])'
  BY DEF KInv, MemberInv, InRuns, Same
<1>6. ASSUME ~overran[n]
      PROVE  RunsAhead(n)' /\ \A p \in Partitions : Ahead(n, p)'
  <2>1. RunsAhead(n) /\ \A p \in Partitions : Ahead(n, p)
    BY <1>6 DEF KInv, MemberInv, GoesForward
  <2>2. \A i \in DOMAIN batch[n] : batch[n][i] \in Record /\ Holds(n, batch[n][i].p)
    <3>1. batch[n] \in Seq(Record) /\ (batch[n] # <<>> <=> Busy(n))
      BY InvTypes DEF FlowTypes
    <3>2. Busy(n) => \A i \in DOMAIN batch[n] : Holds(n, batch[n][i].p)
      BY <1>6 DEF KInv, MemberInv, RunsItsOwn
    <3> QED BY <3>1, <3>2
  <2>3. \A i \in DOMAIN batch[n] : committed'[batch[n][i].p] = committed[batch[n][i].p]
    BY <2>2, RecordIs DEF Claims
  <2>4. RunsAhead(n)'
    <3>1. \A i \in DOMAIN batch[n] : LET r == batch[n][i]
                                     IN  committed'[r.p] <= r.o /\ pending'[n][r.p] <= r.o /\ r.o < position'[n][r.p]
      BY <2>1, <2>3 DEF RunsAhead, Same
    <3>2. \A p \in Partitions : Holds(n, p) =>
            /\ committed'[p] <= position'[n][p] /\ pending'[n][p] <= position'[n][p]
            /\ Sends(n, p) => sent'[n][p] <= position'[n][p]
      BY <2>1 DEF RunsAhead, Same, Claims
    <3> QED BY <1>3, <3>1, <3>2 DEF RunsAhead, Same
  <2>5. ASSUME NEW p \in Partitions
        PROVE  Ahead(n, p)'
    <3>1. Ahead(n, p)
      BY <2>1
    <3>2. Holds(n, p) \/ Sends(n, p) => committed'[p] = committed[p]
      BY DEF Claims
    <3> QED BY <1>3, <3>1, <3>2 DEF Ahead, Same
  <2> QED BY <2>4, <2>5
<1>7. GoesForward(n)'
  BY <1>6 DEF GoesForward, Same
<1> QED BY <1>1, <1>2, <1>4, <1>5, <1>7 DEF MemberInv

(* What is to be shown of a step of m: its types, its own part, and that it   *)
(* claims nothing more and commits only what it claims and is over.           *)
LEMMA StepOfOne ==
  ASSUME KInv, NEW m \in Members, ListenerTypeOK',
         \A n \in Members \ {m} : Same(n),
         Over \subseteq Over',
         \A p \in Partitions : Claims(m, p)' => Claims(m, p),
         \A p \in Partitions : committed'[p] = committed[p] \/ (Claims(m, p) /\ Behind(p, committed[p])'),
         MemberInv(m)'
  PROVE  KInv'
<1>1. \A n \in Members : MemberInv(n)'
  <2>1. ASSUME NEW n \in Members \ {m}
        PROVE  MemberInv(n)'
    <3>1. \A p \in Partitions : committed'[p] = committed[p] \/ ~Claims(n, p)
      BY DEF KInv, OneClaims
    <3> QED BY <3>1, LeftAlone
  <2> QED BY <2>1
<1>2. \A n \in Members, p \in Partitions : Claims(n, p)' => Claims(n, p)
  BY DEF Claims, Holds, Sends, Same
<1>3. OneClaims'
  BY <1>2 DEF KInv, OneClaims
<1>4. \A p \in Partitions : Behind(p, committed[p])'
  BY DEF KInv, Behind
<1> QED BY <1>1, <1>3, <1>4 DEF KInv

(* Start and stop. *)

LEMMA GoneKeeps ==
  ASSUME KInv, NEW m \in Members, Gone(m), BrokerTypes', Over \subseteq Over',
         \A n \in Members \ {m} : n \in group' <=> n \in group,
         \A p \in Partitions : committed'[p] = committed[p] \/ (Claims(m, p) /\ Behind(p, committed[p])')
  PROVE  KInv'
<1> USE InvTypes
<1>1. FlowTypes'
  <2>1. /\ task' = [task EXCEPT ![m] = "down"] /\ batch' = [batch EXCEPT ![m] = <<>>]
        /\ pending' = [pending EXCEPT ![m] = None] /\ sent' = [sent EXCEPT ![m] = None]
        /\ fenced' = [fenced EXCEPT ![m] = FALSE]
    BY Zenon DEF Gone, Answered
  <2>2. None \in Offsets
    BY NoneIs
  <2> QED BY <2>1, <2>2, Sizes DEF FlowTypes, Busy
<1>2. RetryTypes'
  BY Sizes DEF RetryTypes, Gone, NoFailures
<1>3. ClientTypes'
  BY NoneIs DEF ClientTypes, Gone
<1>4. \A n \in Members \ {m} : Same(n)
  BY DEF FlowTypes, RetryTypes, ClientTypes, Gone, Answered, Same
<1>5. /\ task'[m] = "down" /\ batch'[m] = <<>> /\ pending'[m] = None /\ sent'[m] = None /\ ~overran'[m]
      /\ rebalance'[m] = "off" /\ told'[m] = None /\ holds'[m] = {} /\ assigned'[m] = {} /\ revoking'[m] = {}
  BY DEF FlowTypes, ClientTypes, Gone, Answered
<1>6. MemberInv(m)'
  <2>1. SkipsNothing(m)'
    BY <1>5, NoneIs, RecordIs DEF SkipsNothing, Behind, InOrder, Owns
  <2>2. OwnsByTurn(m)'
    BY <1>5, NoneIs DEF OwnsByTurn, Busy
  <2>3. RunsItsOwn(m)' /\ InRuns(batch[m])'
    BY <1>5 DEF RunsItsOwn, InRuns, Busy
  <2>4. GoesForward(m)'
    BY <1>5, NoneIs DEF GoesForward, RunsAhead, Ahead, Holds, Sends
  <2> QED BY <2>1, <2>2, <2>3, <2>4 DEF MemberInv
<1>7. \A p \in Partitions : ~Claims(m, p)'
  BY <1>5 DEF Claims, Holds, Sends
<1>8. ListenerTypeOK'
  BY <1>1, <1>2, <1>3, TypesAfter
<1> QED BY <1>4, <1>6, <1>7, <1>8, StepOfOne

(* A commit takes what it is given, and it may be taken only if it is         *)
(* claimed.                                                                   *)
LEMMA CommitTypes ==
  ASSUME BrokerTypes, NEW m, NEW offsets \in Offsets, Commit(m, offsets)
  PROVE  /\ committed' \in [Partitions -> -1 .. Length] /\ reached' \in Offsets
         /\ \A p \in Partitions : committed'[p] = IF offsets[p] > 0 THEN offsets[p] ELSE committed[p]
<1>1. \A p \in Partitions : offsets[p] \in 0 .. Length /\ reached[p] \in 0 .. Length
  BY DEF BrokerTypes, Offsets
<1>2. ASSUME NEW p \in Partitions PROVE Max({reached[p], offsets[p]}) \in 0 .. Length
  <2>1. reached[p] \in 0 .. Length /\ offsets[p] \in 0 .. Length
    BY <1>1
  <2>2. reached[p] \in Nat /\ offsets[p] \in Nat
    BY <2>1, Sizes
  <2>3. Max({reached[p], offsets[p]}) \in {reached[p], offsets[p]}
    BY <2>2, MaxIs
  <2> QED BY <2>1, <2>3
<1>3. reached' \in Offsets
  BY <1>2 DEF Commit, Offsets
<1>4. committed' \in [Partitions -> -1 .. Length]
  BY <1>1, Sizes DEF Commit, BrokerTypes
<1> QED BY <1>3, <1>4 DEF Commit

LEMMA StartsKeeps ==
  ASSUME KInv, NEW m \in Members, Starts(m)
  PROVE  KInv'
<1> USE InvTypes
<1>1. BrokerTypes'
  BY DEF Starts, BrokerTypes
<1>2. FlowTypes'
  BY DEF Starts, FlowTypes, Busy
<1>3. RetryTypes' /\ ClientTypes'
  BY DEF Starts, RetryTypes, ClientTypes
<1>4. \A n \in Members \ {m} : Same(n)
  BY DEF FlowTypes, ClientTypes, Starts, Same
<1>5. /\ task[m] = "down" /\ task'[m] = "polling" /\ batch[m] = <<>> /\ rebalance'[m] = "joining" /\ rebalance[m] = "off"
      /\ UNCHANGED <<pending, sent, told, holds, assigned, revoking, overran, batch, position, stopping, committed, handled, passed>>
  BY DEF FlowTypes, ClientTypes, Starts, KInv, MemberInv, OwnsByTurn, Busy
<1>6. MemberInv(m) /\ told'[m] = told[m] /\ \A p \in Partitions : told[m][p] \in Nat
  BY <1>5 DEF KInv, ClientTypes, Offsets
<1>7. MemberInv(m)'
  <2>1. SkipsNothing(m)'
    BY <1>5, <1>6 DEF MemberInv, SkipsNothing, Behind, InOrder, Owns, Over
  <2>2. OwnsByTurn(m)'
    BY <1>5, <1>6 DEF MemberInv, OwnsByTurn, Busy
  <2>3. RunsItsOwn(m)' /\ InRuns(batch[m])'
    BY <1>5, <1>6 DEF MemberInv, RunsItsOwn, InRuns, Busy
  <2>4. GoesForward(m)'
    BY <1>5, <1>6 DEF MemberInv, GoesForward, RunsAhead, Ahead, Holds, Sends
  <2> QED BY <2>1, <2>2, <2>3, <2>4 DEF MemberInv
<1>8. \A p \in Partitions : ~Claims(m, p)'
  BY <1>5 DEF Claims, Holds, Sends
<1>9. ListenerTypeOK' /\ Over \subseteq Over'
  BY <1>1, <1>2, <1>3, <1>5, TypesAfter DEF Over
<1> QED BY <1>4, <1>5, <1>7, <1>8, <1>9, StepOfOne

LEMMA CrashesKeeps ==
  ASSUME KInv, NEW m \in Members, Crashes(m)
  PROVE  KInv'
<1>1. BrokerTypes'
  BY InvTypes, Sizes DEF Crashes, BrokerTypes, brokerVars, Mishap
<1>2. Gone(m) /\ UNCHANGED <<group, committed>> /\ Over' = Over
  BY DEF Crashes, brokerVars, Over
<1> QED BY <1>1, <1>2, GoneKeeps

LEMMA ClosesKeeps ==
  ASSUME KInv, NEW m \in Members, NEW took \in BOOLEAN, Closes(m, took)
  PROVE  KInv'
<1> USE InvTypes
<1> DEFINE offsets == Keep(pending[m], assigned[m])
<1>1. offsets \in Offsets /\ \A p \in Partitions : offsets[p] = IF p \in assigned[m] THEN pending[m][p] ELSE 0
  BY KeepIs DEF FlowTypes
<1>2. /\ took => m \in group
      /\ IF took THEN Commit(m, offsets) ELSE UNCHANGED <<committed, reached>>
      /\ Gone(m) /\ group' = group \ {m} /\ UNCHANGED <<end, reset, handled, passed>>
      /\ forming' = (forming \/ m \in group) /\ mishaps' \in 0 .. MaxMishaps
  BY Sizes DEF Closes, BrokerTypes, Mishap
<1> HIDE DEF offsets
<1>3. BrokerTypes'
  BY <1>1, <1>2, CommitTypes DEF BrokerTypes
<1>4. ASSUME NEW p \in Partitions, committed'[p] # committed[p]
      PROVE  Claims(m, p) /\ Behind(p, committed[p])'
  <2>1. took /\ p \in assigned[m] /\ committed'[p] = pending[m][p]
    BY <1>1, <1>2, <1>4, CommitTypes
  <2>2. Holds(m, p)
    BY <1>2, <2>1 DEF KInv, MemberInv, OwnsByTurn, Holds, ClientTypes
  <2>3. Behind(p, pending[m][p])
    BY DEF KInv, MemberInv, SkipsNothing
  <2> QED BY <1>2, <2>1, <2>2, <2>3 DEF Claims, Behind, Over
<1>5. Over \subseteq Over'
  BY <1>2 DEF Over
<1> QED BY <1>2, <1>3, <1>4, <1>5, GoneKeeps

LEMMA SessionEndsKeeps ==
  ASSUME KInv, NEW m \in Members, SessionEnds(m)
  PROVE  KInv'
<1> USE InvTypes
<1>1. /\ task[m] = "down" /\ group' = group \ {m} /\ forming' = TRUE
      /\ UNCHANGED <<end, committed, reached, reset, handled, passed, mishaps, loopVars, clientVars, overran>>
  BY DEF SessionEnds
<1>2. ListenerTypeOK'
  <2>1. BrokerTypes'
    BY <1>1 DEF BrokerTypes
  <2>2. FlowTypes' /\ RetryTypes' /\ ClientTypes'
    BY <1>1, SameFlow, SameRetry, SameClient DEF loopVars
  <2> QED BY <2>1, <2>2, TypesAfter
<1>3. rebalance[m] = "off" /\ ~Busy(m) /\ MemberInv(m)
  BY <1>1 DEF KInv, MemberInv, OwnsByTurn, Busy
<1>4. MemberInv(m)'
  <2>1. SkipsNothing(m)'
    BY <1>1, <1>3 DEF MemberInv, SkipsNothing, Behind, InOrder, Owns, Over, loopVars, clientVars
  <2>2. OwnsByTurn(m)'
    BY <1>1, <1>3 DEF MemberInv, OwnsByTurn, Busy, loopVars, clientVars
  <2>3. RunsItsOwn(m)' /\ InRuns(batch[m])'
    BY <1>1, <1>3 DEF MemberInv, RunsItsOwn, InRuns, Busy, loopVars, clientVars
  <2>4. GoesForward(m)'
    BY <1>1, <1>3 DEF MemberInv, GoesForward, RunsAhead, Ahead, Holds, Sends, loopVars, clientVars
  <2> QED BY <2>1, <2>2, <2>3, <2>4 DEF MemberInv
<1>5. \A n \in Members \ {m} : Same(n)
  BY <1>1 DEF Same, loopVars, clientVars
<1>6. \A p \in Partitions : Claims(m, p)' => Claims(m, p)
  BY <1>1, <1>3 DEF Claims, Holds, Sends, loopVars, clientVars
<1>7. Over \subseteq Over'
  BY <1>1 DEF Over
<1> QED BY <1>1, <1>2, <1>4, <1>5, <1>6, <1>7, StepOfOne

(* Steps that touch no member, and what the coordinator and the broker do to  *)
(* one.                                                                       *)

LEMMA StepOfNone ==
  ASSUME KInv, ListenerTypeOK', \A n \in Members : Same(n), Over \subseteq Over', committed' = committed
  PROVE  KInv'
<1>1. \A n \in Members : MemberInv(n)'
  BY LeftAlone
<1>2. OneClaims'
  BY DEF KInv, OneClaims, Claims, Holds, Sends, Same
<1>3. \A p \in Partitions : Behind(p, committed[p])'
  BY DEF KInv, Behind
<1> QED BY <1>1, <1>2, <1>3 DEF KInv

LEMMA RebalancesKeeps ==
  ASSUME KInv, Rebalances
  PROVE  KInv'
<1> USE InvTypes
<1>1. /\ forming' = TRUE /\ mishaps' \in 0 .. MaxMishaps
      /\ UNCHANGED <<end, committed, reached, group, reset, handled, passed, loopVars, clientVars, overran>>
  BY Sizes DEF Rebalances, Mishap, BrokerTypes
<1>2. BrokerTypes'
  BY <1>1 DEF BrokerTypes
<1>3. FlowTypes' /\ RetryTypes' /\ ClientTypes'
  BY <1>1, SameFlow, SameRetry, SameClient DEF loopVars
<1>4. \A n \in Members : Same(n)
  BY <1>1 DEF Same, loopVars, clientVars
<1> QED BY <1>1, <1>2, <1>3, <1>4, TypesAfter, StepOfNone DEF Over

LEMMA AppendsKeeps ==
  ASSUME KInv, NEW p \in Partitions, Appends(p)
  PROVE  KInv'
<1> USE InvTypes
<1>1. /\ end' = [end EXCEPT ![p] = @ + 1] /\ end[p] < Length
      /\ UNCHANGED <<committed, reached, group, forming, reset, handled, passed, mishaps, loopVars, clientVars, overran>>
  BY DEF Appends
<1>2. BrokerTypes'
  BY <1>1, Sizes DEF BrokerTypes, Offsets
<1>3. FlowTypes' /\ RetryTypes' /\ ClientTypes'
  BY <1>1, SameFlow, SameRetry, SameClient DEF loopVars
<1>4. \A n \in Members : Same(n)
  BY <1>1 DEF Same, loopVars, clientVars
<1> QED BY <1>1, <1>2, <1>3, <1>4, TypesAfter, StepOfNone DEF Over

LEMMA UnchangedKeeps ==
  ASSUME KInv, UNCHANGED listenerVars
  PROVE  KInv'
<1> USE InvTypes
<1>1. UNCHANGED <<end, committed, reached, group, forming, reset, handled, passed, mishaps, loopVars, clientVars, overran>>
  BY DEF listenerVars, brokerVars
<1>2. BrokerTypes' /\ FlowTypes' /\ RetryTypes' /\ ClientTypes'
  BY <1>1, SameBroker, SameFlow, SameRetry, SameClient DEF loopVars
<1>3. \A n \in Members : Same(n)
  BY <1>1 DEF Same, loopVars, clientVars
<1> QED BY <1>1, <1>2, <1>3, TypesAfter, StepOfNone DEF Over

LEMMA EvictsKeeps ==
  ASSUME KInv, NEW m \in Members, Evicts(m)
  PROVE  KInv'
<1> USE InvTypes
<1>1. /\ group' = group \ {m} /\ forming' = TRUE /\ mishaps' \in 0 .. MaxMishaps
      /\ fenced' = [fenced EXCEPT ![m] = task[m] = "committing"]
      /\ overran' = [overran EXCEPT ![m] = TRUE]
      /\ UNCHANGED <<end, committed, reached, reset, handled, passed, task, stopping, batch, pending, sent, failures,
                     recovering, resumes, rebalance, awaited, told, assigned, revoking, holds, position, paused>>
  BY Sizes DEF Evicts, Mishap, BrokerTypes, clientVars
<1>2. BrokerTypes'
  BY <1>1 DEF BrokerTypes
<1>3. FlowTypes'
  BY <1>1 DEF FlowTypes, Busy
<1>4. RetryTypes' /\ ClientTypes'
  BY <1>1 DEF RetryTypes, ClientTypes
<1>5. MemberInv(m) /\ overran'[m] /\ fenced'[m] = (task[m] = "committing")
  BY <1>1 DEF KInv, FlowTypes, ClientTypes
<1>6. MemberInv(m)'
  <2>1. SkipsNothing(m)'
    BY <1>1, <1>5 DEF MemberInv, SkipsNothing, Behind, InOrder, Owns, Over
  <2>2. OwnsByTurn(m)'
    BY <1>1, <1>5 DEF MemberInv, OwnsByTurn, Busy, Current
  <2>3. RunsItsOwn(m)' /\ InRuns(batch[m])' /\ GoesForward(m)'
    BY <1>1, <1>5 DEF MemberInv, RunsItsOwn, InRuns, GoesForward
  <2> QED BY <2>1, <2>2, <2>3 DEF MemberInv
<1>7. \A n \in Members \ {m} : Same(n)
  BY <1>1 DEF Same, FlowTypes, ClientTypes
<1>8. \A p \in Partitions : ~Claims(m, p)'
  BY <1>1, <1>5 DEF Claims, Holds, Sends
<1> QED BY <1>1, <1>2, <1>3, <1>4, <1>6, <1>7, <1>8, TypesAfter, StepOfOne DEF Over

LEMMA WaitsForRecordKeeps ==
  ASSUME KInv, NEW m \in Members, WaitsForRecord(m)
  PROVE  KInv'
<1> USE InvTypes
<1>1. /\ rebalance[m] = "steady" /\ Busy(m)
      /\ revoking' = [revoking EXCEPT ![m] = @ \cup holds[m]]
      /\ rebalance' = [rebalance EXCEPT ![m] = "waiting"]
      /\ awaited' = [awaited EXCEPT ![m] = {Current(m)}]
      /\ UNCHANGED <<brokerVars, handled, passed, mishaps, loopVars, told, assigned, holds, position, paused, overran>>
  BY DEF WaitsForRecord, MustRejoin
<1>2. BrokerTypes' /\ FlowTypes' /\ RetryTypes'
  BY <1>1, SameBroker, SameFlow, SameRetry DEF brokerVars, loopVars
<1>3. Current(m) \in Record
  BY <1>1, InFlight
<1>4. ClientTypes'
  BY <1>1, <1>3 DEF ClientTypes
<1>5. /\ revoking'[m] = holds[m] /\ rebalance'[m] = "waiting" /\ awaited'[m] = {Current(m)}
      /\ MemberInv(m) /\ assigned[m] = holds[m]
  BY <1>1 DEF KInv, ClientTypes, MemberInv, OwnsByTurn
<1>6. UNCHANGED <<committed, group, handled, passed, task, stopping, batch, pending, sent, fenced, told, assigned, holds, position, overran>>
  BY <1>1 DEF loopVars, brokerVars
<1>7. MemberInv(m)'
  <2>1. SkipsNothing(m)'
    BY <1>5, <1>6 DEF MemberInv, SkipsNothing, Behind, InOrder, Owns, Over
  <2>2. OwnsByTurn(m)'
    BY <1>1, <1>5, <1>6 DEF MemberInv, OwnsByTurn, Busy, Current
  <2>3. RunsItsOwn(m)' /\ InRuns(batch[m])'
    BY <1>1, <1>5, <1>6 DEF MemberInv, RunsItsOwn, InRuns, Busy, Holds
  <2>4. GoesForward(m)'
    BY <1>1, <1>5, <1>6 DEF MemberInv, GoesForward, RunsAhead, Ahead, Holds, Sends
  <2> QED BY <2>1, <2>2, <2>3, <2>4 DEF MemberInv
<1>8. \A n \in Members \ {m} : Same(n)
  BY <1>1, <1>6 DEF Same, ClientTypes
<1>9. \A p \in Partitions : Claims(m, p)' => Claims(m, p)
  BY <1>1, <1>5, <1>6 DEF Claims, Holds, Sends
<1>10. Over \subseteq Over'
  BY <1>6 DEF Over
<1> QED BY <1>2, <1>4, <1>6, <1>7, <1>8, <1>9, <1>10, TypesAfter, StepOfOne

(* The loop: commits, and what ends without the next record.                  *)

LEMMA TookOver ==
  ASSUME KInv, NEW m \in Members, NEW took \in BOOLEAN, Busy(m), Took(m, took)
  PROVE  Over' = handled' \cup passed' /\ handled \subseteq handled' /\ handled' \subseteq Record
  BY InvTypes, InFlight DEF Took, Over, BrokerTypes

LEMMA GivesUpKeeps ==
  ASSUME KInv, NEW m \in Members, NEW took \in BOOLEAN, GivesUp(m, took)
  PROVE  KInv'
<1> USE InvTypes
<1>1. /\ task[m] = "handling" /\ Took(m, took) /\ task' = [task EXCEPT ![m] = "burying"]
      /\ UNCHANGED <<end, committed, reached, group, forming, reset, passed, mishaps, stopping, batch, pending, sent,
                     fenced, failures, recovering, resumes, clientVars, overran>>
  BY DEF GivesUp, brokerVars
<1>2. Busy(m) /\ handled \subseteq handled' /\ handled' \subseteq Record
  BY <1>1, TookOver DEF Busy
<1>3. BrokerTypes'
  BY <1>1, <1>2 DEF BrokerTypes
<1>4. FlowTypes' /\ RetryTypes' /\ ClientTypes'
  <2>1. FlowTypes'
    BY <1>1 DEF FlowTypes, Busy
  <2> QED BY <1>1, <2>1, SameRetry, SameClient
<1>5. /\ MemberInv(m) /\ task'[m] = "burying" /\ Over \subseteq Over'
      /\ UNCHANGED <<rebalance, awaited, told, assigned, revoking, holds, position>>
  BY <1>1, <1>2 DEF KInv, FlowTypes, Over, clientVars
<1>6. MemberInv(m)'
  <2>1. SkipsNothing(m)'
    BY <1>1, <1>5 DEF MemberInv, SkipsNothing, Behind, InOrder, Owns
  <2>2. OwnsByTurn(m)'
    BY <1>1, <1>5 DEF MemberInv, OwnsByTurn, Busy, Current
  <2>3. RunsItsOwn(m)' /\ InRuns(batch[m])'
    BY <1>1, <1>5 DEF MemberInv, RunsItsOwn, InRuns, Busy, Holds
  <2>4. GoesForward(m)'
    BY <1>1, <1>5 DEF MemberInv, GoesForward, RunsAhead, Ahead, Holds, Sends
  <2> QED BY <2>1, <2>2, <2>3, <2>4 DEF MemberInv
<1>7. \A n \in Members \ {m} : Same(n)
  BY <1>1, <1>5 DEF Same, FlowTypes
<1>8. \A p \in Partitions : Claims(m, p)' => Claims(m, p)
  BY <1>1, <1>5 DEF Claims, Holds, Sends
<1> QED BY <1>1, <1>3, <1>4, <1>5, <1>6, <1>7, <1>8, TypesAfter, StepOfOne

(* The record in flight and everything before it are over once it is.         *)
LEMMA DoneBehind ==
  ASSUME KInv, NEW m \in Members, Busy(m), NEW r \in Record, r = Current(m), r \in Over', Over \subseteq Over'
  PROVE  Behind(r.p, r.o) /\ Behind(r.p, r.o + 1)'
<1>1. r = batch[m][1] /\ 1 \in DOMAIN batch[m]
  BY InvTypes, InFlight
<1>2. Behind(r.p, r.o)
  BY <1>1 DEF KInv, MemberInv, SkipsNothing, InOrder
<1>3. ASSUME NEW s \in Record, s.p = r.p, s.o < r.o + 1
      PROVE  s \in Over'
  <2>1. CASE s.o < r.o
    BY <1>2, <1>3, <2>1 DEF Behind
  <2>2. CASE s.o = r.o
    BY <1>3, <2>2, SameRecord
  <2> QED BY <1>3, <2>1, <2>2, RecordIs
<1> QED BY <1>2, <1>3 DEF Behind

LEMMA StopCancelsKeeps ==
  ASSUME KInv, NEW m \in Members, NEW took \in BOOLEAN, StopCancels(m, took)
  PROVE  KInv'
<1> USE InvTypes
<1>1. /\ Busy(m) /\ stopping[m] /\ Took(m, took)
      /\ task' = [task EXCEPT ![m] = "closing"] /\ batch' = [batch EXCEPT ![m] = <<>>]
      /\ UNCHANGED <<end, committed, reached, group, forming, reset, passed, mishaps, stopping, sent, fenced,
                     failures, recovering, resumes, rebalance, awaited, told, assigned, revoking, holds, position, paused, overran>>
  BY DEF StopCancels, brokerVars, clientVars
<1>2. PICK r \in Record : /\ r = Current(m) /\ r = batch[m][1] /\ 1 \in DOMAIN batch[m]
                         /\ r.p \in Partitions /\ r.o \in 0 .. Length - 1
  BY <1>1, InFlight, RecordIs
<1>3. PICK done \in BOOLEAN : done = (took /\ task[m] = "handling")
  OBVIOUS
<1>4. PICK offsets \in Offsets :
        /\ \A p \in Partitions : offsets[p] = IF done /\ p = r.p THEN r.o + 1 ELSE pending[m][p]
        /\ pending' = [pending EXCEPT ![m] = offsets]
  <2> DEFINE offsets == IF done THEN [pending[m] EXCEPT ![r.p] = r.o + 1] ELSE pending[m]
  <2>1. offsets \in Offsets /\ \A p \in Partitions : offsets[p] = IF done /\ p = r.p THEN r.o + 1 ELSE pending[m][p]
    BY <1>2, Sizes DEF FlowTypes, Offsets
  <2>2. pending' = [pending EXCEPT ![m] = offsets]
    BY <1>2, <1>3 DEF StopCancels, DoneIfCommitted, FlowTypes
  <2> QED BY <2>1, <2>2
<1>5. handled \subseteq handled' /\ handled' \subseteq Record
  BY <1>1, TookOver
<1>6. BrokerTypes'
  BY <1>1, <1>5 DEF BrokerTypes
<1>7. FlowTypes'
  BY <1>1, <1>4, Sizes DEF FlowTypes, Busy
<1>8. RetryTypes' /\ ClientTypes'
  BY <1>1 DEF RetryTypes, ClientTypes
<1>9. /\ MemberInv(m) /\ task'[m] = "closing" /\ batch'[m] = <<>> /\ pending'[m] = offsets
      /\ Over \subseteq Over' /\ (done => r \in Over')
  BY <1>1, <1>2, <1>3, <1>4, <1>5 DEF KInv, FlowTypes, Over, Took
<1>10. \A p \in Partitions : Behind(p, offsets[p])'
  <2>1. done => Behind(r.p, r.o + 1)'
    BY <1>1, <1>2, <1>9, DoneBehind
  <2>2. \A p \in Partitions : Behind(p, pending[m][p])
    BY <1>9 DEF MemberInv, SkipsNothing
  <2> QED BY <1>4, <1>9, <2>1, <2>2 DEF Behind
<1>11. MemberInv(m)'
  <2>1. SkipsNothing(m)'
    BY <1>1, <1>9, <1>10 DEF MemberInv, SkipsNothing, Behind, InOrder
  <2>2. OwnsByTurn(m)'
    BY <1>1, <1>9 DEF MemberInv, OwnsByTurn, Busy
  <2>3. RunsItsOwn(m)' /\ InRuns(batch[m])'
    BY <1>1, <1>9 DEF MemberInv, RunsItsOwn, InRuns, Busy
  <2>4. ASSUME ~overran[m]
        PROVE  RunsAhead(m)' /\ \A p \in Partitions : Ahead(m, p)'
    <3>1. RunsAhead(m) /\ (\A p \in Partitions : Ahead(m, p)) /\ Holds(m, r.p) /\ rebalance[m] # "telling"
      BY <1>1, <1>2, <1>9, <2>4 DEF MemberInv, GoesForward, RunsItsOwn
    <3>2. \A p \in Partitions : ~(told[m][p] > 0) /\ (Holds(m, p)' <=> Holds(m, p)) /\ ~Sends(m, p)'
      BY <1>1, <1>9, <3>1 DEF MemberInv, OwnsByTurn, Holds, Sends
    <3>3. /\ committed[r.p] <= r.o /\ pending[m][r.p] <= r.o /\ r.o < position[m][r.p]
          /\ committed[r.p] \in Int /\ position[m][r.p] \in Int
      BY <1>2, <3>1, Sizes DEF RunsAhead, BrokerTypes, ClientTypes, Offsets
    <3>4. RunsAhead(m)'
      BY <1>1, <1>2, <1>4, <1>9, <3>1, <3>2, <3>3 DEF RunsAhead
    <3>5. \A p \in Partitions : Ahead(m, p)'
      BY <1>1, <1>2, <1>4, <1>9, <3>1, <3>2, <3>3 DEF Ahead
    <3> QED BY <3>4, <3>5
  <2>5. GoesForward(m)'
    BY <1>1, <2>4 DEF GoesForward
  <2> QED BY <2>1, <2>2, <2>3, <2>5 DEF MemberInv
<1>12. \A n \in Members \ {m} : Same(n)
  BY <1>1, <1>4 DEF Same, FlowTypes
<1>13. \A p \in Partitions : Claims(m, p)' => Claims(m, p)
  BY <1>1, <1>9 DEF Claims, Holds, Sends
<1> QED BY <1>1, <1>6, <1>7, <1>8, <1>9, <1>11, <1>12, <1>13, TypesAfter, StepOfOne

(* The commit in flight is answered, or stop() ends the wait for it.          *)
LEMMA AnswerKeeps ==
  ASSUME KInv, NEW m \in Members, NEW took \in BOOLEAN, NEW t, NEW offsets \in Offsets,
         task' = [task EXCEPT ![m] = t], task[m] # "down",
         (~Busy(m) /\ t \in {"polling", "closing"}) \/ (Busy(m) /\ t = task[m]),
         took => task[m] = "committing" /\ ~fenced[m],
         IF took THEN Commit(m, sent[m]) ELSE UNCHANGED <<committed, reached>>,
         Answered(m),
         pending' = [pending EXCEPT ![m] = offsets],
         \A p \in Partitions : offsets[p] \in {0, pending[m][p]},
         stopping' = stopping \/ stopping' = [stopping EXCEPT ![m] = TRUE],
         mishaps' \in 0 .. MaxMishaps,
         UNCHANGED <<end, group, forming, reset, handled, passed, batch, failures, recovering, resumes, clientVars, overran>>
  PROVE  KInv'
<1> USE InvTypes
<1>1. UNCHANGED <<rebalance, awaited, told, assigned, revoking, holds, position, paused>>
  BY DEF clientVars
<1>2. /\ committed' \in [Partitions -> -1 .. Length] /\ reached' \in Offsets
      /\ \A p \in Partitions : committed'[p] = IF took /\ sent[m][p] > 0 THEN sent[m][p] ELSE committed[p]
  BY CommitTypes DEF BrokerTypes, FlowTypes
<1>3. BrokerTypes'
  BY <1>2 DEF BrokerTypes
<1>4. FlowTypes'
  <2>1. sent' = [sent EXCEPT ![m] = None] /\ fenced' = [fenced EXCEPT ![m] = FALSE] /\ None \in Offsets
    BY NoneIs DEF Answered
  <2> QED BY <2>1 DEF FlowTypes, Busy
<1>5. RetryTypes' /\ ClientTypes'
  BY <1>1 DEF RetryTypes, ClientTypes
<1>6. /\ MemberInv(m) /\ task'[m] = t /\ pending'[m] = offsets /\ sent'[m] = None
      /\ Over' = Over /\ (stopping[m] => stopping'[m]) /\ Busy(m)' = Busy(m)
  BY DEF KInv, FlowTypes, RetryTypes, Over, Answered, Busy
<1>7. MemberInv(m)'
  <2>1. SkipsNothing(m)'
    <3>1. SkipsNothing(m)
      BY <1>6 DEF MemberInv
    <3>2. \A p \in Partitions : Behind(p, pending[m][p])' /\ Behind(p, sent[m][p])' /\ Behind(p, told[m][p])'
      BY <1>1, <1>6, <3>1, NoneIs, RecordIs DEF SkipsNothing, Behind
    <3> QED BY <1>1, <1>6, <3>1, <3>2 DEF SkipsNothing, Behind, InOrder, Owns
  <2>2. OwnsByTurn(m)'
    BY <1>1, <1>6 DEF MemberInv, OwnsByTurn, Busy, Current
  <2>3. RunsItsOwn(m)' /\ InRuns(batch[m])'
    BY <1>1, <1>6 DEF MemberInv, RunsItsOwn, InRuns, Holds
  <2>4. ASSUME ~overran[m]
        PROVE  RunsAhead(m)' /\ \A p \in Partitions : Ahead(m, p)'
    <3>1. RunsAhead(m) /\ (\A p \in Partitions : Ahead(m, p))
      BY <1>6, <2>4 DEF MemberInv, GoesForward
    <3>2. \A p \in Partitions : /\ Holds(m, p)' <=> Holds(m, p) 
                                /\ ~Sends(m, p)'
                                /\ took /\ sent[m][p] > 0 => Sends(m, p)
      BY <1>1, <1>6 DEF Holds, Sends, FlowTypes, Busy
    <3>3. \A p \in Partitions : /\ committed[p] \in Int /\ position[m][p] \in Int /\ sent[m][p] \in Int
                                /\ pending[m][p] \in Nat /\ told[m][p] \in Nat
      BY Sizes DEF BrokerTypes, ClientTypes, FlowTypes, Offsets
    <3>4. RunsAhead(m)'
      <4>1. \A i \in DOMAIN batch[m] : batch[m][i].p \in Partitions /\ batch[m][i].o \in Int /\ ~took
        BY RecordIs DEF FlowTypes, Busy
      <4> QED BY <1>1, <1>2, <1>6, <3>1, <3>2, <3>3, <4>1 DEF RunsAhead
    <3>5. \A p \in Partitions : Ahead(m, p)'
      BY <1>1, <1>2, <1>6, <3>1, <3>2, <3>3 DEF Ahead
    <3> QED BY <3>4, <3>5
  <2>5. GoesForward(m)'
    BY <2>4 DEF GoesForward
  <2> QED BY <2>1, <2>2, <2>3, <2>5 DEF MemberInv
<1>8. \A n \in Members \ {m} : Same(n)
  BY <1>1 DEF Same, FlowTypes, RetryTypes, Answered
<1>9. \A p \in Partitions : Claims(m, p)' => Claims(m, p)
  BY <1>1, <1>6 DEF Claims, Holds, Sends, Busy
<1>10. ASSUME NEW p \in Partitions, committed'[p] # committed[p]
       PROVE  Claims(m, p) /\ Behind(p, committed[p])'
  <2>1. took /\ sent[m][p] > 0 /\ committed'[p] = sent[m][p]
    BY <1>2, <1>10
  <2>2. Behind(p, sent[m][p])
    BY <1>6 DEF MemberInv, SkipsNothing
  <2> QED BY <1>6, <2>1, <2>2 DEF Claims, Sends, Behind
<1> QED BY <1>3, <1>4, <1>5, <1>6, <1>7, <1>8, <1>9, <1>10, TypesAfter, StepOfOne

LEMMA CommitsKeeps ==
  ASSUME KInv, NEW m \in Members, Commits(m)
  PROVE  KInv'
<1> USE InvTypes
<1>1. PICK offsets \in Offsets :
        /\ pending' = [pending EXCEPT ![m] = offsets]
        /\ \A p \in Partitions : offsets[p] \in {0, pending[m][p]}
  <2> DEFINE offsets == [p \in Partitions |-> IF pending[m][p] = sent[m][p] THEN 0 ELSE pending[m][p]]
  <2>1. offsets \in Offsets /\ \A p \in Partitions : offsets[p] \in {0, pending[m][p]}
    BY Sizes DEF FlowTypes, Offsets
  <2>2. pending' = [pending EXCEPT ![m] = offsets]
    BY DEF Commits, FlowTypes
  <2> QED BY <2>1, <2>2
<1>2. /\ task[m] = "committing" /\ ~fenced[m] /\ Commit(m, sent[m]) /\ AfterCommit(m) /\ Answered(m)
      /\ UNCHANGED <<end, group, forming, reset, handled, passed, mishaps, stopping, batch, failures, recovering,
                     resumes, clientVars, overran>>
  BY DEF Commits
<1>3. PICK t \in {"polling", "closing"} : task' = [task EXCEPT ![m] = t]
  BY <1>2 DEF AfterCommit
<1>4. ~Busy(m) /\ mishaps' \in 0 .. MaxMishaps
  BY <1>2 DEF Busy, BrokerTypes
<1> QED BY <1>1, <1>2, <1>3, <1>4, AnswerKeeps

LEMMA CommitFailsKeeps ==
  ASSUME KInv, NEW m \in Members, NEW took \in BOOLEAN, CommitFails(m, took)
  PROVE  KInv'
<1> USE InvTypes
<1>1. pending[m] \in Offsets /\ pending' = [pending EXCEPT ![m] = pending[m]]
  BY DEF CommitFails, KeepsFailed, FlowTypes
<1>2. /\ task[m] = "committing" /\ (took => ~fenced[m]) /\ mishaps' \in 0 .. MaxMishaps
      /\ IF took THEN Commit(m, sent[m]) ELSE UNCHANGED <<committed, reached>>
      /\ AfterCommit(m) /\ Answered(m)
      /\ UNCHANGED <<end, group, forming, reset, handled, passed, stopping, batch, failures, recovering,
                     resumes, clientVars, overran>>
  BY Sizes DEF CommitFails, BrokerTypes, Mishap
<1>3. PICK t \in {"polling", "closing"} : task' = [task EXCEPT ![m] = t]
  BY <1>2 DEF AfterCommit
<1>4. ~Busy(m)
  BY <1>2 DEF Busy
<1> QED BY <1>1, <1>2, <1>3, <1>4, AnswerKeeps

LEMMA StopsKeeps ==
  ASSUME KInv, NEW m \in Members, NEW took \in BOOLEAN, Stops(m, took)
  PROVE  KInv'
<1> USE InvTypes
<1>1. pending[m] \in Offsets /\ pending' = [pending EXCEPT ![m] = pending[m]]
  BY DEF Stops, FlowTypes
<1>2. /\ task[m] # "down" /\ (took => task[m] = "committing" /\ ~fenced[m]) /\ mishaps' \in 0 .. MaxMishaps
      /\ IF took THEN Commit(m, sent[m]) ELSE UNCHANGED <<committed, reached>>
      /\ stopping' = [stopping EXCEPT ![m] = TRUE] /\ Answered(m)
      /\ UNCHANGED <<end, group, forming, reset, handled, passed, batch, failures, recovering,
                     resumes, clientVars, overran>>
  BY Sizes DEF Stops, BrokerTypes, Mishap
<1>3. PICK t : /\ task' = [task EXCEPT ![m] = t]
               /\ (~Busy(m) /\ t \in {"polling", "closing"}) \/ (Busy(m) /\ t = task[m])
  <2>1. CASE Busy(m)
    BY <2>1 DEF Stops, FlowTypes
  <2>2. CASE ~Busy(m)
    BY <2>2 DEF Stops
  <2> QED BY <2>1, <2>2
<1> QED BY <1>1, <1>2, <1>3, AnswerKeeps

(* Revocation. *)

LEMMA RevokedKeeps ==
  ASSUME KInv, NEW m \in Members, NEW outlasted \in BOOLEAN, NEW lost, lost = holds[m], Revoked(m, lost, outlasted),
         Busy(m) => overran[m] \/ outlasted,
         committed' \in [Partitions -> -1 .. Length], reached' \in Offsets, mishaps' \in 0 .. MaxMishaps,
         \A p \in Partitions : \/ committed'[p] = committed[p]
                               \/ m \in group /\ told[m][p] > 0 /\ committed'[p] = told[m][p],
         rebalance[m] \in {"steady", "waiting", "telling"},
         UNCHANGED <<end, reset, handled, passed, task, stopping, batch, sent, fenced, holds, position, paused>>
  PROVE  KInv'
<1> USE InvTypes
<1>1. PICK offsets \in Offsets :
        /\ pending' = [pending EXCEPT ![m] = offsets]
        /\ \A p \in Partitions : offsets[p] = IF p \in lost THEN 0 ELSE pending[m][p]
  <2>1. pending' = [pending EXCEPT ![m] = Keep(pending[m], Partitions \ lost)]
    BY DEF Revoked, ForgetsPending, FlowTypes
  <2>2. /\ Keep(pending[m], Partitions \ lost) \in Offsets
        /\ \A p \in Partitions : Keep(pending[m], Partitions \ lost)[p] = IF p \in lost THEN 0 ELSE pending[m][p]
    BY KeepIs DEF FlowTypes
  <2> QED BY <2>1, <2>2
<1>2. /\ resumes' = [resumes EXCEPT ![m] = @ \ lost]
      /\ failures' = [failures EXCEPT ![m] = [r \in Record |-> IF r.p \in lost THEN 0 ELSE @[r]]]
      /\ recovering' = [recovering EXCEPT ![m] = {r \in @ : r.p \notin lost}]
  BY Zenon DEF Revoked
<1>3. /\ assigned' = [assigned EXCEPT ![m] = @ \ lost] /\ revoking' = [revoking EXCEPT ![m] = @ \ lost]
      /\ told' = [told EXCEPT ![m] = None] /\ awaited' = [awaited EXCEPT ![m] = {}]
      /\ rebalance' = [rebalance EXCEPT ![m] = "joining"] /\ group' = group \cup {m} /\ forming' = TRUE
  BY Zenon DEF Revoked
<1>4. PICK o \in BOOLEAN : /\ overran' = [overran EXCEPT ![m] = o]
                           /\ o = ((overran[m] \/ outlasted) /\ (Busy(m) \/ task[m] = "committing" \/ offsets # None))
  <2>1. overran' = [overran EXCEPT ![m] = (overran[m] \/ outlasted) /\ (Busy(m) \/ task[m] = "committing" \/ offsets # None)]
    BY <1>1 DEF Revoked, ClientTypes, FlowTypes
  <2> QED BY <2>1
<1>5. BrokerTypes'
  BY <1>3 DEF BrokerTypes
<1>6. FlowTypes'
  BY <1>1 DEF FlowTypes, Busy
<1>7. RetryTypes'
  <2>1. \A r \in Record : failures[m][r] \in 0 .. MaxAttempts - 1
    BY DEF RetryTypes
  <2>2. [r \in Record |-> IF r.p \in lost THEN 0 ELSE failures[m][r]] \in [Record -> 0 .. MaxAttempts - 1]
    BY <2>1, Sizes
  <2>3. failures' \in [Members -> [Record -> 0 .. MaxAttempts - 1]]
    BY <1>2, <2>2 DEF RetryTypes
  <2> QED BY <1>2, <2>3 DEF RetryTypes
<1>8. ClientTypes'
  BY <1>3, <1>4, NoneIs DEF ClientTypes
<1>9. /\ MemberInv(m) /\ pending'[m] = offsets /\ assigned'[m] = {} /\ revoking'[m] = {} /\ told'[m] = None
      /\ rebalance'[m] = "joining" /\ overran'[m] = o /\ Over' = Over /\ task[m] # "down" /\ Busy(m)' = Busy(m)
  BY <1>1, <1>3, <1>4 DEF KInv, FlowTypes, ClientTypes, Over, MemberInv, OwnsByTurn, Busy
<1>10. MemberInv(m)'
  <2>1. SkipsNothing(m)'
    <3>1. SkipsNothing(m)
      BY <1>9 DEF MemberInv
    <3>2. \A p \in Partitions : Behind(p, pending[m][p])' /\ Behind(p, sent[m][p])' /\ Behind(p, told[m][p])'
      BY <1>1, <1>9, <3>1, NoneIs, RecordIs DEF SkipsNothing, Behind
    <3> QED BY <1>9, <3>1, <3>2 DEF SkipsNothing, Behind, InOrder, Owns
  <2>2. OwnsByTurn(m)'
    BY <1>9, NoneIs DEF OwnsByTurn
  <2>3. RunsItsOwn(m)' /\ InRuns(batch[m])'
    <3>1. Busy(m) => o
      BY <1>4
    <3>2. RunsItsOwn(m)'
      BY <1>9, <3>1 DEF RunsItsOwn
    <3> QED BY <1>9, <3>2 DEF MemberInv, InRuns
  <2>4. ASSUME ~o
        PROVE  RunsAhead(m)' /\ \A p \in Partitions : Ahead(m, p)'
    <3>1. \A p \in Partitions : ~Holds(m, p)' /\ (Sends(m, p)' <=> Sends(m, p))
      BY <1>9 DEF Holds, Sends
    <3>2. batch[m] = <<>>
      BY <1>4, <2>4 DEF FlowTypes
    <3>3. RunsAhead(m)'
      BY <3>1, <3>2 DEF RunsAhead
    <3>4. CASE overran[m] \/ outlasted
      <4>1. offsets = None /\ \A p \in Partitions : ~Sends(m, p)
        BY <1>4, <2>4, <3>4 DEF Sends
      <4> QED BY <1>9, <3>1, <3>3, <4>1, NoneIs DEF Ahead
    <3>5. CASE ~(overran[m] \/ outlasted)
      <4>1. \A p \in Partitions : Ahead(m, p)
        BY <1>9, <3>5 DEF MemberInv, GoesForward
      <4>2. \A p \in Partitions : ~(offsets[p] > 0)
        BY <1>1, <4>1 DEF Ahead, Holds
      <4>3. \A p \in Partitions : Sends(m, p) => sent[m][p] >= committed'[p]
        BY <4>1 DEF Ahead
      <4> QED BY <1>9, <3>1, <3>3, <4>2, <4>3, NoneIs DEF Ahead
    <3> QED BY <3>4, <3>5
  <2>5. GoesForward(m)'
    BY <1>9, <2>4 DEF GoesForward
  <2> QED BY <2>1, <2>2, <2>3, <2>5 DEF MemberInv
<1>11. \A n \in Members \ {m} : Same(n)
  BY <1>1, <1>3, <1>4 DEF Same, FlowTypes, ClientTypes
<1>12. \A p \in Partitions : Claims(m, p)' => Claims(m, p)
  BY <1>9 DEF Claims, Holds, Sends
<1>13. ASSUME NEW p \in Partitions, committed'[p] # committed[p]
       PROVE  Claims(m, p) /\ Behind(p, committed[p])'
  <2>1. m \in group /\ told[m][p] > 0 /\ committed'[p] = told[m][p]
    BY <1>13
  <2>2. Behind(p, told[m][p]) /\ p \in holds[m]
    BY <1>9, <2>1 DEF MemberInv, SkipsNothing, OwnsByTurn
  <2> QED BY <1>9, <2>1, <2>2 DEF Claims, Holds, Behind
<1> QED BY <1>5, <1>6, <1>7, <1>8, <1>9, <1>10, <1>11, <1>12, <1>13, TypesAfter, StepOfOne

LEMMA RevokeCommitsKeeps ==
  ASSUME KInv, NEW m \in Members, NEW took \in BOOLEAN, RevokeCommits(m, took)
  PROVE  KInv'
<1> USE InvTypes
<1>1. /\ rebalance[m] = "telling" /\ (took => m \in group) /\ mishaps' \in 0 .. MaxMishaps
      /\ IF took THEN Commit(m, told[m]) ELSE UNCHANGED <<committed, reached>>
      /\ Revoked(m, revoking[m], FALSE)
      /\ UNCHANGED <<end, reset, handled, passed, task, stopping, batch, sent, fenced, holds, position, paused>>
  <2>1. mishaps' \in 0 .. MaxMishaps
    BY Sizes DEF RevokeCommits, BrokerTypes, Mishap
  <2> QED BY <2>1, Zenon DEF RevokeCommits
<1>2. MemberInv(m) /\ revoking[m] = holds[m] /\ (Busy(m) => overran[m])
  BY <1>1 DEF KInv, MemberInv, OwnsByTurn, RunsItsOwn, ClientTypes
<1>3. /\ committed' \in [Partitions -> -1 .. Length] /\ reached' \in Offsets
      /\ \A p \in Partitions : committed'[p] = IF took /\ told[m][p] > 0 THEN told[m][p] ELSE committed[p]
  BY <1>1, CommitTypes DEF BrokerTypes, ClientTypes
<1> QED BY <1>1, <1>2, <1>3, RevokedKeeps

LEMMA RevokeGoesOnKeeps ==
  ASSUME KInv, NEW m \in Members, RevokeGoesOn(m)
  PROVE  KInv'
<1> USE InvTypes
<1> DEFINE lost == revoking[m] \cup holds[m]
           offsets == Keep(pending[m], lost)
<1>1. /\ rebalance[m] = "waiting" \/ (rebalance[m] = "steady" /\ ~Busy(m))
      /\ IF offsets = None THEN Revoked(m, lost, Outlasts(m))
         ELSE /\ revoking' = [revoking EXCEPT ![m] = lost]
              /\ told' = [told EXCEPT ![m] = offsets]
              /\ rebalance' = [rebalance EXCEPT ![m] = "telling"]
              /\ overran' = [overran EXCEPT ![m] = overran[m] \/ Outlasts(m)]
              /\ UNCHANGED <<pending, resumes, failures, recovering, assigned, awaited, group, forming>>
      /\ UNCHANGED <<end, committed, reached, reset, handled, passed, mishaps, task, stopping, batch, sent, fenced,
                     holds, position, paused>>
  BY DEF RevokeGoesOn, MustRejoin, ClientTypes
<1>2. MemberInv(m) /\ lost = holds[m] /\ assigned[m] = holds[m] /\ Outlasts(m) \in BOOLEAN
  BY <1>1 DEF KInv, MemberInv, OwnsByTurn, ClientTypes, Outlasts, Busy
<1>3. Busy(m) => Outlasts(m)
  BY <1>1, <1>2 DEF MemberInv, OwnsByTurn, Outlasts
<1>4. offsets \in Offsets /\ \A p \in Partitions : offsets[p] = IF p \in lost THEN pending[m][p] ELSE 0
  BY KeepIs DEF FlowTypes
<1> HIDE DEF lost, offsets
<1>5. CASE offsets = None
  <2>1. /\ committed' \in [Partitions -> -1 .. Length] /\ reached' \in Offsets /\ mishaps' \in 0 .. MaxMishaps
    BY <1>1 DEF BrokerTypes
  <2> QED BY <1>1, <1>2, <1>3, <1>5, <2>1, RevokedKeeps
<1>6. CASE offsets # None
  <2>1. PICK l \in SUBSET Partitions, o \in Offsets : l = lost /\ o = offsets
    BY <1>2, <1>4 DEF ClientTypes
  <2>2. /\ revoking' = [revoking EXCEPT ![m] = l] /\ told' = [told EXCEPT ![m] = o]
        /\ rebalance' = [rebalance EXCEPT ![m] = "telling"]
        /\ overran' = [overran EXCEPT ![m] = overran[m] \/ Outlasts(m)]
        /\ UNCHANGED <<end, committed, reached, group, forming, reset, handled, passed, mishaps, task, stopping, batch, pending,
                       sent, fenced, resumes, failures, recovering, assigned, awaited, holds, position, paused>>
    BY <1>1, <1>6, <2>1
  <2>3. BrokerTypes' /\ FlowTypes' /\ RetryTypes'
    BY <2>2, SameBroker, SameFlow, SameRetry
  <2>4. ClientTypes'
    BY <1>2, <2>1, <2>2 DEF ClientTypes
  <2>5. /\ revoking'[m] = holds[m] /\ told'[m] = o /\ rebalance'[m] = "telling" /\ Over' = Over
        /\ overran'[m] = (overran[m] \/ Outlasts(m)) /\ Busy(m)' = Busy(m)
    BY <1>2, <2>1, <2>2 DEF ClientTypes, Over, Busy
  <2>6. MemberInv(m)'
    <3>1. SkipsNothing(m)'
      <4>1. SkipsNothing(m)
        BY <1>2 DEF MemberInv
      <4>2. \A p \in Partitions : Behind(p, pending[m][p])' /\ Behind(p, sent[m][p])' /\ Behind(p, told[m][p])'
        BY <1>4, <2>1, <2>2, <2>5, <4>1, RecordIs DEF SkipsNothing, Behind
      <4>3. InOrder(batch[m])'
        BY <2>2, <2>5, <4>1 DEF SkipsNothing, Behind, InOrder
      <4>4. \A p : Owns(m, p)' => Owns(m, p)
        BY <1>2, <2>2, <2>5 DEF Owns, ClientTypes
      <4> QED BY <2>2, <2>5, <4>1, <4>2, <4>3, <4>4 DEF SkipsNothing
    <3>2. OwnsByTurn(m)'
      BY <1>1, <1>2, <1>4, <2>1, <2>2, <2>5 DEF MemberInv, OwnsByTurn
    <3>3. RunsItsOwn(m)' /\ InRuns(batch[m])'
      <4>1. Busy(m) => overran'[m]
        BY <1>3, <2>5
      <4>2. RunsItsOwn(m)'
        BY <1>1, <1>2, <2>2, <2>5, <4>1 DEF MemberInv, RunsItsOwn
      <4> QED BY <1>2, <2>2, <4>2 DEF MemberInv, InRuns
    <3>4. ASSUME ~overran'[m]
          PROVE  RunsAhead(m)' /\ \A p \in Partitions : Ahead(m, p)'
      <4>1. RunsAhead(m) /\ (\A p \in Partitions : Ahead(m, p)) /\ \A p \in Partitions : ~(told[m][p] > 0)
        BY <1>1, <1>2, <2>5, <3>4 DEF MemberInv, GoesForward, OwnsByTurn
      <4>2. \A p \in Partitions : (Holds(m, p)' <=> Holds(m, p)) /\ (Sends(m, p)' <=> Sends(m, p))
        BY <1>1, <2>2, <2>5 DEF Holds, Sends
      <4>3. RunsAhead(m)'
        BY <2>2, <4>1, <4>2 DEF RunsAhead
      <4>4. \A p \in Partitions : o[p] > 0 => o[p] = pending[m][p]
        BY <1>4, <2>1
      <4>5. \A p \in Partitions : Ahead(m, p)'
        BY <2>2, <2>5, <4>1, <4>2, <4>4 DEF Ahead
      <4> QED BY <4>3, <4>5
    <3>5. GoesForward(m)'
      BY <3>4 DEF GoesForward
    <3> QED BY <3>1, <3>2, <3>3, <3>5 DEF MemberInv
  <2>7. \A n \in Members \ {m} : Same(n)
    BY <2>2 DEF Same, ClientTypes
  <2>8. \A p \in Partitions : Claims(m, p)' => Claims(m, p)
    BY <1>1, <2>2, <2>5 DEF Claims, Holds, Sends
  <2> QED BY <2>2, <2>3, <2>4, <2>5, <2>6, <2>7, <2>8, TypesAfter, StepOfOne
<1> QED BY <1>5, <1>6

(* A generation forms. *)
LEMMA AssignsKeeps ==
  ASSUME KInv, Assigns
  PROVE  KInv'
<1> USE InvTypes
<1>1. /\ group # {} /\ (\A m \in group : rebalance[m] = "joining") /\ forming' = FALSE
      /\ paused' = [m \in Members |-> IF m \in group THEN {} ELSE paused[m]]
      /\ rebalance' = [m \in Members |-> IF m \in group THEN "steady" ELSE rebalance[m]]
      /\ fenced' = [m \in Members |-> task[m] = "committing"]
      /\ passed' = passed \cup {r \in Record : reset = "latest" /\ committed[r.p] = -1 /\ r.o < end[r.p]}
      /\ UNCHANGED <<end, committed, reached, group, reset, handled, mishaps, task, stopping, batch, pending, sent, failures,
                     recovering, resumes, awaited, told, revoking, overran>>
  BY DEF Assigns
<1>2. PICK owner \in [Partitions -> group], given \in [Members -> SUBSET Partitions] :
        /\ given = [m \in Members |-> {p \in Partitions : owner[p] = m}]
        /\ holds' = [m \in Members |-> IF m \in group THEN given[m] ELSE holds[m]]
        /\ assigned' = [m \in Members |-> IF m \in group THEN given[m] ELSE assigned[m]]
        /\ position' = [m \in Members |-> [p \in Partitions |->
                          IF p \in given[m] THEN StartOf(p) ELSE IF m \in group THEN 0 ELSE position[m][p]]]
  <2> DEFINE Given(owner) == [m \in Members |-> {p \in Partitions : owner[p] = m}]
  <2>1. PICK owner \in [Partitions -> group] :
          /\ holds' = [m \in Members |-> IF m \in group THEN Given(owner)[m] ELSE holds[m]]
          /\ assigned' = [m \in Members |-> IF m \in group THEN Given(owner)[m] ELSE assigned[m]]
          /\ position' = [m \in Members |-> [p \in Partitions |->
                            IF p \in Given(owner)[m] THEN StartOf(p) ELSE IF m \in group THEN 0 ELSE position[m][p]]]
    BY Zenon DEF Assigns
  <2>2. Given(owner) \in [Members -> SUBSET Partitions]
    OBVIOUS
  <2> QED BY <2>1, <2>2, Zenon
<1>3. ASSUME NEW p \in Partitions
      PROVE  /\ StartOf(p) \in 0 .. Length /\ committed[p] <= StartOf(p) 
             /\ \A r \in Record : r.p = p /\ r.o < StartOf(p) => r \in Over'
             /\ committed[p] \in -1 .. Length /\ end[p] \in 0 .. Length
  <2>1. committed[p] \in -1 .. Length /\ end[p] \in 0 .. Length /\ reset \in {"earliest", "latest"} /\ Behind(p, committed[p])
    BY ListenerAssumption DEF BrokerTypes, Offsets, KInv, ListenerAssumption
  <2>2. StartOf(p) \in 0 .. Length /\ committed[p] <= StartOf(p)
    BY <2>1, Sizes DEF StartOf
  <2>3. ASSUME NEW r \in Record, r.p = p, r.o < StartOf(p)
        PROVE  r \in Over'
    BY <1>1, <2>1, <2>3, RecordIs DEF StartOf, Behind, Over
  <2> QED BY <2>1, <2>2, <2>3
<1>4. ListenerTypeOK'
  <2>1. BrokerTypes'
    BY <1>1 DEF BrokerTypes
  <2>2. FlowTypes' /\ RetryTypes'
    BY <1>1 DEF FlowTypes, RetryTypes, Busy
  <2>3. position' \in [Members -> Offsets]
    BY <1>2, <1>3, Sizes DEF ClientTypes, Offsets
  <2>4. \A m \in Members : m \in group => assigned[m] = {} /\ revoking[m] = {}
    BY <1>1 DEF KInv, MemberInv, OwnsByTurn
  <2>5. ClientTypes'
    BY <1>1, <1>2, <2>3, <2>4 DEF ClientTypes
  <2> QED BY <2>1, <2>2, <2>5, TypesAfter
<1>5. Over \subseteq Over'
  BY <1>1 DEF Over
<1>6. \A p \in Partitions : Behind(p, committed[p])'
  BY <1>1, <1>5 DEF KInv, Behind
<1>7. ASSUME NEW m \in Members, NEW p \in Partitions
      PROVE  ~Sends(m, p)' /\ (Holds(m, p)' => m \in group /\ owner[p] = m)
  BY <1>1, <1>2 DEF Sends, Holds
<1>8. OneClaims'
  BY <1>7 DEF OneClaims, Claims
<1>9. ASSUME NEW m \in Members
      PROVE  MemberInv(m)'
  <2>1. MemberInv(m) /\ Busy(m)' = Busy(m) /\ (~overran[m] => ~Busy(m))
    <3>1. ASSUME ~overran[m], Busy(m)
          PROVE  FALSE
      <4>1. Holds(m, batch[m][1].p)
        BY <3>1, InFlight DEF KInv, MemberInv, RunsItsOwn
      <4> QED BY <1>1, <4>1 DEF Holds
    <3> QED BY <1>1, <3>1 DEF KInv, Busy
  <2>2. CASE m \in group
    <3>1. /\ rebalance[m] = "joining" /\ rebalance'[m] = "steady" /\ revoking'[m] = {}
          /\ assigned'[m] = given[m] /\ holds'[m] = given[m]
          /\ \A p \in given[m] : p \in Partitions /\ position'[m][p] = StartOf(p)
      BY <1>1, <1>2, <2>1, <2>2 DEF MemberInv, OwnsByTurn
    <3>2. SkipsNothing(m)'
      <4>1. \A p \in Partitions : Behind(p, pending[m][p])' /\ Behind(p, sent[m][p])' /\ Behind(p, told[m][p])'
        BY <1>1, <1>5, <2>1 DEF MemberInv, SkipsNothing, Behind
      <4>2. InOrder(batch[m])'
        BY <1>1, <1>5, <2>1 DEF MemberInv, SkipsNothing, Behind, InOrder
      <4>3. \A r \in Record : Owns(m, r.p)' /\ r.o < position'[m][r.p] => r \in Over'
        BY <1>3, <3>1, RecordIs DEF Owns
      <4> QED BY <4>1, <4>2, <4>3 DEF SkipsNothing
    <3>3. OwnsByTurn(m)' /\ \A p \in Partitions : ~(told[m][p] > 0)
      BY <1>1, <2>1, <3>1 DEF MemberInv, OwnsByTurn
    <3>4. RunsItsOwn(m)' /\ InRuns(batch[m])'
      BY <1>1, <2>1, <2>2, <3>1 DEF MemberInv, RunsItsOwn, InRuns
    <3>5. ASSUME ~overran[m]
          PROVE  RunsAhead(m)' /\ \A p \in Partitions : Ahead(m, p)'
      <4>1. \A p \in Partitions : ~(pending[m][p] > 0) /\ pending[m][p] \in Nat
        BY <2>1, <3>1, <3>5 DEF MemberInv, GoesForward, Ahead, Holds, FlowTypes, Offsets
      <4>2. batch'[m] = <<>>
        BY <1>1, <2>1, <3>5 DEF FlowTypes
      <4>3. \A p \in Partitions : Ahead(m, p)'
        BY <1>1, <1>7, <3>3, <4>1 DEF Ahead
      <4>4. \A p \in Partitions : Holds(m, p)' => /\ committed[p] <= position'[m][p] /\ pending[m][p] <= position'[m][p]
        BY <1>3, <3>1, <4>1 DEF Holds
      <4>5. RunsAhead(m)'
        BY <1>1, <1>7, <4>2, <4>4 DEF RunsAhead
      <4> QED BY <4>3, <4>5
    <3>6. GoesForward(m)'
      BY <1>1, <3>5 DEF GoesForward
    <3> QED BY <3>2, <3>3, <3>4, <3>6 DEF MemberInv
  <2>3. CASE m \notin group
    <3>1. /\ rebalance'[m] = rebalance[m] /\ assigned'[m] = assigned[m] /\ holds'[m] = holds[m]
      BY <1>1, <1>2, <2>3
    <3>2. \A p \in Partitions : position'[m][p] = position[m][p]
      BY <1>2, <2>3
    <3>3. SkipsNothing(m)'
      <4>1. \A p \in Partitions : Behind(p, pending[m][p])' /\ Behind(p, sent[m][p])' /\ Behind(p, told[m][p])'
        BY <1>1, <1>5, <2>1 DEF MemberInv, SkipsNothing, Behind
      <4>2. InOrder(batch[m])'
        BY <1>1, <1>5, <2>1 DEF MemberInv, SkipsNothing, Behind, InOrder
      <4>3. \A p : Owns(m, p)' <=> Owns(m, p)
        BY <1>1, <3>1 DEF Owns
      <4> QED BY <1>1, <1>5, <2>1, <3>2, <4>1, <4>2, <4>3, RecordIs DEF MemberInv, SkipsNothing
    <3>4. OwnsByTurn(m)'
      BY <1>1, <2>1, <3>1 DEF MemberInv, OwnsByTurn, Current
    <3>5. RunsItsOwn(m)' /\ InRuns(batch[m])'
      BY <1>1, <2>1, <2>3, <3>1 DEF MemberInv, RunsItsOwn, InRuns
    <3>6. ASSUME ~overran[m]
          PROVE  RunsAhead(m)' /\ \A p \in Partitions : Ahead(m, p)'
      <4>1. batch'[m] = <<>>
        BY <1>1, <2>1, <3>6 DEF FlowTypes
      <4>2. \A p \in Partitions : ~Holds(m, p) /\ ~Holds(m, p)'
        BY <1>1, <2>3 DEF Holds
      <4>3. RunsAhead(m)'
        BY <4>1, <4>2 DEF RunsAhead
      <4>4. \A p \in Partitions : Ahead(m, p)'
        BY <1>1, <1>7, <2>1, <3>6, <4>2 DEF MemberInv, GoesForward, Ahead
      <4> QED BY <4>3, <4>4
    <3>7. GoesForward(m)'
      BY <1>1, <3>6 DEF GoesForward
    <3> QED BY <3>3, <3>4, <3>5, <3>7 DEF MemberInv
  <2> QED BY <2>2, <2>3
<1> QED BY <1>4, <1>6, <1>8, <1>9 DEF KInv

-------------------------------------------------------------------------------
(* The loop goes on. *)

(* The same, of what is over after a step.                                    *)
IsOver(over, p, o) == \A r \in Record : r.p = p /\ r.o < o => r \in over
Ordered(over, records) ==
  \A i \in DOMAIN records :
    \/ IsOver(over, records[i].p, records[i].o)
    \/ i > 1 /\ Follows(records[i], records[i - 1])

(* What is left of a poll when its first d records go is still in order, if   *)
(* the record that goes last is of another partition, or everything before    *)
(* what is left is over.                                                      *)
LEMMA OrderOfRest ==
  ASSUME NEW over, NEW s \in Seq(Record), NEW t \in Seq(Record), NEW d \in Nat, Drops(s, t, d), Ordered(over, s),
         d > 0 /\ d < Len(s) => s[d].p # s[d + 1].p \/ IsOver(over, s[d + 1].p, s[d + 1].o)
  PROVE  Ordered(over, t)
<1> SUFFICES ASSUME NEW i \in DOMAIN t
             PROVE  IsOver(over, t[i].p, t[i].o) \/ (i > 1 /\ Follows(t[i], t[i - 1]))
  BY DEF Ordered
<1>1. i \in 1 .. Len(t) /\ i + d \in 1 .. Len(s) /\ t[i] = s[i + d] /\ i \in Int
  BY DEF Drops
<1>2. IsOver(over, s[i + d].p, s[i + d].o) \/ (i + d > 1 /\ Follows(s[i + d], s[i + d - 1]))
  BY <1>1 DEF Ordered
<1>3. CASE i > 1
  <2>1. i - 1 \in 1 .. Len(t)
    BY <1>1, <1>3
  <2>2. t[i - 1] = s[(i - 1) + d]
    BY <2>1 DEF Drops
  <2>3. (i - 1) + d = i + d - 1
    BY <1>1
  <2> QED BY <1>1, <1>2, <1>3, <2>2, <2>3
<1>4. CASE i = 1
  <2>1. i + d = d + 1 /\ i + d - 1 = d
    BY <1>4
  <2>2. (d > 0 /\ d < Len(s)) \/ d = 0
    BY <1>1, <1>4
  <2> QED BY <1>1, <1>2, <2>1, <2>2 DEF Follows
<1> QED BY <1>1, <1>3, <1>4

LEMMA RunsOfRest ==
  ASSUME NEW s \in Seq(Record), NEW t \in Seq(Record), NEW d \in Nat, Drops(s, t, d), InRuns(s)
  PROVE  InRuns(t)
<1> SUFFICES ASSUME NEW i \in DOMAIN t, NEW j \in DOMAIN t, i < j, t[i].p = t[j].p
             PROVE  /\ t[j].o - t[i].o = j - i
                    /\ \A k \in i .. j : t[k].p = t[i].p
  BY DEF InRuns
<1>1. /\ i + d \in DOMAIN s /\ j + d \in DOMAIN s /\ t[i] = s[i + d] /\ t[j] = s[j + d] /\ i + d < j + d
      /\ (j + d) - (i + d) = j - i
  BY DEF Drops
<1>2. s[j + d].o - s[i + d].o = (j + d) - (i + d) /\ \A k \in (i + d) .. (j + d) : s[k].p = s[i + d].p
  BY <1>1 DEF InRuns
<1>3. ASSUME NEW k \in i .. j
      PROVE  t[k].p = t[i].p
  <2>1. k \in 1 .. Len(t) /\ k + d \in (i + d) .. (j + d)
    OBVIOUS
  <2> QED BY <1>1, <1>2, <2>1 DEF Drops
<1> QED BY <1>1, <1>2, <1>3

(* A step of the loop that goes on, with what it keeps of the poll and of the *)
(* offsets, and where the client is then.                                     *)
StartsNext(m, rest) == ~stopping[m] /\ \E i \in DOMAIN rest : Owns(m, rest[i].p)

GoesOnWell(m, rest, offsets, place) ==
  /\ \A p \in Partitions : IsOver(Over', p, offsets[p])
  /\ StartsNext(m, rest) => Ordered(Over', rest)
  /\ ~stopping[m] => \A r \in Record : Owns(m, r.p) /\ r.o < place[r.p] =>
                        r \in Over' \/ \E i \in DOMAIN rest : r = rest[i]
  /\ InRuns(rest)
  /\ ~overran[m] =>
       /\ StartsNext(m, rest) =>
            \A i \in DOMAIN rest : /\ rest[i].p \in holds[m]
                                   /\ committed[rest[i].p] <= rest[i].o /\ offsets[rest[i].p] <= rest[i].o
                                   /\ rest[i].o < place[rest[i].p]
       /\ \A p \in Partitions : /\ Holds(m, p) => committed[p] <= place[p] /\ offsets[p] <= place[p]
                                /\ offsets[p] > 0 => Holds(m, p) /\ offsets[p] >= committed[p]
                                /\ offsets[p] > 0 /\ told[m][p] > 0 => told[m][p] = offsets[p]

LEMMA GoesOnKeeps ==
  ASSUME KInv, NEW m \in Members, NEW rest \in Seq(Record), Len(rest) <= MaxPoll, NEW offsets \in Offsets,
         Busy(m) \/ task[m] = "polling", GoesOn(m, rest, offsets),
         NEW place \in Offsets, position' = [position EXCEPT ![m] = place],
         GoesOnWell(m, rest, offsets, place),
         RetryTypes', paused' \in [Members -> SUBSET Partitions],
         handled \subseteq handled', handled' \subseteq Record, mishaps' \in 0 .. MaxMishaps,
         UNCHANGED <<brokerVars, passed, stopping, rebalance, awaited, told, assigned, revoking, holds, overran>>
  PROVE  KInv'
<1> USE InvTypes
<1>1. /\ UNCHANGED <<end, committed, reached, group, forming, reset, passed, stopping, rebalance, awaited, told,
                     assigned, revoking, holds, overran>>
      /\ position'[m] = place /\ \A n \in Members \ {m} : position'[n] = position[n]
  BY DEF brokerVars, ClientTypes
<1>2. BrokerTypes' /\ FlowTypes' /\ ClientTypes'
  <2>1. BrokerTypes' /\ ClientTypes'
    BY <1>1 DEF BrokerTypes, ClientTypes
  <2> QED BY <2>1, GoesOnFlow
<1>3. MemberInv(m) /\ Over' = handled' \cup passed' /\ Over \subseteq Over' /\ rebalance[m] # "off"
  BY <1>1 DEF KInv, Over, MemberInv, OwnsByTurn, Busy
<1>4. \A p \in Partitions : Owns(m, p)' <=> Owns(m, p)
  BY <1>1 DEF Owns
<1>5. \A p \in Partitions : Holds(m, p)' <=> Holds(m, p)
  BY <1>1 DEF Holds
<1>6. \A p \in Partitions : p \in assigned[m] /\ m \in group => Holds(m, p)
  BY <1>3 DEF MemberInv, OwnsByTurn, Holds, ClientTypes
<1>7. \A p \in Partitions : \A r \in Record : r.p = p /\ r.o < told[m][p] => r \in Over'
  BY <1>3 DEF MemberInv, SkipsNothing, Behind
<1>8. CASE EndsPoll(m, offsets) /\ (stopping[m] \/ \A i \in 1 .. Len(rest) : ~Owns(m, rest[i].p))
  <2>1. PICK kept \in Offsets :
          /\ \A p \in Partitions : kept[p] = IF p \in assigned[m] THEN offsets[p] ELSE 0
          /\ batch' = [batch EXCEPT ![m] = <<>>] /\ pending' = [pending EXCEPT ![m] = kept]
          /\ sent' = [sent EXCEPT ![m] = kept] /\ fenced' = [fenced EXCEPT ![m] = kept # None /\ m \notin group]
          /\ task' = [task EXCEPT ![m] = IF kept # None THEN "committing"
                                         ELSE IF stopping[m] THEN "closing" ELSE "polling"]
    <3>1. Keep(offsets, assigned[m]) \in Offsets
          /\ \A p \in Partitions : Keep(offsets, assigned[m])[p] = IF p \in assigned[m] THEN offsets[p] ELSE 0
      BY KeepIs
    <3> QED BY <1>8, <3>1 DEF EndsPoll
  <2>2. /\ batch'[m] = <<>> /\ pending'[m] = kept /\ sent'[m] = kept /\ fenced'[m] = (kept # None /\ m \notin group)
        /\ task'[m] # "down" /\ ~Busy(m)'
    BY <2>1 DEF FlowTypes, Busy
  <2>3. ASSUME NEW p \in Partitions, Sends(m, p)'
        PROVE  Holds(m, p)
    <3>1. kept[p] > 0 /\ ~(kept # None /\ m \notin group)
      BY <2>2, <2>3 DEF Sends
    <3>2. kept # None
      BY <3>1, NotNone
    <3>3. p \in assigned[m]
      BY <2>1, <3>1
    <3> QED BY <1>6, <3>1, <3>2, <3>3
  <2>4. SkipsNothing(m)'
    <3>1. \A p \in Partitions : \A r \in Record : r.p = p /\ r.o < kept[p] => r \in Over'
      BY <2>1, RecordIs DEF GoesOnWell, IsOver
    <3>2. \A p \in Partitions : Behind(p, pending[m][p])' /\ Behind(p, sent[m][p])' /\ Behind(p, told[m][p])'
      BY <1>1, <1>7, <2>2, <3>1 DEF Behind
    <3>3. ~stopping[m] => \A r \in Record : Owns(m, r.p) /\ r.o < place[r.p] => r \in Over'
      BY <1>3, <1>8 DEF GoesOnWell
    <3> QED BY <1>1, <1>4, <2>2, <3>2, <3>3, RecordIs DEF SkipsNothing, InOrder
  <2>5. OwnsByTurn(m)'
    BY <1>1, <1>3, <2>2 DEF MemberInv, OwnsByTurn
  <2>6. RunsItsOwn(m)' /\ InRuns(batch[m])'
    BY <1>1, <1>3, <2>2 DEF MemberInv, RunsItsOwn, InRuns
  <2>7. ASSUME ~overran[m]
        PROVE  RunsAhead(m)' /\ \A p \in Partitions : Ahead(m, p)'
    <3>1. \A p \in Partitions : Ahead(m, p) /\ committed[p] \in Int /\ kept[p] \in Nat /\ offsets[p] \in Nat /\ place[p] \in Nat
      BY <1>3, <2>7, Sizes DEF MemberInv, GoesForward, BrokerTypes, Offsets
    <3>2. \A p \in Partitions : /\ Holds(m, p) => committed[p] <= place[p] /\ offsets[p] <= place[p]
                                /\ offsets[p] > 0 => Holds(m, p) /\ offsets[p] >= committed[p]
                                /\ offsets[p] > 0 /\ told[m][p] > 0 => told[m][p] = offsets[p]
      BY <2>7 DEF GoesOnWell
    <3>3. RunsAhead(m)'
      BY <1>1, <1>5, <2>1, <2>2, <3>1, <3>2 DEF RunsAhead
    <3>4. \A p \in Partitions : Ahead(m, p)'
      BY <1>1, <1>5, <2>1, <2>2, <2>3, <3>1, <3>2 DEF Ahead, Sends
    <3> QED BY <3>3, <3>4
  <2>8. GoesForward(m)'
    BY <1>1, <2>7 DEF GoesForward
  <2>9. \A n \in Members \ {m} : Same(n)
    BY <1>1, <2>1 DEF Same, FlowTypes
  <2>10. \A p \in Partitions : Claims(m, p)' => Claims(m, p)
    BY <1>5, <2>3 DEF Claims
  <2>11. MemberInv(m)'
    BY <2>4, <2>5, <2>6, <2>8 DEF MemberInv
  <2> QED BY <1>1, <1>2, <1>3, <2>9, <2>10, <2>11, TypesAfter, StepOfOne
<1>9. ASSUME ~stopping[m], NEW next \in Seq(Record), NEW d \in 0 .. Len(rest),
             next # <<>>, Drops(rest, next, d), Owns(m, next[1].p),
             \A i \in 1 .. d : ~Owns(m, rest[i].p), Goes(m, next, offsets)
      PROVE  KInv'
  <2>1. /\ batch'[m] = next /\ pending'[m] = offsets /\ task'[m] \in {"burying", "handling"} /\ Busy(m)'
        /\ UNCHANGED <<sent, fenced>> /\ sent[m] = None
    BY <1>9 DEF Goes, FlowTypes, Busy
  <2>2. next[1] = rest[d + 1] /\ next[1] \in Record /\ d < Len(rest) /\ 1 \in DOMAIN next /\ next[1].p \in Partitions
    <3>1. Len(next) > 0 /\ 1 \in 1 .. Len(next) /\ next[1] \in Record
      BY <1>9
    <3>2. next[1] = rest[1 + d] /\ d < Len(rest)
      BY <1>9, <3>1 DEF Drops
    <3>3. 1 + d = d + 1
      OBVIOUS
    <3> QED BY <3>1, <3>2, <3>3, RecordIs
  <2> StartsNext(m, rest)
    BY <1>9, <2>2 DEF StartsNext
  <2>3. rebalance[m] = "steady" /\ assigned[m] = holds[m]
    BY <1>3, <1>9, <2>2 DEF MemberInv, OwnsByTurn, Owns, ClientTypes
  <2>4. \A p \in Partitions : ~Sends(m, p)'
    BY <2>1 DEF Sends
  <2>5. SkipsNothing(m)'
    <3>1. \A p \in Partitions : Behind(p, pending[m][p])' /\ Behind(p, sent[m][p])' /\ Behind(p, told[m][p])'
      BY <1>1, <1>7, <2>1, NoneIs, RecordIs DEF GoesOnWell, IsOver, Behind
    <3>2. InOrder(batch[m])'
      <4>1. Ordered(Over', rest)
        BY DEF GoesOnWell
      <4>2. d > 0 => rest[d].p # rest[d + 1].p
        BY <1>9, <2>2
      <4>3. Ordered(Over', next)
        BY <1>9, <4>1, <4>2, OrderOfRest
      <4> QED BY <2>1, <4>3 DEF Ordered, IsOver, InOrder, Behind
    <3>3. \A r \in Record : Owns(m, r.p) /\ r.o < place[r.p] => r \in Over' \/ \E i \in DOMAIN next : r = next[i]
      <4> SUFFICES ASSUME NEW r \in Record, Owns(m, r.p), r.o < place[r.p], r \notin Over'
                   PROVE  \E i \in DOMAIN next : r = next[i]
        OBVIOUS
      <4>1. PICK i \in DOMAIN rest : r = rest[i]
        BY <1>3, <1>9 DEF GoesOnWell
      <4>2. i \in 1 .. Len(rest) /\ i \notin 1 .. d
        BY <1>9, <4>1
      <4>3. i - d \in 1 .. Len(next) /\ (i - d) + d = i
        BY <1>9, <4>2 DEF Drops
      <4>4. next[i - d] = rest[i]
        BY <1>9, <4>3 DEF Drops
      <4> QED BY <4>1, <4>3, <4>4
    <3> QED BY <1>1, <1>4, <2>1, <3>1, <3>2, <3>3, RecordIs DEF SkipsNothing
  <2>6. OwnsByTurn(m)'
    BY <1>1, <1>3, <2>1, <2>3 DEF MemberInv, OwnsByTurn
  <2>7. InRuns(batch[m])'
    <3>1. InRuns(next)
      BY <1>9, RunsOfRest DEF GoesOnWell
    <3> QED BY <2>1, <3>1 DEF InRuns
  <2>8. ASSUME NEW i \in DOMAIN next
        PROVE  /\ next[i].p \in Partitions /\ next[i].o \in Nat
               /\ ~overran[m] => /\ Holds(m, next[i].p) /\ committed[next[i].p] <= next[i].o
                                 /\ offsets[next[i].p] <= next[i].o /\ next[i].o < place[next[i].p]
    <3>1. i + d \in DOMAIN rest /\ next[i] = rest[i + d] /\ next[i] \in Record
      BY <1>9 DEF Drops
    <3>2. ~overran[m] => m \in group
      BY <1>3, <2>3 DEF MemberInv, RunsItsOwn
    <3> QED BY <2>3, <3>1, <3>2, RecordIs DEF GoesOnWell, Holds
  <2>9. RunsItsOwn(m)'
    BY <1>1, <1>3, <1>5, <2>1, <2>3, <2>8 DEF MemberInv, RunsItsOwn
  <2>10. ASSUME ~overran[m]
         PROVE  RunsAhead(m)' /\ \A p \in Partitions : Ahead(m, p)'
    <3>1. \A p \in Partitions : Ahead(m, p)
      BY <1>3, <2>10 DEF MemberInv, GoesForward
    <3>2. \A p \in Partitions : /\ Holds(m, p) => committed[p] <= place[p] /\ offsets[p] <= place[p]
                                /\ offsets[p] > 0 => Holds(m, p) /\ offsets[p] >= committed[p]
                                /\ offsets[p] > 0 /\ told[m][p] > 0 => told[m][p] = offsets[p]
      BY <2>10 DEF GoesOnWell
    <3>3. RunsAhead(m)'
      BY <1>1, <1>5, <2>1, <2>4, <2>8, <2>10, <3>2 DEF RunsAhead
    <3>4. \A p \in Partitions : Ahead(m, p)'
      BY <1>1, <1>5, <2>1, <2>4, <3>1, <3>2 DEF Ahead
    <3> QED BY <3>3, <3>4
  <2>11. GoesForward(m)'
    BY <1>1, <2>10 DEF GoesForward
  <2>12. \A n \in Members \ {m} : Same(n)
    BY <1>1, <1>9 DEF Same, FlowTypes, Goes
  <2>13. \A p \in Partitions : Claims(m, p)' => Claims(m, p)
    BY <1>5, <2>4 DEF Claims
  <2>14. MemberInv(m)'
    BY <2>5, <2>6, <2>7, <2>9, <2>11 DEF MemberInv
  <2> QED BY <1>1, <1>2, <1>3, <2>12, <2>13, <2>14, TypesAfter, StepOfOne
<1> QED BY <1>8, <1>9, GoesOnIs

LEMMA OrderedBatch ==
  ASSUME KInv, NEW m \in Members, Over \subseteq Over'
  PROVE  Ordered(Over', batch[m])
  BY DEF KInv, MemberInv, SkipsNothing, InOrder, Behind, Ordered, IsOver

(* What the invariant says of the record in flight.                           *)
LEMMA InFlightAhead ==
  ASSUME KInv, NEW m \in Members, Busy(m), ~overran[m]
  PROVE  /\ \A i \in DOMAIN batch[m] : /\ Holds(m, batch[m][i].p) /\ batch[m][i].p \in holds[m]
                                       /\ committed[batch[m][i].p] <= batch[m][i].o
                                       /\ pending[m][batch[m][i].p] <= batch[m][i].o
                                       /\ batch[m][i].o < position[m][batch[m][i].p]
         /\ \A p \in Partitions : /\ Ahead(m, p) /\ ~(told[m][p] > 0)
                                  /\ Holds(m, p) => committed[p] <= position[m][p] /\ pending[m][p] <= position[m][p]
<1>1. MemberInv(m)
  BY DEF KInv
<1>2. rebalance[m] # "telling" /\ \A i \in DOMAIN batch[m] : Holds(m, batch[m][i].p) /\ batch[m][i].p \in holds[m]
  BY <1>1 DEF MemberInv, RunsItsOwn, Holds
<1>3. RunsAhead(m) /\ \A p \in Partitions : Ahead(m, p)
  BY <1>1 DEF MemberInv, GoesForward
<1>4. \A p \in Partitions : ~(told[m][p] > 0)
  BY <1>1, <1>2 DEF MemberInv, OwnsByTurn
<1> QED BY <1>2, <1>3, <1>4 DEF RunsAhead

LEMMA DoneWell ==
  ASSUME KInv, NEW m \in Members, Busy(m), handled' = handled \cup {Current(m)}, passed' = passed,
         NEW r \in Record, r = Current(m)
  PROVE  GoesOnWell(m, Tail(batch[m]), [pending[m] EXCEPT ![r.p] = r.o + 1], position[m])
<1> USE InvTypes
<1> DEFINE rest == Tail(batch[m])
           offsets == [pending[m] EXCEPT ![r.p] = r.o + 1]
<1>1. /\ batch[m] \in Seq(Record) /\ 1 \in DOMAIN batch[m] /\ r = batch[m][1]
      /\ rest \in Seq(Record) /\ Drops(batch[m], rest, 1)
  BY InFlight
<1>2. Over \subseteq Over' /\ r \in Over' /\ MemberInv(m)
  BY DEF Over, KInv
<1>3. r.p \in Partitions /\ r.o \in 0 .. Length - 1
  BY RecordIs
<1>4. \A p \in Partitions : /\ offsets[p] = IF p = r.p THEN r.o + 1 ELSE pending[m][p]
                            /\ pending[m][p] \in Nat
  BY <1>3 DEF FlowTypes, Offsets
<1> HIDE DEF rest, offsets
<1>5. IsOver(Over', r.p, r.o + 1)
  BY <1>2, DoneBehind DEF Behind, IsOver
<1>6. \A p \in Partitions : IsOver(Over', p, offsets[p])
  BY <1>2, <1>4, <1>5 DEF MemberInv, SkipsNothing, Behind, IsOver
<1>7. Ordered(Over', rest)
  <2>1. Ordered(Over', batch[m])
    BY <1>2, OrderedBatch
  <2>2. 1 < Len(batch[m]) => IsOver(Over', batch[m][2].p, batch[m][2].o) \/ Follows(batch[m][2], r)
    <3>1. 1 < Len(batch[m]) => 2 \in DOMAIN batch[m] /\ 2 - 1 = 1
      BY <1>1
    <3> QED BY <1>1, <2>1, <3>1 DEF Ordered
  <2>3. 1 < Len(batch[m]) => IsOver(Over', batch[m][1 + 1].p, batch[m][1 + 1].o)
    BY <1>5, <2>2 DEF Follows
  <2> QED BY <1>1, <2>1, <2>3, OrderOfRest
<1>8. ~stopping[m] => \A s \in Record : Owns(m, s.p) /\ s.o < position[m][s.p] =>
                        s \in Over' \/ \E i \in DOMAIN rest : s = rest[i]
  <2> SUFFICES ASSUME ~stopping[m], NEW s \in Record, Owns(m, s.p), s.o < position[m][s.p], s \notin Over'
               PROVE  \E i \in DOMAIN rest : s = rest[i]
    OBVIOUS
  <2>1. PICK i \in DOMAIN batch[m] : s = batch[m][i]
    BY <1>2 DEF MemberInv, SkipsNothing
  <2>2. i # 1 /\ i \in 1 .. Len(batch[m])
    BY <1>1, <1>2, <2>1
  <2>3. i - 1 \in 1 .. Len(rest) /\ (i - 1) + 1 = i
    BY <1>1, <2>2 DEF Drops
  <2>4. rest[i - 1] = batch[m][i]
    BY <1>1, <2>3 DEF Drops
  <2> QED BY <1>1, <2>1, <2>3, <2>4
<1>9. InRuns(rest)
  BY <1>1, <1>2, RunsOfRest DEF MemberInv
<1>10. ASSUME ~overran[m], NEW i \in DOMAIN rest
       PROVE  /\ rest[i].p \in holds[m]
              /\ committed[rest[i].p] <= rest[i].o /\ offsets[rest[i].p] <= rest[i].o
              /\ rest[i].o < position[m][rest[i].p]
  <2>1. i \in 1 .. Len(rest) /\ i + 1 \in DOMAIN batch[m] /\ rest[i] = batch[m][i + 1] /\ rest[i] \in Record
    BY <1>1, <1>10 DEF Drops
  <2>2. /\ rest[i].p \in holds[m] /\ committed[rest[i].p] <= rest[i].o /\ pending[m][rest[i].p] <= rest[i].o
        /\ rest[i].o < position[m][rest[i].p]
    BY <1>10, <2>1, InFlightAhead
  <2>3. rest[i].p = r.p => rest[i].o - r.o = (i + 1) - 1
    BY <1>1, <1>2, <2>1 DEF MemberInv, InRuns
  <2>4. rest[i].o \in Nat /\ rest[i].p \in Partitions
    BY <2>1, RecordIs
  <2> QED BY <1>3, <1>4, <2>1, <2>2, <2>3, <2>4
<1>11. ASSUME ~overran[m], NEW p \in Partitions
       PROVE  /\ Holds(m, p) => committed[p] <= position[m][p] /\ offsets[p] <= position[m][p]
              /\ offsets[p] > 0 => Holds(m, p) /\ offsets[p] >= committed[p]
              /\ offsets[p] > 0 /\ told[m][p] > 0 => told[m][p] = offsets[p]
  <2>1. /\ Holds(m, r.p) /\ committed[r.p] <= r.o /\ r.o < position[m][r.p]
        /\ Ahead(m, p) /\ ~(told[m][p] > 0)
        /\ Holds(m, p) => committed[p] <= position[m][p] /\ pending[m][p] <= position[m][p]
    BY <1>1, <1>11, InFlightAhead
  <2>2. position[m][p] \in Nat /\ committed[p] \in Int
    BY Sizes DEF ClientTypes, BrokerTypes, Offsets
  <2> QED BY <1>3, <1>4, <2>1, <2>2 DEF Ahead
<1>12. GoesOnWell(m, rest, offsets, position[m])
  BY <1>6, <1>7, <1>8, <1>9, <1>10, <1>11 DEF GoesOnWell
<1> QED BY <1>12 DEF rest, offsets

LEMMA DoneKeeps ==
  ASSUME KInv, NEW m \in Members, Busy(m), Done(m),
         UNCHANGED <<brokerVars, passed, mishaps, stopping, resumes, clientVars, overran>>
  PROVE  KInv'
<1> USE InvTypes
<1>1. PICK r \in Record : r = Current(m) /\ r.p \in Partitions /\ r.o \in 0 .. Length - 1
  BY InFlight, RecordIs
<1>2. /\ handled' = handled \cup {Current(m)}
      /\ failures' = [failures EXCEPT ![m][r] = 0] /\ recovering' = [recovering EXCEPT ![m] = @ \ {r}]
      /\ GoesOn(m, Tail(batch[m]), [pending[m] EXCEPT ![r.p] = r.o + 1])
  BY <1>1, Zenon DEF Done
<1>3. RetryTypes'
  <2>1. failures' \in [Members -> [Record -> 0 .. MaxAttempts - 1]]
    BY <1>2, Sizes DEF RetryTypes
  <2> QED BY <1>2, <2>1 DEF RetryTypes
<1>4. [pending[m] EXCEPT ![r.p] = r.o + 1] \in Offsets
  BY <1>1, Sizes DEF FlowTypes, Offsets
<1>5. Tail(batch[m]) \in Seq(Record) /\ Len(Tail(batch[m])) <= MaxPoll
  BY InFlight, Sizes DEF Drops
<1>6. /\ UNCHANGED <<rebalance, awaited, told, assigned, revoking, holds, position, paused>>
      /\ position[m] \in Offsets /\ position' = [position EXCEPT ![m] = position[m]]
      /\ paused' \in [Members -> SUBSET Partitions]
  BY DEF clientVars, ClientTypes
<1>7. handled \subseteq handled' /\ handled' \subseteq Record /\ mishaps' \in 0 .. MaxMishaps
  BY <1>1, <1>2 DEF BrokerTypes
<1>8. GoesOnWell(m, Tail(batch[m]), [pending[m] EXCEPT ![r.p] = r.o + 1], position[m])
  BY <1>1, <1>2, DoneWell
<1> QED BY <1>2, <1>3, <1>4, <1>5, <1>6, <1>7, <1>8, GoesOnKeeps

LEMMA HandlesKeeps ==
  ASSUME KInv, NEW m \in Members, Handles(m) \/ Buries(m)
  PROVE  KInv'
<1>1. Busy(m) /\ Done(m) /\ UNCHANGED <<brokerVars, passed, mishaps, stopping, resumes, clientVars, overran>>
  BY DEF Handles, Buries, Busy
<1> QED BY <1>1, DoneKeeps

(* What is left when the partition of the record in flight is dropped.        *)
LEMMA AllButPartitionIs ==
  ASSUME FlowTypes, NEW m \in Members, Busy(m), NEW r \in Record, r = Current(m), InRuns(batch[m])
  PROVE  \E rest \in Seq(Record), d \in 1 .. Len(batch[m]) :
           /\ rest = AllButPartition(m) /\ Drops(batch[m], rest, d)
           /\ \A i \in 1 .. d : batch[m][i].p = r.p
           /\ \A i \in DOMAIN rest : rest[i].p # r.p /\ i + d \in DOMAIN batch[m] /\ rest[i] = batch[m][i + d]
<1> DEFINE at == {i \in DOMAIN batch[m] : batch[m][i].p # r.p}
           rest == From(batch[m], at)
<1>1. batch[m] \in Seq(Record) /\ 1 \in 1 .. Len(batch[m]) /\ r = batch[m][1]
  BY InFlight
<1>2. at \in SUBSET DOMAIN batch[m] /\ 1 \notin at
  BY <1>1
<1>3. /\ rest \in Seq(Record) /\ (at = {} <=> rest = <<>>)
      /\ \E d \in 0 .. Len(batch[m]) :
           /\ Drops(batch[m], rest, d)
           /\ at # {} => d + 1 \in at
           /\ \A j \in 1 .. d : j \notin at
  <2> HIDE DEF at
  <2> QED BY <1>1, <1>2, FromIs
<1>4. PICK d \in 0 .. Len(batch[m]) :
           /\ Drops(batch[m], rest, d)
           /\ at # {} => d + 1 \in at
           /\ \A j \in 1 .. d : j \notin at
  BY <1>3
<1>5. d \in 1 .. Len(batch[m])
  <2>1. CASE at = {}
    <3>1. rest = <<>>
      BY <1>3, <2>1
    <3>2. Len(rest) = 0
      BY <3>1
    <3> QED BY <1>1, <1>4, <3>2 DEF Drops
  <2>2. CASE at # {}
    <3>1. d + 1 # 1
      BY <1>2, <1>4, <2>2
    <3> QED BY <3>1
  <2> QED BY <2>1, <2>2
<1>6. \A i \in 1 .. d : batch[m][i].p = r.p
  BY <1>4, <1>5
<1>7. ASSUME NEW i \in DOMAIN rest
      PROVE  rest[i].p # r.p /\ i + d \in DOMAIN batch[m] /\ rest[i] = batch[m][i + d]
  <2>1. i \in 1 .. Len(rest) /\ i \in Int
    BY <1>3
  <2>2. i + d \in 1 .. Len(batch[m]) /\ rest[i] = batch[m][i + d]
    BY <1>4, <2>1 DEF Drops
  <2>3. at # {}
    BY <1>3, <2>1
  <2>4. d + 1 \in DOMAIN batch[m] /\ batch[m][d + 1].p # r.p
    BY <1>4, <2>3
  <2>5. ASSUME rest[i].p = r.p
        PROVE  FALSE
    <3>1. 1 < i + d /\ d + 1 \in 1 .. (i + d) /\ batch[m][1].p = batch[m][i + d].p
      BY <1>1, <1>5, <2>1, <2>2, <2>5
    <3>2. \A k \in 1 .. (i + d) : batch[m][k].p = batch[m][1].p
      BY <1>1, <2>2, <3>1 DEF InRuns
    <3> QED BY <1>1, <2>4, <3>1, <3>2
  <2> QED BY <2>2, <2>5
<1>8. rest = AllButPartition(m)
  BY DEF AllButPartition
<1> HIDE DEF rest
<1> QED BY <1>3, <1>4, <1>5, <1>6, <1>7, <1>8

LEMMA BackOffWell ==
  ASSUME KInv, NEW m \in Members, Busy(m), Over \subseteq Over',
         NEW r \in Record, r = Current(m), NEW rest \in Seq(Record), NEW d \in 1 .. Len(batch[m]),
         Drops(batch[m], rest, d), \A i \in 1 .. d : batch[m][i].p = r.p,
         \A i \in DOMAIN rest : rest[i].p # r.p /\ i + d \in DOMAIN batch[m] /\ rest[i] = batch[m][i + d],
         NEW place \in Offsets,
         \A p \in Partitions : place[p] = IF p = r.p /\ p \in holds[m] THEN r.o ELSE position[m][p]
  PROVE  GoesOnWell(m, rest, pending[m], place)
<1> USE InvTypes
<1>1. batch[m] \in Seq(Record) /\ 1 \in DOMAIN batch[m] /\ r = batch[m][1] /\ r.p \in Partitions /\ r.o \in Nat
  BY InFlight, RecordIs
<1>2. MemberInv(m)
  BY DEF KInv
<1>3. \A p \in Partitions : IsOver(Over', p, pending[m][p])
  BY <1>2 DEF MemberInv, SkipsNothing, Behind, IsOver
<1>4. Ordered(Over', rest)
  <2>1. Ordered(Over', batch[m])
    BY OrderedBatch
  <2>2. d < Len(batch[m]) => batch[m][d].p # batch[m][d + 1].p
    <3> SUFFICES ASSUME d < Len(batch[m])
                 PROVE  batch[m][d].p # batch[m][d + 1].p
      OBVIOUS
    <3>1. 1 \in 1 .. Len(rest) /\ d \in 1 .. d
      BY <1>1 DEF Drops
    <3>2. rest[1] = batch[m][1 + d] /\ rest[1].p # r.p
      BY <3>1
    <3>3. 1 + d = d + 1
      OBVIOUS
    <3> QED BY <3>1, <3>2, <3>3
  <2> QED BY <1>1, <2>1, <2>2, OrderOfRest
<1>5. ~stopping[m] => \A s \in Record : Owns(m, s.p) /\ s.o < place[s.p] =>
                        s \in Over' \/ \E i \in DOMAIN rest : s = rest[i]
  <2> SUFFICES ASSUME ~stopping[m], NEW s \in Record, Owns(m, s.p), s.o < place[s.p], s \notin Over'
               PROVE  \E i \in DOMAIN rest : s = rest[i]
    OBVIOUS
  <2>1. s.p \in Partitions /\ s.p \in holds[m]
    BY RecordIs DEF Owns, ClientTypes
  <2>2. s.p # r.p
    <3>1. Behind(r.p, r.o)
      BY <1>1, <1>2 DEF MemberInv, SkipsNothing, InOrder
    <3> QED BY <2>1, <3>1 DEF Behind
  <2>3. PICK i \in DOMAIN batch[m] : s = batch[m][i]
    BY <1>2, <2>1, <2>2 DEF MemberInv, SkipsNothing
  <2>4. i \in 1 .. Len(batch[m]) /\ i \notin 1 .. d
    BY <1>1, <2>2, <2>3
  <2>5. i - d \in 1 .. Len(rest) /\ (i - d) + d = i
    BY <2>4 DEF Drops
  <2>6. rest[i - d] = batch[m][i]
    BY <2>5
  <2> QED BY <2>3, <2>5, <2>6
<1>6. InRuns(rest)
  BY <1>1, <1>2, RunsOfRest DEF MemberInv
<1>7. ASSUME ~overran[m], NEW i \in DOMAIN rest
      PROVE  /\ rest[i].p \in holds[m]
             /\ committed[rest[i].p] <= rest[i].o /\ pending[m][rest[i].p] <= rest[i].o
             /\ rest[i].o < place[rest[i].p]
  <2>1. rest[i].p # r.p /\ i + d \in DOMAIN batch[m] /\ rest[i] = batch[m][i + d] /\ rest[i].p \in Partitions
    BY RecordIs
  <2>2. PICK j \in DOMAIN batch[m] : rest[i] = batch[m][j]
    BY <2>1
  <2>3. /\ batch[m][j].p \in holds[m]
        /\ committed[batch[m][j].p] <= batch[m][j].o /\ pending[m][batch[m][j].p] <= batch[m][j].o
        /\ batch[m][j].o < position[m][batch[m][j].p]
    BY <1>7, InFlightAhead
  <2>4. place[rest[i].p] = position[m][rest[i].p]
    BY <2>1
  <2> QED BY <2>2, <2>3, <2>4
<1>8. ASSUME ~overran[m], NEW p \in Partitions
      PROVE  /\ Holds(m, p) => committed[p] <= place[p] /\ pending[m][p] <= place[p]
             /\ pending[m][p] > 0 => Holds(m, p) /\ pending[m][p] >= committed[p]
             /\ pending[m][p] > 0 /\ told[m][p] > 0 => told[m][p] = pending[m][p]
  <2>1. /\ committed[r.p] <= r.o /\ pending[m][r.p] <= r.o
        /\ Ahead(m, p) /\ ~(told[m][p] > 0)
        /\ Holds(m, p) => committed[p] <= position[m][p] /\ pending[m][p] <= position[m][p]
    BY <1>1, <1>8, InFlightAhead
  <2> QED BY <2>1 DEF Ahead
<1> QED BY <1>3, <1>4, <1>5, <1>6, <1>7, <1>8 DEF GoesOnWell

LEMMA BacksOffKeeps ==
  ASSUME KInv, NEW m \in Members, NEW took \in BOOLEAN, Busy(m), Took(m, took), BacksOff(m),
         failures' \in [Members -> [Record -> 0 .. MaxAttempts - 1]],
         recovering' \in [Members -> SUBSET Record],
         mishaps' \in 0 .. MaxMishaps
  PROVE  KInv'
<1> USE InvTypes
<1>1. PICK r \in Record : r = Current(m) /\ r.p \in Partitions /\ r.o \in 0 .. Length - 1
  BY InFlight, RecordIs
<1>2. PICK rest \in Seq(Record), d \in 1 .. Len(batch[m]) :
           /\ rest = AllButPartition(m) /\ Drops(batch[m], rest, d)
           /\ \A i \in 1 .. d : batch[m][i].p = r.p
           /\ \A i \in DOMAIN rest : rest[i].p # r.p /\ i + d \in DOMAIN batch[m] /\ rest[i] = batch[m][i + d]
  BY <1>1, AllButPartitionIs DEF KInv, MemberInv
<1>3. PICK place \in Offsets :
           /\ \A p \in Partitions : place[p] = IF p = r.p /\ p \in holds[m] THEN r.o ELSE position[m][p]
           /\ position' = [position EXCEPT ![m] = place]
  <2>1. CASE r.p \in holds[m]
    <3>1. position' = [position EXCEPT ![m] = [position[m] EXCEPT ![r.p] = r.o]]
      BY <1>1, <2>1 DEF BacksOff, ClientTypes
    <3>2. [position[m] EXCEPT ![r.p] = r.o] \in Offsets
      BY <1>1, Sizes DEF ClientTypes, Offsets
    <3>3. \A p \in Partitions : [position[m] EXCEPT ![r.p] = r.o][p] = IF p = r.p /\ p \in holds[m] THEN r.o ELSE position[m][p]
      BY <2>1 DEF ClientTypes, Offsets
    <3> QED BY <3>1, <3>2, <3>3
  <2>2. CASE r.p \notin holds[m]
    <3>1. position' = [position EXCEPT ![m] = position[m]] /\ position[m] \in Offsets
      BY <1>1, <2>2 DEF BacksOff, ClientTypes
    <3> QED BY <2>2, <3>1
  <2> QED BY <2>1, <2>2
<1>4. /\ GoesOn(m, rest, pending[m])
      /\ UNCHANGED <<brokerVars, passed, stopping, rebalance, awaited, told, assigned, revoking, holds, overran>>
  BY <1>2 DEF BacksOff
<1>5. resumes' \in [Members -> SUBSET Partitions] /\ paused' \in [Members -> SUBSET Partitions]
  <2>1. CASE r.p \in holds[m]
    <3>1. /\ paused' = [paused EXCEPT ![m] = @ \cup {r.p}] /\ resumes' = [resumes EXCEPT ![m] = @ \cup {r.p}]
      BY <1>1, <2>1 DEF BacksOff
    <3> QED BY <1>1, <3>1 DEF RetryTypes, ClientTypes
  <2>2. CASE r.p \notin holds[m]
    BY <1>1, <2>2 DEF BacksOff, RetryTypes, ClientTypes
  <2> QED BY <2>1, <2>2
<1>6. RetryTypes' /\ pending[m] \in Offsets
  BY <1>4, <1>5 DEF RetryTypes, FlowTypes
<1>7. handled \subseteq handled' /\ handled' \subseteq Record
  BY TookOver
<1>8. Over \subseteq Over'
  BY <1>4, <1>7 DEF Over
<1>9. GoesOnWell(m, rest, pending[m], place)
  <2>1. Drops(batch[m], rest, d) /\ r = Current(m) /\ Busy(m) /\ KInv
    BY <1>1, <1>2
  <2>2. \A i \in 1 .. d : batch[m][i].p = r.p
    BY <1>2, Zenon
  <2>3. \A i \in DOMAIN rest : rest[i].p # r.p /\ i + d \in DOMAIN batch[m] /\ rest[i] = batch[m][i + d]
    BY <1>2, Zenon
  <2>4. \A p \in Partitions : place[p] = IF p = r.p /\ p \in holds[m] THEN r.o ELSE position[m][p]
    BY <1>3, Zenon
  <2> QED BY <1>8, <2>1, <2>2, <2>3, <2>4, BackOffWell, Zenon
<1>10. Len(rest) <= MaxPoll
  BY <1>2, InFlight, Sizes DEF Drops
<1> QED BY <1>3, <1>4, <1>5, <1>6, <1>7, <1>9, <1>10, GoesOnKeeps

LEMMA HandlingFailsKeeps ==
  ASSUME KInv, NEW m \in Members, NEW took \in BOOLEAN, HandlingFails(m, took)
  PROVE  KInv'
<1> USE InvTypes
<1>1. PICK r \in Record : r = Current(m) /\ Busy(m)
  BY InFlight DEF HandlingFails, Busy
<1>2. failures[m][r] \in 0 .. MaxAttempts - 1 /\ failures[m][r] + 1 < MaxAttempts
  BY <1>1, Sizes DEF HandlingFails, LastAttempt, RetryTypes
<1>3. failures' \in [Members -> [Record -> 0 .. MaxAttempts - 1]]
  BY <1>1, <1>2, Sizes DEF HandlingFails, RetryTypes
<1>4. /\ Took(m, took) /\ BacksOff(m) /\ recovering' \in [Members -> SUBSET Record] /\ mishaps' \in 0 .. MaxMishaps
  BY DEF HandlingFails, RetryTypes, BrokerTypes
<1> QED BY <1>1, <1>3, <1>4, BacksOffKeeps

LEMMA BuryingFailsKeeps ==
  ASSUME KInv, NEW m \in Members, NEW took \in BOOLEAN, BuryingFails(m, took)
  PROVE  KInv'
<1> USE InvTypes
<1>1. PICK r \in Record : r = Current(m) /\ Busy(m)
  BY InFlight DEF BuryingFails, Busy
<1>2. /\ Took(m, took) /\ BacksOff(m) /\ failures' = failures
      /\ recovering' = [recovering EXCEPT ![m] = @ \cup {r}] /\ mishaps' \in 0 .. MaxMishaps
  BY <1>1, Sizes DEF BuryingFails, Mishap, BrokerTypes
<1>3. failures' \in [Members -> [Record -> 0 .. MaxAttempts - 1]] /\ recovering' \in [Members -> SUBSET Record]
  BY <1>2 DEF RetryTypes
<1> QED BY <1>1, <1>2, <1>3, BacksOffKeeps

(* A poll: the records of a partition follow each other from where the client *)
(* was.                                                                       *)
LEMMA BatchIs ==
  ASSUME KInv, NEW m \in Members, NEW ps, NEW to \in Fetchable(m, ps), NEW b \in Batches(m, to)
  PROVE  /\ to \in Offsets /\ \A p \in Partitions : position[m][p] <= to[p] /\ (p \notin ps => to[p] = position[m][p])
         /\ b \in Seq(Record) /\ Len(b) <= MaxPoll
         /\ \A i \in DOMAIN b : position[m][b[i].p] <= b[i].o /\ b[i].o < to[b[i].p]
         /\ \A r \in Record : position[m][r.p] <= r.o /\ r.o < to[r.p] => \E i \in DOMAIN b : b[i] = r
         /\ \A i, j \in DOMAIN b : i < j /\ b[i].p = b[j].p => b[j].o - b[i].o = j - i
<1> DEFINE fetched == {r \in Record : position[m][r.p] <= r.o /\ r.o < to[r.p]}
<1>1. to \in Offsets /\ \A p \in Partitions : IF p \in ps THEN position[m][p] <= to[p] /\ to[p] <= end[p] ELSE to[p] = position[m][p]
  BY DEF Fetchable
<1>2. /\ b \in UNION {[1 .. k -> fetched] : k \in 0 .. MaxPoll} /\ ToSet(b) = fetched
      /\ \A i, j \in DOMAIN b : i < j /\ b[i].p = b[j].p => b[j].o - b[i].o = j - i
  BY DEF Batches
<1>3. PICK k \in 0 .. MaxPoll : b \in [1 .. k -> fetched]
  BY <1>2
<1>4. b \in Seq(Record) /\ Len(b) = k
  <2>1. fetched \subseteq Record /\ k \in Nat
    BY <1>3, Sizes
  <2> HIDE DEF fetched
  <2> QED BY <1>3, <2>1
<1>5. \A i \in DOMAIN b : b[i] \in fetched
  <2> HIDE DEF fetched
  <2> QED BY <1>3
<1>6. \A r \in Record : position[m][r.p] <= r.o /\ r.o < to[r.p] => \E i \in DOMAIN b : b[i] = r
  BY <1>2 DEF ToSet
<1>7. \A p \in Partitions : position[m][p] \in Nat
  BY InvTypes DEF ClientTypes, Offsets
<1> QED BY <1>1, <1>2, <1>3, <1>4, <1>5, <1>6, <1>7, Sizes

LEMMA PollWell ==
  ASSUME KInv, NEW m \in Members, task[m] = "polling", Over' = Over,
         NEW ps \in SUBSET holds[m], NEW to \in Fetchable(m, ps), NEW b \in Batches(m, to)
  PROVE  GoesOnWell(m, b, pending[m], to)
<1> USE InvTypes
<1>1. /\ to \in Offsets /\ \A p \in Partitions : position[m][p] <= to[p] /\ (p \notin ps => to[p] = position[m][p])
      /\ b \in Seq(Record) /\ Len(b) <= MaxPoll
      /\ \A i \in DOMAIN b : position[m][b[i].p] <= b[i].o /\ b[i].o < to[b[i].p]
      /\ \A r \in Record : position[m][r.p] <= r.o /\ r.o < to[r.p] => \E i \in DOMAIN b : b[i] = r
      /\ \A i, j \in DOMAIN b : i < j /\ b[i].p = b[j].p => b[j].o - b[i].o = j - i
  BY BatchIs
<1>2. MemberInv(m) /\ batch[m] = <<>> /\ ~Busy(m)
  BY DEF KInv, FlowTypes, Busy
<1>3. \A p \in Partitions : /\ position[m][p] \in 0 .. Length /\ to[p] \in 0 .. Length /\ committed[p] \in Int
                            /\ pending[m][p] \in Nat
  BY <1>1 DEF ClientTypes, Offsets, BrokerTypes, FlowTypes
<1>4. \A i \in DOMAIN b : b[i] \in Record /\ b[i].p \in Partitions /\ b[i].o \in 0 .. Length - 1 /\ b[i].p \in holds[m] /\ i \in Int
  <2>1. \A i \in DOMAIN b : b[i] \in Record /\ i \in Int
    BY <1>1
  <2>2. \A i \in DOMAIN b : b[i].p \in Partitions /\ b[i].o \in 0 .. Length - 1
    BY <2>1, RecordIs
  <2> QED BY <1>1, <1>3, <2>1, <2>2
(* The records between two offsets of a partition are in the poll.            *)
<1>5. ASSUME NEW i \in DOMAIN b, NEW o \in 0 .. Length - 1, position[m][b[i].p] <= o, o <= b[i].o
      PROVE  \E j \in DOMAIN b : b[j].p = b[i].p /\ b[j].o = o /\ i - j = b[i].o - o
  <2>1. PICK r \in Record : r.p = b[i].p /\ r.o = o
    <3>1. [p |-> b[i].p, o |-> o] \in Record
      BY <1>4, <1>5 DEF Record
    <3> QED BY <3>1
  <2>2. o < to[r.p]
    BY <1>1, <1>3, <1>4, <1>5, <2>1
  <2>3. PICK j \in DOMAIN b : b[j] = r
    BY <1>1, <1>5, <2>1, <2>2
  <2>4. i < j => b[j].o - b[i].o = j - i
    BY <1>1, <2>1, <2>3
  <2>5. j < i => b[i].o - b[j].o = i - j
    BY <1>1, <2>1, <2>3
  <2> QED BY <1>4, <1>5, <2>1, <2>3, <2>4, <2>5
<1>6. ASSUME StartsNext(m, b)
      PROVE  rebalance[m] = "steady" /\ revoking[m] = {} /\ assigned[m] = holds[m] /\ ~stopping[m]
  BY <1>2, <1>4, <1>6 DEF MemberInv, OwnsByTurn, StartsNext, Owns, ClientTypes
<1>7. \A p \in Partitions : IsOver(Over', p, pending[m][p])
  BY <1>2 DEF MemberInv, SkipsNothing, Behind, IsOver
<1>8. ASSUME StartsNext(m, b), NEW i \in DOMAIN b
      PROVE  IsOver(Over', b[i].p, b[i].o) \/ (i > 1 /\ Follows(b[i], b[i - 1]))
  <2>1. CASE position[m][b[i].p] = b[i].o
    <3>1. Owns(m, b[i].p) /\ ~stopping[m]
      BY <1>4, <1>6, <1>8 DEF Owns
    <3> QED BY <1>2, <2>1, <3>1 DEF MemberInv, SkipsNothing, IsOver
  <2>2. CASE position[m][b[i].p] # b[i].o
    <3>1. b[i].o - 1 \in 0 .. Length - 1 /\ position[m][b[i].p] <= b[i].o - 1 /\ b[i].o - 1 <= b[i].o
      <4>1. position[m][b[i].p] \in 0 .. Length /\ b[i].o \in 0 .. Length - 1 /\ position[m][b[i].p] <= b[i].o
        BY <1>1, <1>3, <1>4, <1>8
      <4> QED BY <2>2, <4>1, Sizes
    <3>2. PICK j \in DOMAIN b : b[j].p = b[i].p /\ b[j].o = b[i].o - 1 /\ i - j = b[i].o - (b[i].o - 1)
      BY <1>5, <3>1
    <3>3. j = i - 1 /\ i > 1
      BY <1>1, <1>4, <3>2
    <3> QED BY <1>4, <3>2, <3>3 DEF Follows
  <2> QED BY <2>1, <2>2
<1>9. StartsNext(m, b) => Ordered(Over', b)
  BY <1>8 DEF Ordered
<1>10. ~stopping[m] => \A r \in Record : Owns(m, r.p) /\ r.o < to[r.p] =>
                         r \in Over' \/ \E i \in DOMAIN b : r = b[i]
  <2> SUFFICES ASSUME ~stopping[m], NEW r \in Record, Owns(m, r.p), r.o < to[r.p], r \notin Over'
               PROVE  \E i \in DOMAIN b : r = b[i]
    OBVIOUS
  <2>1. ~(r.o < position[m][r.p])
    BY <1>2 DEF MemberInv, SkipsNothing
  <2>2. r.p \in Partitions /\ r.o \in Nat /\ position[m][r.p] \in 0 .. Length
    BY <1>3, RecordIs
  <2>3. position[m][r.p] <= r.o
    BY <2>1, <2>2
  <2> QED BY <1>1, <2>3
<1>11. InRuns(b)
  <2>1. ASSUME NEW i \in DOMAIN b, NEW j \in DOMAIN b, i < j, b[i].p = b[j].p, NEW k \in i .. j
        PROVE  b[k].p = b[i].p
    <3>1. /\ b[j].o - b[i].o = j - i /\ b[j].o \in 0 .. Length - 1 /\ b[i].o \in 0 .. Length - 1
          /\ position[m][b[j].p] \in 0 .. Length /\ position[m][b[j].p] <= b[i].o
      BY <1>1, <1>3, <1>4, <2>1
    <3>2. i \in Int /\ j \in Int /\ k \in Int /\ i <= k /\ k <= j
      BY <1>4, <2>1
    <3>3. PICK o \in 0 .. Length - 1 : o = b[j].o - (j - k) /\ position[m][b[j].p] <= o /\ o <= b[j].o
      BY <3>1, <3>2, Sizes
    <3>4. PICK l \in DOMAIN b : b[l].p = b[j].p /\ b[l].o = o /\ j - l = b[j].o - o
      BY <1>5, <3>3
    <3>5. l = k
      <4>1. l \in Int /\ o \in Int /\ b[j].o \in Int
        BY <1>4, <3>1, <3>3, <3>4, Sizes
      <4>2. b[j].o - o = j - k
        BY <4>1, <3>2, <3>3
      <4> QED BY <4>1, <4>2, <3>2, <3>4
    <3> QED BY <2>1, <3>4, <3>5
  <2> QED BY <1>1, <2>1 DEF InRuns
<1>12. ASSUME ~overran[m], NEW p \in Partitions
       PROVE  /\ Holds(m, p) => committed[p] <= position[m][p] /\ pending[m][p] <= position[m][p]
              /\ Ahead(m, p)
  <2>1. GoesForward(m)
    BY <1>2 DEF MemberInv
  <2>2. RunsAhead(m) /\ Ahead(m, p)
    BY <1>12, <2>1 DEF GoesForward
  <2> QED BY <2>2 DEF RunsAhead
<1>13. ASSUME ~overran[m], StartsNext(m, b), NEW i \in DOMAIN b
       PROVE  /\ b[i].p \in holds[m]
              /\ committed[b[i].p] <= b[i].o /\ pending[m][b[i].p] <= b[i].o
              /\ b[i].o < to[b[i].p]
  <2>1. Holds(m, b[i].p)
    BY <1>2, <1>4, <1>6, <1>13 DEF MemberInv, RunsItsOwn, Holds
  <2>2. committed[b[i].p] <= position[m][b[i].p] /\ pending[m][b[i].p] <= position[m][b[i].p]
    BY <1>4, <1>12, <1>13, <2>1
  <2>3. b[i].p \in Partitions /\ b[i].p \in holds[m] /\ b[i].o \in Int
    BY <1>4, Sizes
  <2>4. position[m][b[i].p] <= b[i].o /\ b[i].o < to[b[i].p]
    BY <1>1
  <2>5. position[m][b[i].p] \in Int /\ committed[b[i].p] \in Int /\ pending[m][b[i].p] \in Int
    BY <1>3, <2>3, Sizes
  <2> QED BY <2>2, <2>3, <2>4, <2>5
<1>14. ASSUME ~overran[m], NEW p \in Partitions
       PROVE  /\ Holds(m, p) => committed[p] <= to[p] /\ pending[m][p] <= to[p]
              /\ pending[m][p] > 0 => Holds(m, p) /\ pending[m][p] >= committed[p]
              /\ pending[m][p] > 0 /\ told[m][p] > 0 => told[m][p] = pending[m][p]
  BY <1>1, <1>3, <1>12, <1>14 DEF Ahead
<1> QED BY <1>7, <1>9, <1>10, <1>11, <1>13, <1>14 DEF GoesOnWell

LEMMA PollsKeeps ==
  ASSUME KInv, NEW m \in Members, NEW due \in SUBSET resumes[m], Polls(m, due)
  PROVE  KInv'
<1> USE InvTypes
<1>1. /\ task[m] = "polling"
      /\ resumes' = [resumes EXCEPT ![m] = @ \ due]
      /\ paused' = [paused EXCEPT ![m] = @ \ (due \cap assigned[m])]
      /\ UNCHANGED <<brokerVars, handled, passed, mishaps, stopping, failures, recovering,
                     rebalance, awaited, told, assigned, revoking, holds, overran>>
  BY Zenon DEF Polls
<1>2. PICK ps \in SUBSET holds[m] : ps = holds[m] \ paused'[m]
  OBVIOUS
<1>3. PICK to \in Fetchable(m, ps) : /\ position' = [position EXCEPT ![m] = to]
                                     /\ \E b \in Batches(m, to) : GoesOn(m, b, pending[m])
  BY <1>2, Zenon DEF Polls
<1>4. PICK b \in Batches(m, to) : GoesOn(m, b, pending[m])
  BY <1>3
<1>5. to \in Offsets /\ b \in Seq(Record) /\ Len(b) <= MaxPoll
  BY BatchIs
<1>6. RetryTypes' /\ paused' \in [Members -> SUBSET Partitions] /\ pending[m] \in Offsets
  BY <1>1 DEF RetryTypes, ClientTypes, FlowTypes
<1>7. handled \subseteq handled' /\ handled' \subseteq Record /\ mishaps' \in 0 .. MaxMishaps /\ Over' = Over
  BY <1>1 DEF BrokerTypes, Over
<1>8. GoesOnWell(m, b, pending[m], to)
  BY <1>1, <1>7, PollWell
<1> QED BY <1>1, <1>3, <1>4, <1>5, <1>6, <1>7, <1>8, GoesOnKeeps

-------------------------------------------------------------------------------
(* The theorems. *)

LEMMA InitInv == ListenerInit => KInv
<1> SUFFICES ASSUME ListenerInit
             PROVE  KInv
  OBVIOUS
<1> USE DEF ListenerInit
<1>1. BrokerTypes
  <2>1. None \in Offsets
    BY NoneIs
  <2>2. committed \in [Partitions -> -1 .. Length] /\ mishaps \in 0 .. MaxMishaps
    BY Sizes
  <2> QED BY <2>1, <2>2 DEF BrokerTypes
<1>2. FlowTypes
  <2>1. None \in Offsets
    BY NoneIs
  <2>2. /\ task = [m \in Members |-> "down"] /\ batch = [m \in Members |-> <<>>] /\ pending = [m \in Members |-> None]
        /\ sent = [m \in Members |-> None] /\ fenced = [m \in Members |-> FALSE]
    OBVIOUS
  <2> HIDE DEF ListenerInit
  <2> QED BY <2>1, <2>2, Sizes DEF FlowTypes, Busy
<1>3. RetryTypes
  BY Sizes DEF RetryTypes, NoFailures
<1>4. ClientTypes
  BY NoneIs DEF ClientTypes
<1>5. \A p \in Partitions : Behind(p, committed[p])
  BY RecordIs DEF Behind
<1>6. \A m \in Members : \A p \in Partitions : ~Claims(m, p)
  BY DEF Claims, Holds, Sends
<1>7. ASSUME NEW m \in Members
      PROVE  MemberInv(m)
  <2>1. SkipsNothing(m)
    BY NoneIs, RecordIs DEF SkipsNothing, Behind, InOrder, Owns
  <2>2. OwnsByTurn(m)
    BY NoneIs DEF OwnsByTurn, Busy
  <2>3. RunsItsOwn(m) /\ InRuns(batch[m])
    BY DEF RunsItsOwn, InRuns, Busy
  <2>4. GoesForward(m)
    BY NoneIs DEF GoesForward, RunsAhead, Ahead, Holds, Sends
  <2> QED BY <2>1, <2>2, <2>3, <2>4 DEF MemberInv
<1> QED BY <1>1, <1>2, <1>3, <1>4, <1>5, <1>6, <1>7, TypeParts DEF KInv, OneClaims

LEMMA NextInv == KInv /\ [ListenerNext]_listenerVars => KInv'
<1> SUFFICES ASSUME KInv, [ListenerNext]_listenerVars
             PROVE  KInv'
  OBVIOUS
<1>1. ASSUME NEW m \in Members, ListenerLoop(m)
      PROVE  KInv'
  BY <1>1, StartsKeeps, HandlesKeeps, CommitsKeeps, HandlingFailsKeeps, GivesUpKeeps, BuryingFailsKeeps,
     CommitFailsKeeps, StopCancelsKeeps, ClosesKeeps, Zenon DEF ListenerLoop
<1>2. ASSUME NEW m \in Members, Coordinator(m)
      PROVE  KInv'
  BY <1>2, WaitsForRecordKeeps, RevokeGoesOnKeeps, RevokeCommitsKeeps, Zenon DEF Coordinator
<1>3. ASSUME NEW m \in Members, ListenerDisturbs(m)
      PROVE  KInv'
  BY <1>3, EvictsKeeps, CrashesKeeps, StopsKeeps, Zenon DEF ListenerDisturbs
<1>4. ASSUME NEW m \in Members, NEW due \in SUBSET resumes[m], Polls(m, due)
      PROVE  KInv'
  BY <1>4, PollsKeeps
<1>5. ASSUME GroupBroker
      PROVE  KInv'
  BY <1>5, AssignsKeeps, SessionEndsKeeps, Zenon DEF GroupBroker
<1>6. ASSUME NEW p \in Partitions, Appends(p)
      PROVE  KInv'
  BY <1>6, AppendsKeeps
<1> QED BY <1>1, <1>2, <1>3, <1>4, <1>5, <1>6, RebalancesKeeps, UnchangedKeeps, Zenon DEF ListenerNext

LEMMA AlwaysKInv == ListenerSpec => []KInv
BY InitInv, NextInv, PTL DEF ListenerSpec

(* Every variable of the group stays in its type: a poll is never longer than *)
(* max_poll_records, a commit is in flight exactly while the loop awaits it,  *)
(* and no record has more failures than it has attempts.                      *)
THEOREM ListenerTypes == ListenerSpec => []ListenerTypeOK
<1>1. KInv => ListenerTypeOK
  BY DEF KInv
<1> QED BY <1>1, AlwaysKInv, PTL

(* "Never past one still running or cancelled": whatever fails, is revoked,   *)
(* stops or dies, no offset is committed past a record that is not over, and  *)
(* no record starts before those before it in its partition are.              *)
THEOREM NothingIsSkipped == ListenerSpec => []NothingSkipped
<1>1. KInv => NothingSkipped
  <2> SUFFICES ASSUME KInv
               PROVE  NothingSkipped
    OBVIOUS
  <2>1. \A r \in Record : r.o < committed[r.p] => r \in handled \cup passed
    BY RecordIs DEF KInv, Behind, Over
  <2>2. ASSUME NEW m \in Members, Busy(m)
        PROVE  Before(Current(m)) \subseteq handled \cup passed
    <3>1. Current(m) = batch[m][1] /\ 1 \in DOMAIN batch[m]
      BY <2>2, InvTypes, InFlight
    <3>2. Behind(Current(m).p, Current(m).o)
      BY <3>1 DEF KInv, MemberInv, SkipsNothing, InOrder
    <3> QED BY <3>2 DEF Before, Behind, Over
  <2> QED BY <2>1, <2>2 DEF NothingSkipped
<1> QED BY <1>1, AlwaysKInv, PTL

(* Two members run records of one partition at once only when a rebalance did *)
(* not wait for one of them.                                                  *)
THEOREM RunsAtOne == ListenerSpec => []RunsAtOneMember
<1>1. KInv => RunsAtOneMember
  <2> SUFFICES ASSUME KInv, NEW m \in Members, NEW n \in Members, m # n, Busy(m), Busy(n), Current(m).p = Current(n).p,
                      ~overran[m], ~overran[n]
               PROVE  FALSE
    BY DEF RunsAtOneMember
  <2>1. ASSUME NEW k \in Members, Busy(k), ~overran[k]
        PROVE  Claims(k, Current(k).p) /\ Current(k).p \in Partitions
    <3>1. Current(k) = batch[k][1] /\ 1 \in DOMAIN batch[k] /\ Current(k) \in Record
      BY <2>1, InvTypes, InFlight
    <3> QED BY <2>1, <3>1, RecordIs DEF KInv, MemberInv, RunsItsOwn, Claims
  <2> QED BY <2>1 DEF KInv, OneClaims
<1> QED BY <1>1, AlwaysKInv, PTL

LEMMA CommitForward ==
  ASSUME KInv, NEW m \in Members, NEW offsets \in Offsets, Commit(m, offsets),
         ~overran[m] => \A p \in Partitions : offsets[p] > 0 => offsets[p] >= committed[p],
         NEW p \in Partitions, committed'[p] < committed[p]
  PROVE  overran[m]
<1>1. committed'[p] = IF offsets[p] > 0 THEN offsets[p] ELSE committed[p]
  BY InvTypes, CommitTypes
<1>2. committed[p] \in -1 .. Length /\ offsets[p] \in 0 .. Length
  BY InvTypes DEF BrokerTypes, Offsets
<1> QED BY <1>1, <1>2, Sizes

(* A committed offset never goes back, except through a member that a         *)
(* rebalance did not wait for.                                                *)
THEOREM OffsetsGoForward == ListenerSpec => CommitsForward
<1>1. KInv /\ [ListenerNext]_listenerVars =>
        [\A p \in Partitions : committed'[p] < committed[p] => \E m \in Members : overran[m]]_listenerVars
  <2> SUFFICES ASSUME KInv, ListenerNext, NEW p \in Partitions, committed'[p] < committed[p]
               PROVE  \E m \in Members : overran[m]
    OBVIOUS
  <2> USE InvTypes
  <2>1. committed' # committed
    <3>1. committed[p] \in Int
      BY Sizes DEF BrokerTypes
    <3> QED BY <3>1
  <2>2. ASSUME NEW m \in Members, ~overran[m]
        PROVE  \A q \in Partitions : Ahead(m, q)
    BY <2>2 DEF KInv, MemberInv, GoesForward
  <2>3. ASSUME NEW m \in Members, Commit(m, sent[m]), task[m] = "committing", ~fenced[m]
        PROVE  overran[m]
    <3>1. sent[m] \in Offsets
      BY DEF FlowTypes
    <3>2. ~overran[m] => \A q \in Partitions : sent[m][q] > 0 => sent[m][q] >= committed[q]
      BY <2>2, <2>3 DEF Ahead, Sends
    <3> QED BY <2>3, <3>1, <3>2, CommitForward
  <2>4. ASSUME NEW m \in Members, Commit(m, told[m])
        PROVE  overran[m]
    <3>1. told[m] \in Offsets
      BY DEF ClientTypes
    <3>2. ~overran[m] => \A q \in Partitions : told[m][q] > 0 => told[m][q] >= committed[q]
      BY <2>2 DEF Ahead
    <3> QED BY <2>4, <3>1, <3>2, CommitForward
  <2>5. ASSUME NEW m \in Members, Commit(m, Keep(pending[m], assigned[m]))
        PROVE  overran[m]
    <3>1. /\ Keep(pending[m], assigned[m]) \in Offsets
          /\ \A q \in Partitions : Keep(pending[m], assigned[m])[q] = IF q \in assigned[m] THEN pending[m][q] ELSE 0
      BY KeepIs DEF FlowTypes
    <3>2. ~overran[m] => \A q \in Partitions : Keep(pending[m], assigned[m])[q] > 0 => Keep(pending[m], assigned[m])[q] >= committed[q]
      BY <2>2, <3>1 DEF Ahead
    <3> QED BY <2>5, <3>1, <3>2, CommitForward
  <2>6. ASSUME NEW m \in Members, ListenerLoop(m)
        PROVE  overran[m]
    <3>1. CASE Commits(m)
      BY <2>3, <3>1 DEF Commits
    <3>2. ASSUME NEW took \in BOOLEAN, CommitFails(m, took)
          PROVE  overran[m]
      BY <2>1, <2>3, <3>2 DEF CommitFails
    <3>3. ASSUME NEW took \in BOOLEAN, Closes(m, took)
          PROVE  overran[m]
      BY <2>1, <2>5, <3>3, Zenon DEF Closes
    <3>4. ~Starts(m) /\ ~Handles(m) /\ ~Buries(m)
      BY <2>1, Zenon DEF Starts, Handles, Buries, brokerVars
    <3>5. \A took \in BOOLEAN : ~HandlingFails(m, took) /\ ~GivesUp(m, took) /\ ~BuryingFails(m, took) /\ ~StopCancels(m, took)
      BY <2>1, Zenon DEF HandlingFails, GivesUp, BuryingFails, StopCancels, BacksOff, brokerVars
    <3> QED BY <2>6, <3>1, <3>2, <3>3, <3>4, <3>5, Zenon DEF ListenerLoop
  <2>7. ASSUME NEW m \in Members, Coordinator(m)
        PROVE  overran[m]
    <3>1. ASSUME NEW took \in BOOLEAN, RevokeCommits(m, took)
          PROVE  overran[m]
      BY <2>1, <2>4, <3>1, Zenon DEF RevokeCommits
    <3>2. ~WaitsForRecord(m) /\ ~RevokeGoesOn(m)
      BY <2>1, Zenon DEF WaitsForRecord, RevokeGoesOn, brokerVars
    <3> QED BY <2>7, <3>1, <3>2, Zenon DEF Coordinator
  <2>8. ASSUME NEW m \in Members, ListenerDisturbs(m)
        PROVE  overran[m]
    <3>1. ASSUME NEW took \in BOOLEAN, Stops(m, took)
          PROVE  overran[m]
      BY <2>1, <2>3, <3>1 DEF Stops
    <3>2. ~Evicts(m) /\ ~Crashes(m)
      BY <2>1, Zenon DEF Evicts, Crashes, brokerVars
    <3> QED BY <2>8, <3>1, <3>2, Zenon DEF ListenerDisturbs
  <2>9. \A m \in Members : \A due : ~Polls(m, due)
    BY <2>1, Zenon DEF Polls, brokerVars
  <2>10. ~GroupBroker /\ ~Rebalances /\ \A q : ~Appends(q)
    BY <2>1, Zenon DEF GroupBroker, Assigns, SessionEnds, Rebalances, Appends
  <2> QED BY <2>6, <2>7, <2>8, <2>9, <2>10, Zenon DEF ListenerNext
<1> QED BY <1>1, AlwaysKInv, PTL DEF ListenerSpec, CommitsForward

-------------------------------------------------------------------------------
(* The consumers of an outbox, or of a topic. *)

LEMMA ConsumerTurns ==
  ConsumersSpec => /\ Init /\ [][Next]_vars
                   /\ ListenerInit /\ [][ListenerNext]_listenerVars
<1>1. ConsumersInit => Init /\ ListenerInit
  BY DEF ConsumersInit
<1>2. [OutboxTurn \/ KafkaTurn]_consumersVars => [Next]_vars /\ [ListenerNext]_listenerVars
  BY DEF OutboxTurn, KafkaTurn, consumersVars
<1> QED BY <1>1, <1>2, PTL DEF ConsumersSpec

(* Whichever of the two is run, for any groups, relays, members and           *)
(* partitions, the tables and the containers keep their types.                *)
THEOREM ConsumersTypes == ConsumersSpec => []ConsumersTypeOK
<1>1. Init /\ [][Next]_vars => []TypeOK
  BY StoreTypes DEF Spec
<1>2. ListenerInit /\ [][ListenerNext]_listenerVars => []ListenerTypeOK
  <2>1. KInv => ListenerTypeOK
    BY DEF KInv
  <2> QED BY <2>1, InitInv, NextInv, PTL
<1> QED BY <1>1, <1>2, ConsumerTurns, PTL DEF ConsumersTypeOK

===============================================================================
