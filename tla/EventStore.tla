------------------------------- MODULE EventStore -------------------------------
(***************************************************************************)
(* SqlAlchemyEventStore: units of work append events to aggregates, and    *)
(* readers page the global stream.  With the strategy "head-row" a reader  *)
(* first gives the committed events without a position theirs, in rounds   *)
(* under the head row's lock, from a list its store keeps between rounds;  *)
(* with "xid8" the writer's transaction id is the position, and a reader   *)
(* sees what lies below every transaction that runs.                       *)
(*                                                                         *)
(* Each action is one statement of a writer's unit (READ COMMITTED), or a  *)
(* round: the lock keeps other rounds out, and its statements act on       *)
(* events that nothing else changes.  What a task does once its round has  *)
(* committed is an action of its own.                                      *)
(***************************************************************************)
EXTENDS Integers, FiniteSets, Sequences, SequencesExt, FiniteSetsExt

CONSTANTS Units,          \* the business units that append
          Aggregates,
          Stores,         \* the store objects, one in each process
          Readers,        \* tasks that call stream_all
          Strategies,     \* the position strategies a table may have recorded
          Times,          \* what the database's clock may say, in any order
          NumberingBatch, NumberingWindow,
          MaxEvents       \* bound: events inserted, committed or not

ASSUME EventStoreAssumption ==
  /\ Aggregates \subseteq Nat \ {0}
  /\ Strategies \subseteq {"head-row", "xid8"} /\ Times \subseteq Nat \ {0}
  /\ {NumberingBatch, NumberingWindow, MaxEvents} \subseteq Nat \ {0}

VARIABLES
  strategy,   \* what the head row records
  storeOf,    \* the store each reader calls; neither ever changes
  table,      \* the committed rows
  head,       \* position of the head row
  own,        \* the rows each unit has inserted and not committed
  writer,     \* each unit: open, checked (its append read the version), ended
  aim,        \* the aggregate of a checked append, and the sequence it will insert
  xid,        \* each unit's transaction id: 0 until it takes one
  lastXid,
  backlog,    \* each store's list of events to number, and how far it got
  round       \* each reader's committed round that it has not accounted for

writerVars == <<own, writer, aim, xid, lastXid>>
eventVars == <<strategy, storeOf, table, head, backlog, round, writerVars>>

Row == [aggregate : Aggregates, sequence : 1..MaxEvents, recorded : Nat, position : Nat]
Key(r) == [aggregate |-> r.aggregate, sequence |-> r.sequence]
KeysOf(rows) == [i \in DOMAIN rows |-> Key(rows[i])]

(* The elements of a set in a line, each behind those that come before it.    *)
InLine(S, Before(_, _)) ==
  LET ahead(p) == Cardinality({q \in S : Before(q, p)})
  IN [i \in 1..Cardinality(S) |-> CHOOSE p \in S : ahead(p) = i - 1]

(* A list of events to number has an identity, 0 for an empty one; head is -1 *)
(* where it is not known.                                                     *)
NoAim == [aggregate |-> 0, sequence |-> 0]
NoList == [id |-> 0, left |-> <<>>, head |-> -1]
NoRound == [list |-> NoList, missed |-> {}]

EventInit ==
  /\ strategy \in Strategies /\ storeOf \in [Readers -> Stores]
  /\ table = {} /\ head = 0
  /\ own = [u \in Units |-> <<>>] /\ writer = [u \in Units |-> "open"]
  /\ aim = [u \in Units |-> NoAim] /\ xid = [u \in Units |-> 0] /\ lastXid = 0
  /\ backlog = [s \in Stores |-> NoList] /\ round = [r \in Readers |-> NoRound]

--------------------------------------------------------------------------------
(* append, in a unit of work that may append more than once.                  *)

InsertedBy(u) == ToSet(own[u])
RowsSeen(u, a) == {r \in table \cup InsertedBy(u) : r.aggregate = a}
Inserted == table \cup UNION {InsertedBy(u) : u \in Units}
Scale == MaxEvents + 1      \* 2 ** XID8_ORDINAL_BITS
Xid(u) == IF xid[u] = 0 THEN lastXid + 1 ELSE xid[u]

TakesXid(u) ==
  IF strategy = "xid8"
  THEN xid' = [xid EXCEPT ![u] = Xid(u)] /\ lastXid' = (IF xid[u] = 0 THEN lastXid + 1 ELSE lastXid)
  ELSE UNCHANGED <<xid, lastXid>>

(* The aggregate's last event is of a transaction with a later id than this.  *)
OutOfOrder(u, a) ==
  strategy = "xid8" /\ \E r \in RowsSeen(u, a) :
    r.sequence = Cardinality(RowsSeen(u, a)) /\ r.position >= (Xid(u) + 1) * Scale

(* The version and the guard, in one statement.                               *)
ReadsVersion(u, a) ==
  /\ writer[u] = "open" /\ Cardinality(Inserted) < MaxEvents
  /\ ~OutOfOrder(u, a)
  /\ writer' = [writer EXCEPT ![u] = "checked"]
  /\ aim' = [aim EXCEPT ![u] = [aggregate |-> a, sequence |-> Cardinality(RowsSeen(u, a)) + 1]]
  /\ TakesXid(u) /\ UNCHANGED <<strategy, storeOf, table, head, backlog, round, own>>

(* ConcurrencyError: the command expected another version, or is too late.    *)
RefusesAppend(u) ==
  /\ writer[u] = "open" /\ strategy = "xid8" /\ TakesXid(u)
  /\ UNCHANGED <<strategy, storeOf, table, head, backlog, round, own, writer, aim>>

SameKey(u, rows) == \E r \in rows : Key(r) = aim[u]

(* UNIQUE (aggregate_id, sequence): an insert waits for a unit that inserted  *)
(* the same key, and fails if that commits.                                   *)
InsertsEvent(u) ==
  /\ writer[u] = "checked" /\ \A v \in Units \ {u} : ~SameKey(u, InsertedBy(v))
  /\ writer' = [writer EXCEPT ![u] = "open"] /\ aim' = [aim EXCEPT ![u] = NoAim]
  /\ IF SameKey(u, table) THEN UNCHANGED own
     ELSE \E now \in Times :
            own' = [own EXCEPT ![u] = Append(@,
                     [aggregate |-> aim[u].aggregate, sequence |-> aim[u].sequence, recorded |-> now,
                      position |-> IF strategy = "xid8" THEN xid[u] * Scale + Len(own[u]) ELSE 0])]
  /\ UNCHANGED <<strategy, storeOf, table, head, backlog, round, xid, lastXid>>

EndsWriter(u) ==
  /\ writer' = [writer EXCEPT ![u] = "ended"]
  /\ own' = [own EXCEPT ![u] = <<>>] /\ aim' = [aim EXCEPT ![u] = NoAim]
  /\ UNCHANGED <<strategy, storeOf, head, backlog, round, xid, lastXid>>

CommitsEvents(u) ==
  writer[u] = "open" /\ own[u] # <<>> /\ EndsWriter(u) /\ table' = table \cup InsertedBy(u)
AbandonsEvents(u) ==
  /\ writer[u] # "ended" /\ (writer[u] = "checked" \/ own[u] # <<>> \/ xid[u] # 0)
  /\ EndsWriter(u) /\ UNCHANGED table

--------------------------------------------------------------------------------
(* The stream as stream_all reads it, and the events without a position.      *)

Waiting == {r \in table : r.position = 0}

(* The lowest position a transaction that runs could give.                    *)
Running == {xid[u] : u \in {v \in Units : writer[v] # "ended" /\ xid[v] # 0}}
Horizon == Scale * Min(Running \cup {lastXid + 1})

Visible == IF strategy = "xid8" THEN {r \in table : r.position < Horizon} ELSE table \ Waiting

(* What stream_all reads, from the beginning.                                 *)
Stream == KeysOf(InLine(Visible, LAMBDA p, q : p.position < q.position))

(* Where an event without a position is placed in time: no aggregate's event  *)
(* before an earlier one of it, whatever the clock said.                      *)
PlacedAt(p) ==
  Max({q.recorded : q \in {w \in Waiting : w.aggregate = p.aggregate /\ w.sequence <= p.sequence}})

PlacedBefore(p, q) ==
  \/ PlacedAt(p) < PlacedAt(q)
  \/ PlacedAt(p) = PlacedAt(q) /\ p.aggregate < q.aggregate
  \/ PlacedAt(p) = PlacedAt(q) /\ p.aggregate = q.aggregate /\ p.sequence < q.sequence

ReadsBacklog ==
  LET placed == KeysOf(InLine(Waiting, PlacedBefore))
  IN SubSeq(placed, 1, Min({NumberingWindow, Len(placed)}))

--------------------------------------------------------------------------------
(* _number_committed, for a page or last_position that needs more than the    *)
(* head row has reached: as many rounds as the page takes.                    *)

(* A list no store and no round knows.                                        *)
FreshList ==
  LET known == {backlog[s].id : s \in Stores} \cup {round[r].list.id : r \in Readers}
  IN [id |-> CHOOSE n \in 1..(Cardinality(known) + 1) : n \notin known,
      left |-> ReadsBacklog, head |-> head]

StillUnnumbered(keys) ==
  LET at == {i \in DOMAIN keys : \E p \in Waiting : Key(p) = keys[i]}
      line == InLine(at, LAMBDA i, j : i < j)
  IN [i \in DOMAIN line |-> keys[line[i]]]

(* The next batch of a list, of which n events are behind it.  Nothing is     *)
(* checked when nobody else has numbered since the list was read.             *)
Listed(list, n) == SubSeq(list.left, n + 1, Min({n + NumberingBatch, Len(list.left)}))
Batch(list, n) ==
  IF list.head = head THEN Listed(list, n) ELSE StillUnnumbered(Listed(list, n))

(* Batches with nothing left to number are passed over.                       *)
BatchesLeft(list) ==
  {n \in {i * NumberingBatch : i \in 0..Len(list.left)} : n < Len(list.left) /\ Batch(list, n) # <<>>}

(* The list a round works on: the store's, or a fresh one when it is used up. *)
IsUsedUp(s) == BatchesLeft(backlog[s]) = {}
ListOf(s) == IF IsUsedUp(s) THEN FreshList ELSE backlog[s]
Numbered(s) == Batch(ListOf(s), Min(BatchesLeft(ListOf(s))))

(* What is left of the list after the round, and the head row's position when *)
(* nobody else has numbered.                                                  *)
ListAfter(s) ==
  LET list == ListOf(s)
      rest == SubSeq(list.left, Min(BatchesLeft(list)) + NumberingBatch + 1, Len(list.left))
  IN [list EXCEPT !.left = rest, !.head = IF @ = head THEN head + Len(Numbered(s)) ELSE -1]

LeftWaiting(s) == {Key(p) : p \in Waiting} \ ToSet(Numbered(s))

(* Whether more may be left.                                                  *)
More(s) ==
  IF ListAfter(s).left # <<>> THEN TRUE
  ELSE IF IsUsedUp(s) THEN Len(ListOf(s).left) = NumberingWindow
  ELSE LeftWaiting(s) # {}

(* The events numbered get the next positions; when they were recorded is not *)
(* read again.                                                                *)
NumbersFrom(base, keys) ==
  LET place(p) == CHOOSE i \in DOMAIN keys : keys[i] = Key(p)
      numbered(p) == IF Key(p) \in ToSet(keys) THEN [p EXCEPT !.position = base + place(p), !.recorded = 0] ELSE p
  IN table' = {numbered(p) : p \in table} /\ head' = base + Len(keys)

(* A fresh list is the store's before its first batch is numbered.            *)
Rounds(r) ==
  /\ strategy = "head-row" /\ round[r] = NoRound /\ Waiting # {}
  /\ backlog' = [backlog EXCEPT ![storeOf[r]] =
                   IF IsUsedUp(storeOf[r]) THEN [FreshList EXCEPT !.head = -1] ELSE @]
  /\ UNCHANGED <<strategy, storeOf, writerVars>>

RoundCommits(r) ==
  LET s == storeOf[r]
  IN /\ Rounds(r) /\ NumbersFrom(head, Numbered(s))
     /\ round' = [round EXCEPT ![r] =
          [list |-> ListAfter(s), missed |-> IF More(s) THEN {} ELSE LeftWaiting(s)]]

(* The read fails; a commit whose answer is lost has taken effect.            *)
RoundBreaks(r) ==
  /\ Rounds(r) /\ UNCHANGED round
  /\ UNCHANGED <<table, head>> \/ NumbersFrom(head, Numbered(storeOf[r]))

(* Once it has committed, its list is known to be numbered so far, unless the *)
(* store has gone on to another list or further in this one.                  *)
AccountsFor(r) ==
  LET s == storeOf[r]
      list == round[r].list
  IN /\ round[r] # NoRound /\ round' = [round EXCEPT ![r] = NoRound]
     /\ backlog' = IF list.id # backlog[s].id \/ Len(list.left) >= Len(backlog[s].left) THEN backlog
                   ELSE [backlog EXCEPT ![s] = IF list.left = <<>> THEN NoList ELSE list]
     /\ UNCHANGED <<strategy, storeOf, table, head, writerVars>>

(* A process starts again, with none of its calls and without the list.       *)
Restarts(s) ==
  /\ backlog' = [backlog EXCEPT ![s] = NoList]
  /\ round' = [r \in Readers |-> IF storeOf[r] = s THEN NoRound ELSE round[r]]
  /\ UNCHANGED <<strategy, storeOf, table, head, writerVars>>

EventNext ==
  \/ \E u \in Units : \/ \E a \in Aggregates : ReadsVersion(u, a)
                      \/ RefusesAppend(u) \/ InsertsEvent(u) \/ CommitsEvents(u) \/ AbandonsEvents(u)
  \/ \E r \in Readers : RoundCommits(r) \/ RoundBreaks(r) \/ AccountsFor(r)
  \/ \E s \in Stores : Restarts(s)

EventSpec == EventInit /\ [][EventNext]_eventVars

--------------------------------------------------------------------------------
(* Properties. *)

EventTypeOK ==
  /\ strategy \in Strategies /\ table \subseteq Row /\ head \in Nat
  /\ own \in [Units -> Seq(Row)] /\ writer \in [Units -> {"open", "checked", "ended"}]
  /\ xid \in [Units -> 0..lastXid]
  /\ \A s \in Stores : backlog[s].id \in Nat /\ backlog[s].head \in -1..head

Promise == INSTANCE EventStream WITH
  stream <- Stream, missed <- UNION {round[r].missed : r \in Readers}

(* The stream as readers see it only grows at its end, has each aggregate's   *)
(* events once and in order, and leaves no event behind when a round says     *)
(* there is no more: whichever units commit late, whatever the clock says,    *)
(* and whichever process numbers from which list.                             *)
KeepsStream == Promise!StreamSpec

================================================================================
