-------------------------- MODULE OutboxStore_proof --------------------------
(***************************************************************************)
(* What the outbox's tables hold, for any groups, relays, events and       *)
(* destinations, and whatever units are in flight: events are kept while a  *)
(* group is sure of them, a backfill owes exactly what it should, and an    *)
(* event is owed to a group once.                                          *)
(***************************************************************************)
EXTENDS OutboxStore, WellFoundedInduction, TLAPS

----------------------------------------------------------------------------
(* The inductive invariant. *)

\* What is in the outbox, or ever was, was committed, and is not published again.
Committed == {e \in Events : unit[e] = "committed"}

OnlyCommitted ==
    /\ events \subseteq Committed
    /\ \A n \in Nodes : sweep[n].ids \subseteq Committed /\ held[n] \subseteq Committed
    /\ \A p \in promised \cup settled : p[2] \in Committed

\* A unit writes the rows of its own group, or of the events it sweeps.
OwnRows ==
    /\ \A g \in Groups : unreg[g].keys \subseteq {g} \X Destinations /\ unreg[g].rows \subseteq {g} \X Events
    /\ \A n \in Nodes : /\ reg[n].ins \cup reg[n].del \subseteq {GroupOf[n]} \X Destinations
                        /\ reg[n].fill \subseteq {GroupOf[n]} \X Events
                        /\ sweep[n].rows \subseteq Groups \X sweep[n].ids

\* A relay registers what one may be configured with.
WantsAllowed == \A n \in Nodes : reg[n].step # Idle => reg[n].wanted \in Wanted

\* Who is sure of an event is registered for it, until the unit has read who is,
\* and is one of those it owes, until it commits.
SureOwed ==
    \A e \in Events :
        /\ unit[e] = "open" => sure[e] \subseteq Takers(view[e], e) /\ sure[e] \subseteq Takers(consumers, e)
        /\ unit[e] = "appended" => sure[e] \subseteq owed[e]

\* What is swept as delivered nobody is sure of, and whatever rows commit after
\* the sweep has read are those of a registration.
SweptUnowed ==
    \A n \in Nodes : \A e \in sweep[n].ids :
        /\ sweep[n].step = "delivered" => sure[e] = {}
        /\ \A g \in Groups : <<g, e>> \in deliveries =>
              \/ sweep[n].step = "expired" \/ <<g, e>> \in filled
              \/ sweep[n].step = "committing" /\ <<g, e>> \in sweep[n].rows

KeepsInv == OnlyCommitted /\ OwnRows /\ WantsAllowed /\ SureOwed /\ SweptUnowed /\ OwedUntilSettled /\ OrphansAreBackfilled

\* A registration holds on to events it is to be owed, and has a row for each
\* once it has backfilled, written by it or there already.
FilledFor(n) ==
    /\ \A e \in held[n] : Takes(reg[n].wanted, e)
    /\ reg[n].step = "committing" /\ NewGroup(n) /\ Earliest =>
          \A e \in held[n] \cap events :
             Dest[e] \notin Private => <<GroupOf[n], e>> \in deliveries \cup reg[n].fill

HeldFilled == \A n \in Nodes : reg[n].step # Idle => FilledFor(n)

MayOwe(g, e) == Named[e] # {} => g \in Named[e] \cup Include[e]

\* A publish owes as it may, a backfill as far as it can tell.
AddressedRows ==
    /\ \A p \in deliveries : MayOwe(p[1], p[2]) \/ (p \in filled /\ LooksUnaddressed(p[2]))
    /\ \A n \in Nodes : \A p \in reg[n].fill : LooksUnaddressed(p[2])
    /\ \A e \in Events : \A g \in owed[e] : MayOwe(g, e)

FillsInv == HeldFilled /\ BackfillComplete /\ AddressedRows

\* The destinations a group is registered for.
RegisteredFor(g) == {d \in Destinations : <<g, d>> \in consumers}

Registering(n) == reg[n].step # Idle

\* The relays of a group that register at once want the same.
WantAlike ==
    \A n, m \in Nodes : GroupOf[n] = GroupOf[m] /\ Registering(n) /\ Registering(m) => reg[n].wanted = reg[m].wanted

\* A group that is being unregistered registers nowhere.
NoneRegisters == \A g \in Groups : unreg[g].step # Idle => \A n \in Nodes : GroupOf[n] = g => ~Registering(n)

\* Nobody writes a key that another unit wrote and has not committed.
KeysApart ==
    \A n \in Nodes, m \in Nodes : n # m => reg[n].ins \cap reg[m].ins = {}

\* What a registration is through with is registered, or is once it commits, and
\* it deletes nothing that is wanted.
ComingFor(n) ==
    /\ \A d \in reg[n].wanted :
          \/ reg[n].step = "deleting" /\ d \notin reg[n].existing
          \/ d \in reg[n].todo
          \/ <<GroupOf[n], d>> \in consumers \cup reg[n].ins
    /\ \A d \in reg[n].wanted : <<GroupOf[n], d>> \notin reg[n].del
    /\ reg[n].todo \subseteq reg[n].wanted
    /\ reg[n].ins \subseteq {GroupOf[n]} \X reg[n].wanted
    /\ reg[n].step = "committing" => reg[n].todo = {}
    /\ reg[n].step = "deleting" => reg[n].ins = {} /\ reg[n].todo = {}

KeysComing == \A n \in Nodes : Registering(n) => ComingFor(n)

\* A registration that found its group new sees it new still, or another one
\* has registered everything it wants; and once it has written a key, it is the
\* one that finds the group new. One that found it registered has it so.
NewFor(n) ==
    IF reg[n].existing = {}
    THEN /\ RegisteredFor(GroupOf[n]) = {} \/ reg[n].wanted \subseteq RegisteredFor(GroupOf[n])
         /\ reg[n].ins # {} => RegisteredFor(GroupOf[n]) = {}
    ELSE RegisteredFor(GroupOf[n]) # {}

StillNew == \A n \in Nodes : Registering(n) => NewFor(n)

\* A registration owes something only to a group it found new.
FillsNew == \A n \in Nodes : reg[n].fill # {} => Registering(n) /\ NewGroup(n)

\* A group that is not registered has settled nothing.
NewHasSettledNothing == \A p \in settled : RegisteredFor(p[1]) # {}

OnceInv == /\ WantAlike /\ NoneRegisters /\ KeysApart /\ KeysComing /\ StillNew /\ FillsNew
           /\ NewHasSettledNothing /\ OwedOnce

----------------------------------------------------------------------------
(* Operators of the model. *)

LEMMA NatHasFirst ==
  ASSUME NEW S \in SUBSET Nat, S # {}
  PROVE  First(S) \in S
<1> DEFINE R == OpToRel(<, Nat)
<1>1. \A x, y \in Nat : <<y, x>> \in R <=> y < x
  BY DEF OpToRel
<1>2. IsWellFoundedOn(R, Nat)
  BY NatLessThanWellFounded
<1> HIDE DEF R
<1>3. \E x \in S : \A y \in S : <<y, x>> \notin R
  BY <1>2, WFMin
<1>4. PICK x \in S : \A y \in S : <<y, x>> \notin R
  BY <1>3
<1>5. \A y \in S : ~(y < x)
  BY <1>1, <1>4
<1>6. \A y \in S : x <= y
  BY <1>5
<1> QED BY <1>6 DEF First

\* The next destination to insert is one that is to be inserted.
LEMMA FirstToDo ==
  ASSUME TypeOK, NEW n \in Nodes, reg[n].todo # {}
  PROVE  First(reg[n].todo) \in reg[n].todo /\ First(reg[n].todo) \in Destinations
<1>1. reg[n].todo \in SUBSET Destinations
  BY DEF TypeOK, RegUnit
<1> QED BY <1>1, NatHasFirst, StoreAssumption

\* Whoever reads the consumers C owes the event to the groups the properties say.
LEMMA OwedAreTakers ==
  ASSUME NEW C \in SUBSET Keys, NEW e \in Events
  PROVE  Owed(C, e) = Takers(C, e) /\ Owed(C, e) \subseteq Groups
<1>1. Dest[e] \in Destinations /\ Every \in Destinations /\ Include[e] \subseteq Groups /\ Named[e] \subseteq Groups
  BY StoreAssumption
<1>2. \A g \in Groups : Takes({d \in Destinations : <<g, d>> \in C}, e)
                          <=> Named[e] = {} /\ \E d \in {Dest[e], Every} : <<g, d>> \in C
  BY <1>1 DEF Takes
<1> QED BY <1>1, <1>2 DEF Owed, Takers, Registered

\* A group that keeps its registrations keeps what it takes.
LEMMA TakersKeep ==
  ASSUME NEW C \in SUBSET Keys, NEW D \in SUBSET Keys, NEW e \in Events, C \subseteq D
  PROVE  Takers(C, e) \subseteq Takers(D, e)
BY DEF Takers, Takes

\* What a relay is to be owed from the start is among what it is owed.
LEMMA TakenMatch ==
  ASSUME TypeOK, NEW W, NEW e \in events, Takes(W, e), Dest[e] \notin Private
  PROVE  e \in Matched(W)
BY StoreAssumption DEF TypeOK, Takes, Matched

----------------------------------------------------------------------------
(* Types. *)

LEMMA UnitTypes ==
  NoReg \in RegUnit /\ NoUnreg \in UnregUnit /\ NoSweep \in SweepUnit
BY DEF NoReg, NoUnreg, NoSweep, RegUnit, UnregUnit, SweepUnit, Idle

LEMMA StoreTypesInit == Init => TypeOK
<1> SUFFICES ASSUME Init PROVE TypeOK
  OBVIOUS
<1> QED BY UnitTypes DEF Init, TypeOK

LEMMA TakersTyped ==
  ASSUME NEW C, NEW e \in Events
  PROVE  Takers(C, e) \subseteq Groups
BY StoreAssumption DEF Takers

LEMMA PublisherTypes ==
  ASSUME TypeOK, NEW e \in Events, Publisher(e)
  PROVE  TypeOK'
<1> USE UnitTypes DEF TypeOK, tables, publish, history
<1>1. CASE BeginUnit(e)
  BY <1>1, TakersTyped DEF BeginUnit
<1>2. CASE AppendEvent(e)
  <2>1. PICK C \in {consumers} \cup (IF SnapshotReads THEN {view[e]} ELSE {}) :
           owed' = [owed EXCEPT ![e] = Owed(C, e)]
    BY <1>2 DEF AppendEvent
  <2>2. C \in SUBSET Keys
    BY <2>1
  <2>3. owed' \in [Events -> SUBSET Groups]
    BY <2>1, <2>2, OwedAreTakers
  <2> QED BY <1>2, <2>3 DEF AppendEvent
<1>3. CASE CommitUnit(e)
  <2>1. deliveries' \subseteq Pairs
    BY <1>3 DEF CommitUnit, Pairs
  <2> QED BY <1>3, <2>1 DEF CommitUnit
<1>4. CASE RollbackUnit(e)
  BY <1>4 DEF RollbackUnit
<1> QED BY <1>1, <1>2, <1>3, <1>4 DEF Publisher

LEMMA RegistrarTypes ==
  ASSUME TypeOK, NEW n \in Nodes, Registrar(n)
  PROVE  TypeOK'
<1> USE UnitTypes DEF TypeOK, tables, publish, history
<1>g. GroupOf[n] \in Groups
  BY StoreAssumption
<1>1. CASE RegisterReads(n)
  <2>1. PICK W \in Wanted :
          /\ reg' = [reg EXCEPT ![n] = [NoReg EXCEPT !.step = "deleting", !.wanted = W,
                        !.existing = {d \in Destinations : <<GroupOf[n], d>> \in consumers}]]
          /\ held' = [held EXCEPT ![n] = {e \in events : Takes(W, e)}]
    BY <1>1 DEF RegisterReads
  <2>2. reg' \in [Nodes -> RegUnit]
    BY <2>1, StoreAssumption DEF RegUnit, NoReg
  <2> QED BY <1>1, <2>1, <2>2 DEF RegisterReads
<1>2. CASE DeleteStale(n)
  <2> DEFINE del == ({GroupOf[n]} \X (reg[n].existing \ reg[n].wanted)) \cap consumers
             todo == reg[n].wanted \ reg[n].existing
  <2>1. del \in SUBSET Keys /\ todo \in SUBSET Destinations
    BY DEF RegUnit
  <2>2. reg' = [reg EXCEPT ![n].step = "inserting", ![n].del = del, ![n].todo = todo]
    BY <1>2 DEF DeleteStale
  <2> HIDE DEF del, todo
  <2>3. reg' \in [Nodes -> RegUnit]
    BY <2>1, <2>2, ZenonT(60) DEF RegUnit
  <2> QED BY <1>2, <2>3 DEF DeleteStale
<1>3. CASE InsertNext(n)
  <2> DEFINE d == First(reg[n].todo)
  <2>1. d \in Destinations /\ <<GroupOf[n], d>> \in Keys
    BY <1>3, <1>g, FirstToDo DEF InsertNext, Keys
  <2>2. reg' \in [Nodes -> RegUnit]
    <3> HIDE DEF d
    <3>1. reg' = [reg EXCEPT ![n].todo = @ \ {d},
                             ![n].ins = IF <<GroupOf[n], d>> \in consumers THEN @ ELSE @ \cup {<<GroupOf[n], d>>}]
      BY <1>3 DEF InsertNext, d
    <3> QED BY <2>1, <3>1, ZenonT(60) DEF RegUnit
  <2> QED BY <1>3, <2>2 DEF InsertNext
<1>4. CASE Backfill(n)
  <2>1. ({GroupOf[n]} \X Matched(reg[n].wanted)) \ deliveries \in SUBSET Pairs
    BY <1>g DEF Matched, Pairs
  <2>2. reg' \in [Nodes -> RegUnit]
    BY <1>4, <2>1, SMTT(30) DEF Backfill, RegUnit
  <2> QED BY <1>4, <2>2 DEF Backfill
<1>5. CASE CommitRegister(n)
  <2>1. reg[n] \in RegUnit /\ reg' \in [Nodes -> RegUnit]
    BY <1>5 DEF CommitRegister
  <2>2. consumers' \subseteq Keys /\ deliveries' \subseteq Pairs /\ filled' \subseteq Pairs
    BY <1>5, <2>1 DEF CommitRegister, RegUnit
  <2>3. sure' \in [Events -> SUBSET Groups]
    BY <1>5, TakersTyped DEF CommitRegister, StillSure
  <2>4. promised' \subseteq Pairs
    BY <1>5, <1>g DEF CommitRegister, Pairs
  <2>5. /\ events' \subseteq Events /\ settled' \subseteq Pairs /\ gone' \subseteq Groups
        /\ registered' \in [Nodes -> BOOLEAN] /\ held' \in [Nodes -> SUBSET Events]
        /\ unreg' \in [Groups -> UnregUnit] /\ sweep' \in [Nodes -> SweepUnit]
        /\ UNCHANGED publish
    BY <1>5 DEF CommitRegister
  <2> QED BY <2>1, <2>2, <2>3, <2>4, <2>5
<1>6. CASE AbortRegister(n)
  BY <1>6 DEF AbortRegister
<1>7. CASE Restart(n)
  BY <1>7 DEF Restart
<1> QED BY <1>1, <1>2, <1>3, <1>4, <1>5, <1>6, <1>7 DEF Registrar

LEMMA UnregistrarTypes ==
  ASSUME TypeOK, NEW g \in Groups, Unregistrar(g)
  PROVE  TypeOK'
<1> USE UnitTypes DEF TypeOK, tables, publish, history
<1>1. CASE UnregisterConsumers(g)
  <2>1. unreg' \in [Groups -> UnregUnit]
    <3> DEFINE keys == consumers \cap ({g} \X Destinations)
    <3>1. keys \in SUBSET Keys /\ unreg' = [unreg EXCEPT ![g].step = "deleting", ![g].keys = keys]
      BY <1>1 DEF UnregisterConsumers
    <3> HIDE DEF keys
    <3> QED BY <3>1 DEF UnregUnit
  <2> QED BY <1>1, <2>1 DEF UnregisterConsumers
<1>2. CASE UnregisterDeliveries(g)
  <2>1. unreg' \in [Groups -> UnregUnit]
    <3> DEFINE rows == deliveries \cap ({g} \X Events)
    <3>1. rows \in SUBSET Pairs /\ unreg' = [unreg EXCEPT ![g].step = "committing", ![g].rows = rows]
      BY <1>2 DEF UnregisterDeliveries
    <3> HIDE DEF rows
    <3> QED BY <3>1 DEF UnregUnit
  <2> QED BY <1>2, <2>1 DEF UnregisterDeliveries
<1>3. CASE CommitUnregister(g)
  <2>1. consumers' \subseteq Keys /\ deliveries' \subseteq Pairs
    BY <1>3 DEF CommitUnregister
  <2>2. sure' \in [Events -> SUBSET Groups]
    BY <1>3, TakersTyped DEF CommitUnregister, StillSure
  <2>3. held' \in [Nodes -> SUBSET Events]
    BY <1>3 DEF CommitUnregister
  <2>4. promised' \subseteq Pairs /\ settled' \subseteq Pairs /\ gone' \subseteq Groups
    BY <1>3 DEF CommitUnregister
  <2>5. unreg' \in [Groups -> UnregUnit]
    BY <1>3 DEF CommitUnregister
  <2> QED BY <1>3, <2>1, <2>2, <2>3, <2>4, <2>5 DEF CommitUnregister
<1>4. CASE AbortUnregister(g)
  BY <1>4 DEF AbortUnregister
<1> QED BY <1>1, <1>2, <1>3, <1>4 DEF Unregistrar

LEMMA SweeperTypes ==
  ASSUME TypeOK, NEW n \in Nodes, Sweeper(n)
  PROVE  TypeOK'
<1> USE UnitTypes DEF TypeOK, tables, publish, history
<1>1. CASE SelectDelivered(n)
  <2>1. PICK ids \in SUBSET Delivered : sweep' = [sweep EXCEPT ![n] = [NoSweep EXCEPT !.step = "delivered", !.ids = ids]]
    BY <1>1 DEF SelectDelivered
  <2>2. ids \in SUBSET Events
    BY DEF Delivered
  <2>3. sweep' \in [Nodes -> SweepUnit]
    BY <2>1, <2>2 DEF SweepUnit, NoSweep
  <2> QED BY <1>1, <2>3 DEF SelectDelivered
<1>2. CASE DeleteDelivered(n)
  BY <1>2 DEF DeleteDelivered
<1>3. CASE SelectExpired(n)
  <2>1. PICK ids \in SUBSET events : sweep' = [sweep EXCEPT ![n] = [NoSweep EXCEPT !.step = "expired", !.ids = ids]]
    BY <1>3 DEF SelectExpired
  <2>2. ids \in SUBSET Events
    OBVIOUS
  <2>3. sweep' \in [Nodes -> SweepUnit]
    BY <2>1, <2>2 DEF SweepUnit, NoSweep
  <2> QED BY <1>3, <2>3 DEF SelectExpired
<1>4. CASE DeleteExpiredRows(n)
  <2>1. ExpiredRows(n) \in SUBSET Pairs
    BY DEF ExpiredRows
  <2>2. sweep' \in [Nodes -> SweepUnit]
    BY <1>4, <2>1 DEF DeleteExpiredRows, SweepUnit
  <2> QED BY <1>4, <2>2 DEF DeleteExpiredRows
<1>5. CASE CommitExpired(n)
  BY <1>5 DEF CommitExpired
<1>6. CASE AbortSweep(n)
  BY <1>6 DEF AbortSweep
<1> QED BY <1>1, <1>2, <1>3, <1>4, <1>5, <1>6 DEF Sweeper

LEMMA SettlingTypes ==
  ASSUME TypeOK, NEW g \in Groups, NEW e \in Events, Settle(g, e) \/ DropOrphan(g, e)
  PROVE  TypeOK'
<1> USE DEF TypeOK, tables, publish, history
<1>1. CASE Settle(g, e)
  <2>1. settled' \subseteq Pairs
    BY <1>1 DEF Settle, Pairs
  <2>2. held' \in [Nodes -> SUBSET Events]
    BY <1>1 DEF Settle
  <2> QED BY <1>1, <2>1, <2>2 DEF Settle
<1>2. CASE DropOrphan(g, e)
  BY <1>2 DEF DropOrphan
<1> QED BY <1>1, <1>2

LEMMA StoreTypesNext == TypeOK /\ [Next]_vars => TypeOK'
<1> SUFFICES ASSUME TypeOK, [Next]_vars PROVE TypeOK'
  OBVIOUS
<1>1. CASE UNCHANGED vars
  BY <1>1 DEF TypeOK, vars, tables, publish, history
<1> QED BY <1>1, PublisherTypes, RegistrarTypes, UnregistrarTypes, SweeperTypes, SettlingTypes DEF Next

\* The tables, the units in flight and the history stay well typed, for any
\* groups, relays, events and destinations, however relays are configured.
THEOREM StoreTypes == Spec => []TypeOK
BY StoreTypesInit, StoreTypesNext, PTL DEF Spec

----------------------------------------------------------------------------
(* What is committed stays known. *)

\* A unit commits once.
LEMMA CommittedGrows ==
  ASSUME TypeOK, [Next]_vars
  PROVE  Committed \subseteq Committed'
<1> USE DEF Committed, TypeOK, tables, publish, history
<1>1. CASE \E e \in Events : Publisher(e)
  BY <1>1 DEF Publisher, BeginUnit, AppendEvent, CommitUnit, RollbackUnit
<1>2. CASE \E n \in Nodes : Registrar(n)
  BY <1>2 DEF Registrar, RegisterReads, DeleteStale, InsertNext, Backfill, CommitRegister, AbortRegister, Restart
<1>3. CASE \E n \in Nodes : Sweeper(n)
  BY <1>3 DEF Sweeper, SelectDelivered, DeleteDelivered, SelectExpired, DeleteExpiredRows, CommitExpired, AbortSweep
<1>4. CASE \E g \in Groups : Unregistrar(g)
  BY <1>4 DEF Unregistrar, UnregisterConsumers, UnregisterDeliveries, CommitUnregister, AbortUnregister
<1>5. CASE \E g \in Groups, e \in Events : Settle(g, e) \/ DropOrphan(g, e)
  BY <1>5 DEF Settle, DropOrphan
<1>6. CASE UNCHANGED vars
  BY <1>6 DEF vars
<1> QED BY <1>1, <1>2, <1>3, <1>4, <1>5, <1>6 DEF Next

LEMMA OnlyCommittedNext ==
  ASSUME TypeOK, OnlyCommitted, [Next]_vars
  PROVE  OnlyCommitted'
<1> USE CommittedGrows DEF OnlyCommitted, TypeOK, tables, publish, history
<1>1. CASE \E e \in Events : Publisher(e)
  <2>1. PICK e \in Events : Publisher(e)
    BY <1>1
  <2>2. CASE CommitUnit(e)
    BY <2>2 DEF CommitUnit, Committed
  <2>3. CASE BeginUnit(e) \/ AppendEvent(e) \/ RollbackUnit(e)
    BY <2>3 DEF BeginUnit, AppendEvent, RollbackUnit
  <2> QED BY <2>1, <2>2, <2>3 DEF Publisher
<1>2. CASE \E n \in Nodes : Registrar(n)
  <2>1. PICK n \in Nodes : Registrar(n)
    BY <1>2
  <2>2. CASE RegisterReads(n)
    BY <2>2 DEF RegisterReads
  <2>3. CASE CommitRegister(n)
    BY <2>3 DEF CommitRegister
  <2>4. CASE AbortRegister(n)
    BY <2>4 DEF AbortRegister
  <2>5. CASE DeleteStale(n) \/ InsertNext(n) \/ Backfill(n) \/ Restart(n)
    BY <2>5 DEF DeleteStale, InsertNext, Backfill, Restart
  <2> QED BY <2>1, <2>2, <2>3, <2>4, <2>5 DEF Registrar
<1>3. CASE \E n \in Nodes : Sweeper(n)
  <2>1. PICK n \in Nodes : Sweeper(n)
    BY <1>3
  <2>2. CASE SelectDelivered(n)
    <3>1. PICK ids \in SUBSET Delivered : sweep' = [sweep EXCEPT ![n] = [NoSweep EXCEPT !.step = "delivered", !.ids = ids]]
      BY <2>2 DEF SelectDelivered
    <3>2. ids \subseteq Committed
      BY DEF Delivered
    <3> QED BY <2>2, <3>1, <3>2 DEF SelectDelivered, NoSweep
  <2>3. CASE SelectExpired(n)
    <3>1. PICK ids \in SUBSET events : sweep' = [sweep EXCEPT ![n] = [NoSweep EXCEPT !.step = "expired", !.ids = ids]]
      BY <2>3 DEF SelectExpired
    <3> QED BY <2>3, <3>1 DEF SelectExpired, NoSweep
  <2>4. CASE DeleteExpiredRows(n)
    <3>1. \A m \in Nodes : sweep'[m].ids = sweep[m].ids
      BY <2>4 DEF DeleteExpiredRows, SweepUnit
    <3> QED BY <2>4, <3>1 DEF DeleteExpiredRows
  <2>5. CASE DeleteDelivered(n) \/ CommitExpired(n) \/ AbortSweep(n)
    <3>1. \A m \in Nodes : sweep'[m].ids \subseteq sweep[m].ids
      BY <2>5 DEF DeleteDelivered, CommitExpired, AbortSweep, NoSweep
    <3>2. events' \subseteq events /\ UNCHANGED <<unit, held, promised, settled>>
      BY <2>5 DEF DeleteDelivered, CommitExpired, AbortSweep
    <3> QED BY <3>1, <3>2 DEF Committed
  <2> QED BY <2>1, <2>2, <2>3, <2>4, <2>5 DEF Sweeper
<1>4. CASE \E g \in Groups : Unregistrar(g)
  <2>1. PICK g \in Groups : Unregistrar(g)
    BY <1>4
  <2>2. CASE CommitUnregister(g)
    BY <2>2 DEF CommitUnregister
  <2>3. CASE UnregisterConsumers(g) \/ UnregisterDeliveries(g) \/ AbortUnregister(g)
    BY <2>3 DEF UnregisterConsumers, UnregisterDeliveries, AbortUnregister
  <2> QED BY <2>1, <2>2, <2>3 DEF Unregistrar
<1>5. CASE \E g \in Groups, e \in Events : Settle(g, e) \/ DropOrphan(g, e)
  <2>1. PICK g \in Groups, e \in Events : Settle(g, e) \/ DropOrphan(g, e)
    BY <1>5
  <2>2. CASE Settle(g, e)
    BY <2>2 DEF Settle
  <2>3. CASE DropOrphan(g, e)
    BY <2>3 DEF DropOrphan
  <2> QED BY <2>1, <2>2, <2>3
<1>6. CASE UNCHANGED vars
  BY <1>6 DEF vars
<1> QED BY <1>1, <1>2, <1>3, <1>4, <1>5, <1>6 DEF Next

LEMMA OwnRowsNext ==
  ASSUME TypeOK, OwnRows, [Next]_vars
  PROVE  OwnRows'
<1> USE DEF OwnRows, TypeOK, tables, publish, history
<1>1. CASE UNCHANGED <<reg, unreg, sweep>>
  BY <1>1
<1>2. CASE \E n \in Nodes : Registrar(n)
  <2>1. PICK n \in Nodes : Registrar(n)
    BY <1>2
  <2>2. CASE RegisterReads(n)
    BY <2>2 DEF RegisterReads, NoReg
  <2>3. CASE DeleteStale(n)
    BY <2>3, StoreAssumption DEF DeleteStale, RegUnit
  <2>4. CASE InsertNext(n)
    <3> DEFINE d == First(reg[n].todo)
    <3>1. d \in Destinations
      BY <2>4, FirstToDo DEF InsertNext
    <3> HIDE DEF d
    <3>2. reg' = [reg EXCEPT ![n].todo = @ \ {d},
                             ![n].ins = IF <<GroupOf[n], d>> \in consumers THEN @ ELSE @ \cup {<<GroupOf[n], d>>}]
      BY <2>4 DEF InsertNext, d
    <3> QED BY <2>4, <3>1, <3>2 DEF InsertNext, RegUnit
  <2>5. CASE Backfill(n)
    <3> DEFINE rows == ({GroupOf[n]} \X Matched(reg[n].wanted)) \ deliveries
    <3>1. rows \subseteq {GroupOf[n]} \X Events
      BY DEF Matched
    <3>2. \/ reg' = [reg EXCEPT ![n].step = "committing", ![n].fill = rows]
          \/ reg' = [reg EXCEPT ![n].step = "committing"]
      BY <2>5 DEF Backfill
    <3> HIDE DEF rows
    <3>3. \A m \in Nodes : /\ reg'[m].ins = reg[m].ins /\ reg'[m].del = reg[m].del
                           /\ reg'[m].fill = reg[m].fill \/ (m = n /\ reg'[m].fill = rows)
      BY <3>2 DEF RegUnit
    <3>4. UNCHANGED <<unreg, sweep>>
      BY <2>5 DEF Backfill
    <3>5. \A m \in Nodes : reg'[m].fill \subseteq {GroupOf[m]} \X Events
      BY <3>1, <3>3
    <3> QED BY <3>3, <3>4, <3>5
  <2>6. CASE CommitRegister(n)
    BY <2>6 DEF CommitRegister, NoReg
  <2>7. CASE AbortRegister(n)
    BY <2>7 DEF AbortRegister, NoReg
  <2>8. CASE Restart(n)
    BY <2>8 DEF Restart
  <2> QED BY <2>1, <2>2, <2>3, <2>4, <2>5, <2>6, <2>7, <2>8 DEF Registrar
<1>3. CASE \E n \in Nodes : Sweeper(n)
  <2>1. PICK n \in Nodes : Sweeper(n)
    BY <1>3
  <2>2. CASE SelectDelivered(n) \/ SelectExpired(n)
    <3>1. PICK ids, step : sweep' = [sweep EXCEPT ![n] = [NoSweep EXCEPT !.step = step, !.ids = ids]]
      BY <2>2 DEF SelectDelivered, SelectExpired
    <3>2. \A m \in Nodes : sweep'[m].rows = {} \/ sweep'[m] = sweep[m]
      BY <3>1 DEF NoSweep
    <3> QED BY <2>2, <3>2 DEF SelectDelivered, SelectExpired
  <2>3. CASE DeleteExpiredRows(n)
    BY <2>3 DEF DeleteExpiredRows, ExpiredRows, SweepUnit
  <2>4. CASE DeleteDelivered(n) \/ CommitExpired(n) \/ AbortSweep(n)
    <3>1. UNCHANGED <<reg, unreg>> /\ sweep' = [sweep EXCEPT ![n] = NoSweep]
      BY <2>4 DEF DeleteDelivered, CommitExpired, AbortSweep
    <3>2. \A m \in Nodes : sweep'[m].rows = {} \/ sweep'[m] = sweep[m]
      BY <3>1 DEF NoSweep
    <3> QED BY <3>1, <3>2
  <2> QED BY <2>1, <2>2, <2>3, <2>4 DEF Sweeper
<1>4. CASE \E g \in Groups : Unregistrar(g)
  <2>1. PICK g \in Groups : Unregistrar(g)
    BY <1>4
  <2>2. CASE UnregisterConsumers(g)
    BY <2>2 DEF UnregisterConsumers, UnregUnit
  <2>3. CASE UnregisterDeliveries(g)
    BY <2>3 DEF UnregisterDeliveries, UnregUnit
  <2>4. CASE CommitUnregister(g) \/ AbortUnregister(g)
    BY <2>4 DEF CommitUnregister, AbortUnregister, NoUnreg
  <2> QED BY <2>1, <2>2, <2>3, <2>4 DEF Unregistrar
<1>5. CASE \E e \in Events : Publisher(e)
  BY <1>1, <1>5 DEF Publisher, BeginUnit, AppendEvent, CommitUnit, RollbackUnit
<1>6. CASE \E g \in Groups, e \in Events : Settle(g, e) \/ DropOrphan(g, e)
  BY <1>1, <1>6 DEF Settle, DropOrphan
<1>7. CASE UNCHANGED vars
  BY <1>1, <1>7 DEF vars
<1> QED BY <1>2, <1>3, <1>4, <1>5, <1>6, <1>7 DEF Next

----------------------------------------------------------------------------
(* A delivery is kept while its group is sure of the event. *)

\* A step that neither starts nor commits a unit, nor changes who takes its event,
\* lets nobody be sure who was not.
LEMMA SureOwedKept ==
  ASSUME SureOwed, UNCHANGED <<unit, view, owed>>,
         \A e \in Events : /\ sure'[e] \subseteq sure[e]
                           /\ unit[e] = "open" => sure'[e] \subseteq Takers(consumers', e)
  PROVE  SureOwed'
BY DEF SureOwed

LEMMA SureOwedNext ==
  ASSUME TypeOK, SureOwed, [Next]_vars
  PROVE  SureOwed'
<1> USE DEF TypeOK, tables, publish, history
<1>1. CASE UNCHANGED <<unit, view, owed, consumers>> /\ \A e \in Events : sure'[e] \subseteq sure[e]
  BY <1>1, SureOwedKept DEF SureOwed
<1>2. CASE \E e \in Events : Publisher(e)
  <2>1. PICK e \in Events : Publisher(e)
    BY <1>2
  <2>2. CASE BeginUnit(e)
    <3>1. \A x \in Events \ {e} : UNCHANGED <<unit[x], view[x], owed[x], sure[x]>>
      BY <2>2 DEF BeginUnit
    <3>2. unit'[e] = "open" /\ view'[e] = consumers /\ sure'[e] = Takers(consumers, e) /\ consumers' = consumers
      BY <2>2 DEF BeginUnit
    <3> QED BY <3>1, <3>2 DEF SureOwed
  <2>3. CASE AppendEvent(e)
    <3>1. PICK C \in {consumers} \cup (IF SnapshotReads THEN {view[e]} ELSE {}) :
             owed' = [owed EXCEPT ![e] = Owed(C, e)]
      BY <2>3 DEF AppendEvent
    <3>2. C \in SUBSET Keys /\ sure[e] \subseteq Takers(C, e)
      BY <2>3, <3>1 DEF AppendEvent, SureOwed
    <3>3. unit'[e] = "appended" /\ owed'[e] = Takers(C, e) /\ sure' = sure /\ consumers' = consumers
      BY <2>3, <3>1, <3>2, OwedAreTakers DEF AppendEvent
    <3>4. \A x \in Events \ {e} : UNCHANGED <<unit[x], view[x], owed[x]>>
      BY <2>3, <3>1 DEF AppendEvent
    <3> QED BY <3>2, <3>3, <3>4 DEF SureOwed
  <2>4. CASE CommitUnit(e) \/ RollbackUnit(e)
    <3>1. \A x \in Events \ {e} : UNCHANGED <<unit[x], view[x], owed[x], sure[x]>>
      BY <2>4 DEF CommitUnit, RollbackUnit
    <3>2. unit'[e] \notin {"open", "appended"} /\ consumers' = consumers
      BY <2>4 DEF CommitUnit, RollbackUnit
    <3> QED BY <3>1, <3>2 DEF SureOwed
  <2> QED BY <2>1, <2>2, <2>3, <2>4 DEF Publisher
<1>3. CASE \E n \in Nodes : Registrar(n)
  <2>1. PICK n \in Nodes : Registrar(n)
    BY <1>3
  <2>2. CASE CommitRegister(n)
    <3>1. \A e \in Events : sure'[e] = StillSure(consumers', e)
      BY <2>2 DEF CommitRegister
    <3>2. UNCHANGED <<unit, view, owed>>
      BY <2>2 DEF CommitRegister
    <3> QED BY <3>1, <3>2, SureOwedKept DEF StillSure
  <2>3. CASE ~CommitRegister(n)
    BY <1>1, <2>1, <2>3 DEF Registrar, RegisterReads, DeleteStale, InsertNext, Backfill, AbortRegister, Restart
  <2> QED BY <2>2, <2>3
<1>4. CASE \E g \in Groups : Unregistrar(g)
  <2>1. PICK g \in Groups : Unregistrar(g)
    BY <1>4
  <2>2. CASE CommitUnregister(g)
    <3>1. \A e \in Events : sure'[e] = StillSure(consumers', e) \ {g}
      BY <2>2 DEF CommitUnregister
    <3>2. UNCHANGED <<unit, view, owed>>
      BY <2>2 DEF CommitUnregister
    <3> QED BY <3>1, <3>2, SureOwedKept DEF StillSure
  <2>3. CASE ~CommitUnregister(g)
    BY <1>1, <2>1, <2>3 DEF Unregistrar, UnregisterConsumers, UnregisterDeliveries, AbortUnregister
  <2> QED BY <2>2, <2>3
<1>5. CASE \E n \in Nodes : Sweeper(n)
  BY <1>1, <1>5 DEF Sweeper, SelectDelivered, DeleteDelivered, SelectExpired, DeleteExpiredRows, CommitExpired, AbortSweep
<1>6. CASE \E g \in Groups, e \in Events : Settle(g, e) \/ DropOrphan(g, e)
  BY <1>1, <1>6 DEF Settle, DropOrphan
<1>7. CASE UNCHANGED vars
  BY <1>1, <1>7 DEF vars
<1> QED BY <1>2, <1>3, <1>4, <1>5, <1>6, <1>7 DEF Next

LEMMA OwedUntilSettledNext ==
  ASSUME TypeOK, OwnRows, SureOwed, SweptUnowed, OwedUntilSettled, [Next]_vars
  PROVE  OwedUntilSettled'
<1> USE DEF OwedUntilSettled, TypeOK, tables, publish, history
\* A step takes a delivery or an event of a committed unit only from who is no longer sure of it.
<1>1. CASE /\ \A e \in Events : unit'[e] = "committed" => unit[e] = "committed" /\ sure'[e] \subseteq sure[e]
           /\ \A e \in events \ events' : sure'[e] = {}
           /\ \A p \in deliveries \ deliveries' : p[1] \notin sure'[p[2]]
  BY <1>1
<1>2. CASE \E e \in Events : Publisher(e)
  <2>1. PICK e \in Events : Publisher(e)
    BY <1>2
  <2>2. CASE CommitUnit(e)
    <3>1. sure[e] \subseteq owed[e] /\ e \in events'
      BY <2>2 DEF CommitUnit, SureOwed
    <3>2. \A g \in sure[e] : <<g, e>> \in deliveries'
      BY <2>2, <3>1 DEF CommitUnit
    <3>3. events \subseteq events' /\ deliveries \subseteq deliveries' /\ sure' = sure
      BY <2>2 DEF CommitUnit
    <3>4. \A x \in Events \ {e} : unit'[x] = unit[x]
      BY <2>2 DEF CommitUnit
    <3> QED BY <3>1, <3>2, <3>3, <3>4
  <2>3. CASE BeginUnit(e) \/ AppendEvent(e) \/ RollbackUnit(e)
    BY <1>1, <2>3 DEF BeginUnit, AppendEvent, RollbackUnit
  <2> QED BY <2>1, <2>2, <2>3 DEF Publisher
<1>3. CASE \E n \in Nodes : Registrar(n)
  <2>1. PICK n \in Nodes : Registrar(n)
    BY <1>3
  <2>2. CASE CommitRegister(n)
    BY <1>1, <2>2 DEF CommitRegister, StillSure
  <2>3. CASE ~CommitRegister(n)
    BY <1>1, <2>1, <2>3 DEF Registrar, RegisterReads, DeleteStale, InsertNext, Backfill, AbortRegister, Restart
  <2> QED BY <2>2, <2>3
<1>4. CASE \E g \in Groups : Unregistrar(g)
  <2>1. PICK g \in Groups : Unregistrar(g)
    BY <1>4
  <2>2. CASE CommitUnregister(g)
    <3>1. \A e \in Events : sure'[e] \subseteq sure[e] \ {g}
      BY <2>2 DEF CommitUnregister, StillSure
    <3>2. \A p \in deliveries \ deliveries' : p \in {g} \X Events
      BY <2>2 DEF CommitUnregister, OwnRows
    <3>3. UNCHANGED <<unit, events>>
      BY <2>2 DEF CommitUnregister
    <3>4. \A p \in deliveries \ deliveries' : p[1] = g /\ p[2] \in Events
      BY <3>2
    <3> QED BY <1>1, <3>1, <3>3, <3>4
  <2>3. CASE ~CommitUnregister(g)
    BY <1>1, <2>1, <2>3 DEF Unregistrar, UnregisterConsumers, UnregisterDeliveries, AbortUnregister
  <2> QED BY <2>2, <2>3
<1>5. CASE \E n \in Nodes : Sweeper(n)
  <2>1. PICK n \in Nodes : Sweeper(n)
    BY <1>5
  <2>2. CASE DeleteDelivered(n)
    <3>1. \A e \in sweep[n].ids : sure[e] = {}
      BY <2>2 DEF DeleteDelivered, SweptUnowed
    <3>2. events' = events \ sweep[n].ids /\ UNCHANGED <<unit, deliveries, sure>>
      BY <2>2 DEF DeleteDelivered
    <3> QED BY <1>1, <3>1, <3>2
  <2>3. CASE CommitExpired(n)
    <3>1. \A p \in deliveries \ deliveries' : p[2] \in sweep[n].ids /\ p[2] \in Events
      BY <2>3 DEF CommitExpired, OwnRows, Pairs
    <3>2. \A e \in Events : sure'[e] = IF e \in sweep[n].ids THEN {} ELSE sure[e]
      BY <2>3 DEF CommitExpired
    <3>3. events' = events \ sweep[n].ids /\ unit' = unit
      BY <2>3 DEF CommitExpired
    <3> QED BY <1>1, <3>1, <3>2, <3>3
  <2>4. CASE ~DeleteDelivered(n) /\ ~CommitExpired(n)
    BY <1>1, <2>1, <2>4 DEF Sweeper, SelectDelivered, SelectExpired, DeleteExpiredRows, AbortSweep
  <2> QED BY <2>2, <2>3, <2>4
<1>6. CASE \E g \in Groups, e \in Events : Settle(g, e) \/ DropOrphan(g, e)
  <2>1. PICK g \in Groups, e \in Events : Settle(g, e) \/ DropOrphan(g, e)
    BY <1>6
  <2>2. CASE Settle(g, e)
    <3>1. UNCHANGED <<unit, events>> /\ deliveries' = deliveries \ {<<g, e>>} /\ sure' = [sure EXCEPT ![e] = @ \ {g}]
      BY <2>2 DEF Settle
    <3> QED BY <1>1, <3>1
  <2>3. CASE DropOrphan(g, e)
    BY <2>3 DEF DropOrphan
  <2> QED BY <2>1, <2>2, <2>3
<1>7. CASE UNCHANGED vars
  BY <1>1, <1>7 DEF vars
<1> QED BY <1>2, <1>3, <1>4, <1>5, <1>6, <1>7 DEF Next

LEMMA SweptUnowedNext ==
  ASSUME TypeOK, OnlyCommitted, OwnRows, OwedUntilSettled, SweptUnowed, [Next]_vars
  PROVE  SweptUnowed'
<1> USE DEF TypeOK, tables, publish, history
\* A step of no sweep owes a committed event only by registering.
<1>1. CASE /\ sweep' = sweep /\ filled \subseteq filled'
           /\ \A e \in Committed : sure'[e] \subseteq sure[e]
           /\ \A p \in deliveries' : p \in deliveries \/ p \in filled' \/ p[2] \notin Committed
  <2> SUFFICES ASSUME NEW n \in Nodes, NEW e \in sweep[n].ids
               PROVE  /\ sweep[n].step = "delivered" => sure'[e] = {}
                      /\ \A g \in Groups : <<g, e>> \in deliveries' =>
                            \/ sweep[n].step = "expired" \/ <<g, e>> \in filled'
                            \/ sweep[n].step = "committing" /\ <<g, e>> \in sweep[n].rows
    BY <1>1 DEF SweptUnowed
  <2>1. e \in Committed
    BY DEF OnlyCommitted
  <2>2. \A g \in Groups : <<g, e>> \in deliveries' => <<g, e>> \in deliveries \/ <<g, e>> \in filled'
    BY <1>1, <2>1
  <2> QED BY <1>1, <2>1, <2>2 DEF SweptUnowed
<1>2. CASE \E e \in Events : Publisher(e)
  <2>1. PICK e \in Events : Publisher(e)
    BY <1>2
  <2>2. CASE BeginUnit(e)
    BY <1>1, <2>2 DEF BeginUnit, Committed
  <2>3. CASE AppendEvent(e)
    BY <1>1, <2>3 DEF AppendEvent
  <2>4. CASE CommitUnit(e)
    BY <1>1, <2>4 DEF CommitUnit, Committed
  <2>5. CASE RollbackUnit(e)
    BY <1>1, <2>5 DEF RollbackUnit
  <2> QED BY <2>1, <2>2, <2>3, <2>4, <2>5 DEF Publisher
<1>3. CASE \E n \in Nodes : Registrar(n)
  <2>1. PICK n \in Nodes : Registrar(n)
    BY <1>3
  <2>2. CASE CommitRegister(n)
    BY <1>1, <2>2 DEF CommitRegister, StillSure, Committed
  <2>3. CASE ~CommitRegister(n)
    BY <1>1, <2>1, <2>3 DEF Registrar, RegisterReads, DeleteStale, InsertNext, Backfill, AbortRegister, Restart
  <2> QED BY <2>2, <2>3
<1>4. CASE \E g \in Groups : Unregistrar(g)
  <2>1. PICK g \in Groups : Unregistrar(g)
    BY <1>4
  <2>2. CASE CommitUnregister(g)
    BY <1>1, <2>2 DEF CommitUnregister, StillSure, Committed
  <2>3. CASE ~CommitUnregister(g)
    BY <1>1, <2>1, <2>3 DEF Unregistrar, UnregisterConsumers, UnregisterDeliveries, AbortUnregister
  <2> QED BY <2>2, <2>3
<1>5. CASE \E n \in Nodes : Sweeper(n)
  <2>1. PICK n \in Nodes : Sweeper(n)
    BY <1>5
  <2>2. CASE SelectDelivered(n)
    <3>1. PICK ids \in SUBSET Delivered : sweep' = [sweep EXCEPT ![n] = [NoSweep EXCEPT !.step = "delivered", !.ids = ids]]
      BY <2>2 DEF SelectDelivered
    <3>2. UNCHANGED <<deliveries, filled, sure>>
      BY <2>2 DEF SelectDelivered
    <3>3. \A e \in ids : /\ \A g \in Groups : <<g, e>> \notin deliveries
                         /\ e \in Events /\ unit[e] = "committed"
      BY DEF Delivered, OnlyCommitted, Committed
    <3>4. \A e \in ids : sure[e] = {}
      BY <3>3 DEF OwedUntilSettled
    <3>5. sweep'[n].step = "delivered" /\ sweep'[n].ids = ids
      BY <3>1 DEF NoSweep
    <3>6. \A m \in Nodes \ {n} : sweep'[m] = sweep[m]
      BY <3>1
    <3> QED BY <3>2, <3>3, <3>4, <3>5, <3>6 DEF SweptUnowed
  <2>3. CASE SelectExpired(n)
    <3>1. sweep'[n].step = "expired" /\ \A m \in Nodes \ {n} : sweep'[m] = sweep[m]
      BY <2>3 DEF SelectExpired, NoSweep
    <3>2. UNCHANGED <<deliveries, filled, sure>>
      BY <2>3 DEF SelectExpired
    <3> QED BY <3>1, <3>2 DEF SweptUnowed
  <2>4. CASE DeleteExpiredRows(n)
    <3>1. /\ sweep'[n].step = "committing" /\ sweep'[n].rows = ExpiredRows(n) /\ sweep'[n].ids = sweep[n].ids
          /\ \A m \in Nodes \ {n} : sweep'[m] = sweep[m]
      BY <2>4 DEF DeleteExpiredRows, SweepUnit
    <3>2. UNCHANGED <<deliveries, filled, sure>>
      BY <2>4 DEF DeleteExpiredRows
    <3>3. \A e \in sweep[n].ids : \A g \in Groups : <<g, e>> \in deliveries => <<g, e>> \in ExpiredRows(n)
      BY DEF ExpiredRows
    <3> QED BY <3>1, <3>2, <3>3 DEF SweptUnowed
  <2>5. CASE DeleteDelivered(n) \/ CommitExpired(n) \/ AbortSweep(n)
    <3>1. sweep'[n].ids = {} /\ \A m \in Nodes \ {n} : sweep'[m] = sweep[m]
      BY <2>5 DEF DeleteDelivered, CommitExpired, AbortSweep, NoSweep
    <3>2. filled' = filled /\ deliveries' \subseteq deliveries
      BY <2>5 DEF DeleteDelivered, CommitExpired, AbortSweep
    <3>3. \A e \in Events : sure'[e] \subseteq sure[e]
      BY <2>5 DEF DeleteDelivered, CommitExpired, AbortSweep
    <3>4. \A m \in Nodes : sweep[m].ids \subseteq Events
      BY DEF SweepUnit
    <3> QED BY <3>1, <3>2, <3>3, <3>4 DEF SweptUnowed
  <2> QED BY <2>1, <2>2, <2>3, <2>4, <2>5 DEF Sweeper
<1>6. CASE \E g \in Groups, e \in Events : Settle(g, e) \/ DropOrphan(g, e)
  <2>1. PICK g \in Groups, e \in Events : Settle(g, e) \/ DropOrphan(g, e)
    BY <1>6
  <2>2. \A x \in Committed : sure'[x] \subseteq sure[x]
    BY <2>1 DEF Settle, DropOrphan, Committed
  <2> QED BY <1>1, <2>1, <2>2 DEF Settle, DropOrphan
<1>7. CASE UNCHANGED vars
  BY <1>1, <1>7 DEF vars
<1> QED BY <1>2, <1>3, <1>4, <1>5, <1>6, <1>7 DEF Next

LEMMA OrphansNext ==
  ASSUME TypeOK, OwnRows, SweptUnowed, OrphansAreBackfilled, [Next]_vars
  PROVE  OrphansAreBackfilled'
<1> USE DEF TypeOK, tables, publish, history
\* A step takes an event only with the deliveries no registration wrote.
<1>1. CASE /\ filled \subseteq filled'
           /\ \A p \in deliveries' : p \in deliveries \/ p \in filled' \/ p[2] \in events'
           /\ \A p \in deliveries' : p[2] \in events \ events' => p \in filled'
  BY <1>1 DEF OrphansAreBackfilled
<1>2. CASE \E e \in Events : Publisher(e)
  BY <1>1, <1>2 DEF Publisher, BeginUnit, AppendEvent, CommitUnit, RollbackUnit
<1>3. CASE \E n \in Nodes : Registrar(n)
  BY <1>1, <1>3 DEF Registrar, RegisterReads, DeleteStale, InsertNext, Backfill, CommitRegister, AbortRegister, Restart
<1>4. CASE \E g \in Groups : Unregistrar(g)
  BY <1>1, <1>4 DEF Unregistrar, UnregisterConsumers, UnregisterDeliveries, CommitUnregister, AbortUnregister
<1>5. CASE \E n \in Nodes : Sweeper(n)
  <2>1. PICK n \in Nodes : Sweeper(n)
    BY <1>5
  <2>2. \A p \in deliveries : p[1] \in Groups /\ p = <<p[1], p[2]>>
    BY DEF Pairs
  <2>3. CASE DeleteDelivered(n)
    <3>1. \A p \in deliveries : p[2] \in sweep[n].ids => p \in filled
      BY <2>2, <2>3 DEF DeleteDelivered, SweptUnowed
    <3> QED BY <1>1, <2>3, <3>1 DEF DeleteDelivered
  <2>4. CASE CommitExpired(n)
    <3>1. \A p \in deliveries : p[2] \in sweep[n].ids => p \in filled \/ p \in sweep[n].rows
      BY <2>2, <2>4 DEF CommitExpired, SweptUnowed
    <3> QED BY <1>1, <2>4, <3>1 DEF CommitExpired
  <2>5. CASE ~DeleteDelivered(n) /\ ~CommitExpired(n)
    BY <1>1, <2>1, <2>5 DEF Sweeper, SelectDelivered, SelectExpired, DeleteExpiredRows, AbortSweep
  <2> QED BY <2>3, <2>4, <2>5
<1>6. CASE \E g \in Groups, e \in Events : Settle(g, e) \/ DropOrphan(g, e)
  BY <1>1, <1>6 DEF Settle, DropOrphan
<1>7. CASE UNCHANGED vars
  BY <1>1, <1>7 DEF vars
<1> QED BY <1>2, <1>3, <1>4, <1>5, <1>6, <1>7 DEF Next

LEMMA WantsAllowedNext ==
  ASSUME TypeOK, WantsAllowed, [Next]_vars
  PROVE  WantsAllowed'
<1> USE DEF TypeOK, tables, publish, history
<1>1. CASE UNCHANGED reg
  BY <1>1 DEF WantsAllowed
<1>2. CASE \E n \in Nodes : Registrar(n)
  <2>1. PICK n \in Nodes : Registrar(n)
    BY <1>2
  <2>2. CASE RegisterReads(n)
    BY <2>2 DEF RegisterReads, WantsAllowed, NoReg
  <2>3. CASE DeleteStale(n) \/ InsertNext(n) \/ Backfill(n)
    <3>1. reg[n].step # Idle
      BY <2>3 DEF DeleteStale, InsertNext, Backfill, Idle
    <3>2. \A m \in Nodes : reg'[m].wanted = reg[m].wanted /\ (m # n => reg'[m] = reg[m])
      BY <2>3 DEF DeleteStale, InsertNext, Backfill, RegUnit
    <3> QED BY <3>1, <3>2 DEF WantsAllowed
  <2>4. CASE CommitRegister(n) \/ AbortRegister(n)
    <3>1. reg'[n].step = Idle /\ \A m \in Nodes \ {n} : reg'[m] = reg[m]
      BY <2>4 DEF CommitRegister, AbortRegister, NoReg
    <3> QED BY <3>1 DEF WantsAllowed
  <2>5. CASE Restart(n)
    BY <1>1, <2>5 DEF Restart
  <2> QED BY <2>1, <2>2, <2>3, <2>4, <2>5 DEF Registrar
<1>3. CASE ~\E n \in Nodes : Registrar(n)
  BY <1>1, <1>3 DEF Next, vars, Publisher, BeginUnit, AppendEvent, CommitUnit, RollbackUnit,
       Unregistrar, UnregisterConsumers, UnregisterDeliveries, CommitUnregister, AbortUnregister,
       Sweeper, SelectDelivered, DeleteDelivered, SelectExpired, DeleteExpiredRows, CommitExpired, AbortSweep,
       Settle, DropOrphan
<1> QED BY <1>2, <1>3

LEMMA KeepsInit == Init => KeepsInv
BY DEF Init, KeepsInv, OnlyCommitted, OwnRows, SureOwed, SweptUnowed, OwedUntilSettled, OrphansAreBackfilled,
       Committed, WantsAllowed, NoReg, NoUnreg, NoSweep

LEMMA KeepsNext == TypeOK /\ KeepsInv /\ [Next]_vars => KeepsInv'
BY OnlyCommittedNext, OwnRowsNext, SureOwedNext, SweptUnowedNext, OwedUntilSettledNext, OrphansNext, WantsAllowedNext DEF KeepsInv

\* A committed event stays, and stays owed to whoever was registered for it when
\* its unit read and has not settled it, whatever registrations, unregistrations
\* and sweeps run beside it; a delivery outlives its event only when a
\* registration wrote it while a sweep deleted the event.
THEOREM DeliveriesStay == Spec => []DeliveriesKept
<1>1. TypeOK /\ KeepsInv => DeliveriesKept
  BY DEF KeepsInv, DeliveriesKept
<1> QED BY <1>1, StoreTypesInit, StoreTypesNext, KeepsInit, KeepsNext, PTL DEF Spec

----------------------------------------------------------------------------
(* A new group is owed what the outbox held for it, and nobody what is addressed to others. *)

\* A step that leaves the unit of relay m alone, and takes from it no row that it counts on.
HeldKept(m) ==
    /\ reg'[m] = reg[m] /\ held'[m] \subseteq held[m]
    /\ \A e \in held'[m] \cap events' :
          /\ e \in events
          /\ <<GroupOf[m], e>> \in deliveries => <<GroupOf[m], e>> \in deliveries'

LEMMA FilledKept ==
  ASSUME NEW m \in Nodes, HeldKept(m), reg[m].step # Idle => FilledFor(m), reg'[m].step # Idle
  PROVE  FilledFor(m)'
BY DEF HeldKept, FilledFor, NewGroup

LEMMA HeldFilledNext ==
  ASSUME TypeOK, OnlyCommitted, OwnRows, HeldFilled, [Next]_vars
  PROVE  HeldFilled'
<1> USE DEF TypeOK, tables, publish, history
<1>1. CASE \A m \in Nodes : HeldKept(m) \/ reg'[m].step = Idle \/ FilledFor(m)'
  BY <1>1, FilledKept DEF HeldFilled, HeldKept
<1>2. CASE \E e \in Events : Publisher(e)
  <2>1. PICK e \in Events : Publisher(e)
    BY <1>2
  <2>2. CASE CommitUnit(e)
    <3>1. \A m \in Nodes : e \notin held[m]
      BY <2>2 DEF CommitUnit, OnlyCommitted, Committed
    <3>2. UNCHANGED <<reg, held>> /\ events' = events \cup {e} /\ deliveries \subseteq deliveries'
      BY <2>2 DEF CommitUnit
    <3> QED BY <1>1, <3>1, <3>2 DEF HeldKept
  <2>3. CASE BeginUnit(e) \/ AppendEvent(e) \/ RollbackUnit(e)
    <3>1. UNCHANGED <<reg, held, events, deliveries>>
      BY <2>3 DEF BeginUnit, AppendEvent, RollbackUnit
    <3> QED BY <1>1, <3>1 DEF HeldKept
  <2> QED BY <2>1, <2>2, <2>3 DEF Publisher
<1>3. CASE \E n \in Nodes : Registrar(n)
  <2>1. PICK n \in Nodes : Registrar(n)
    BY <1>3
  <2>2. \A m \in Nodes \ {n} : HeldKept(m)
    <3>1. RegisterReads(n) \/ CommitRegister(n) \/ AbortRegister(n) \/ Restart(n)
             => \A m \in Nodes \ {n} : reg'[m] = reg[m] /\ held'[m] = held[m]
      BY DEF RegisterReads, CommitRegister, AbortRegister, Restart
    <3>2. DeleteStale(n) \/ InsertNext(n) \/ Backfill(n)
             => \A m \in Nodes \ {n} : reg'[m] = reg[m] /\ held'[m] = held[m]
      BY DEF DeleteStale, InsertNext, Backfill
    <3>3. events' = events /\ deliveries \subseteq deliveries'
      BY <2>1 DEF Registrar, RegisterReads, DeleteStale, InsertNext, Backfill, CommitRegister, AbortRegister, Restart
    <3>4. \A m \in Nodes \ {n} : reg'[m] = reg[m] /\ held'[m] = held[m]
      BY <2>1, <3>1, <3>2 DEF Registrar
    <3> QED BY <3>3, <3>4 DEF HeldKept
  <2>3. CASE RegisterReads(n)
    <3>1. reg'[n].step = "deleting" /\ \A e \in held'[n] : Takes(reg'[n].wanted, e)
      BY <2>3 DEF RegisterReads, NoReg
    <3>2. FilledFor(n)'
      BY <3>1 DEF FilledFor
    <3> QED BY <1>1, <2>2, <3>2
  <2>4. CASE DeleteStale(n) \/ InsertNext(n)
    <3>1. reg[n].step # Idle /\ reg'[n].step = "inserting" /\ reg'[n].wanted = reg[n].wanted /\ held' = held
      BY <2>4 DEF DeleteStale, InsertNext, RegUnit, Idle
    <3>2. FilledFor(n)'
      BY <3>1 DEF HeldFilled, FilledFor
    <3> QED BY <1>1, <2>2, <3>2
  <2>5. CASE Backfill(n)
    <3> DEFINE rows == ({GroupOf[n]} \X Matched(reg[n].wanted)) \ deliveries
    <3>1. /\ reg[n].step # Idle /\ UNCHANGED <<held, events, deliveries>>
          /\ reg'[n].wanted = reg[n].wanted /\ reg'[n].existing = reg[n].existing /\ reg'[n].ins = reg[n].ins
          /\ NewGroup(n) /\ Earliest => reg'[n].fill = rows
      BY <2>5 DEF Backfill, RegUnit, Idle
    <3>2. \A e \in held[n] : Takes(reg[n].wanted, e)
      BY <3>1 DEF HeldFilled, FilledFor
    <3>3. \A e \in held[n] \cap events : Dest[e] \notin Private => <<GroupOf[n], e>> \in deliveries \cup rows
      BY <3>2, TakenMatch
    <3>4. FilledFor(n)'
      BY <3>1, <3>2, <3>3 DEF FilledFor, NewGroup
    <3> QED BY <1>1, <2>2, <3>4
  <2>6. CASE CommitRegister(n) \/ AbortRegister(n)
    <3>1. reg'[n].step = Idle
      BY <2>6 DEF CommitRegister, AbortRegister, NoReg
    <3> QED BY <1>1, <2>2, <3>1
  <2>7. CASE Restart(n)
    BY <1>1, <2>2, <2>7 DEF Restart, HeldKept
  <2> QED BY <2>1, <2>3, <2>4, <2>5, <2>6, <2>7 DEF Registrar
<1>4. CASE \E g \in Groups : Unregistrar(g)
  <2>1. PICK g \in Groups : Unregistrar(g)
    BY <1>4
  <2>2. CASE CommitUnregister(g)
    <3>1. /\ reg' = reg /\ events' = events
          /\ \A m \in Nodes : held'[m] = IF GroupOf[m] = g THEN {} ELSE held[m]
      BY <2>2 DEF CommitUnregister
    <3>2. \A h \in Groups, e \in Events : h # g /\ <<h, e>> \in deliveries => <<h, e>> \in deliveries'
      BY <2>2 DEF CommitUnregister, OwnRows
    <3> QED BY <1>1, <3>1, <3>2, StoreAssumption DEF HeldKept
  <2>3. CASE ~CommitUnregister(g)
    <3>1. UNCHANGED <<reg, held, events, deliveries>>
      BY <2>1, <2>3 DEF Unregistrar, UnregisterConsumers, UnregisterDeliveries, AbortUnregister
    <3> QED BY <1>1, <3>1 DEF HeldKept
  <2> QED BY <2>2, <2>3
<1>5. CASE \E n \in Nodes : Sweeper(n)
  <2>1. PICK n \in Nodes : Sweeper(n)
    BY <1>5
  <2>2. CASE CommitExpired(n)
    <3>1. UNCHANGED <<reg, held>> /\ events' = events \ sweep[n].ids
      BY <2>2 DEF CommitExpired
    <3>2. \A h \in Groups, e \in Events : e \notin sweep[n].ids /\ <<h, e>> \in deliveries => <<h, e>> \in deliveries'
      BY <2>2 DEF CommitExpired, OwnRows
    <3> QED BY <1>1, <3>1, <3>2, StoreAssumption DEF HeldKept
  <2>3. CASE ~CommitExpired(n)
    <3>1. UNCHANGED <<reg, held, deliveries>> /\ events' \subseteq events
      BY <2>1, <2>3 DEF Sweeper, SelectDelivered, DeleteDelivered, SelectExpired, DeleteExpiredRows, AbortSweep
    <3> QED BY <1>1, <3>1 DEF HeldKept
  <2> QED BY <2>2, <2>3
<1>6. CASE \E g \in Groups, e \in Events : Settle(g, e) \/ DropOrphan(g, e)
  <2>1. PICK g \in Groups, e \in Events : Settle(g, e) \/ DropOrphan(g, e)
    BY <1>6
  <2>2. /\ UNCHANGED <<reg, events>> /\ deliveries' = deliveries \ {<<g, e>>}
        /\ \A m \in Nodes : /\ held'[m] \subseteq held[m]
                            /\ GroupOf[m] = g => e \notin held'[m] \cap events
    BY <2>1 DEF Settle, DropOrphan
  <2> QED BY <1>1, <2>2 DEF HeldKept
<1>7. CASE UNCHANGED vars
  BY <1>1, <1>7 DEF vars, HeldKept
<1> QED BY <1>2, <1>3, <1>4, <1>5, <1>6, <1>7 DEF Next

LEMMA BackfillCompleteNext ==
  ASSUME TypeOK, OnlyCommitted, OwnRows, HeldFilled, BackfillComplete, [Next]_vars
  PROVE  BackfillComplete'
<1> USE DEF TypeOK, tables, publish, history
<1>1. CASE /\ promised' \subseteq promised
           /\ \A p \in promised' : p[2] \in events' => p[2] \in events
           /\ \A p \in promised' : p \in deliveries /\ p[2] \in events' => p \in deliveries'
  BY <1>1 DEF BackfillComplete
<1>2. CASE \E e \in Events : Publisher(e)
  <2>1. PICK e \in Events : Publisher(e)
    BY <1>2
  <2>2. CASE CommitUnit(e)
    <3>1. \A p \in promised : p[2] # e
      BY <2>2 DEF CommitUnit, OnlyCommitted, Committed
    <3> QED BY <1>1, <2>2, <3>1 DEF CommitUnit
  <2>3. CASE BeginUnit(e) \/ AppendEvent(e) \/ RollbackUnit(e)
    BY <1>1, <2>3 DEF BeginUnit, AppendEvent, RollbackUnit
  <2> QED BY <2>1, <2>2, <2>3 DEF Publisher
<1>3. CASE \E n \in Nodes : Registrar(n)
  <2>1. PICK n \in Nodes : Registrar(n)
    BY <1>3
  <2>2. CASE CommitRegister(n)
    <3>1. events' = events /\ deliveries' = deliveries \cup reg[n].fill /\ reg[n].step = "committing"
      BY <2>2 DEF CommitRegister
    <3>2. CASE NewGroup(n) /\ Earliest
      <4>1. FilledFor(n)
        BY <3>1 DEF HeldFilled, Idle
      <4>2. \A e \in held[n] \cap events : Dest[e] \notin Private => <<GroupOf[n], e>> \in deliveries'
        BY <3>1, <3>2, <4>1 DEF FilledFor
      <4>3. promised' = promised \cup ({GroupOf[n]} \X held[n])
        BY <2>2, <3>2 DEF CommitRegister
      <4> QED BY <3>1, <4>2, <4>3 DEF BackfillComplete
    <3>3. CASE ~(NewGroup(n) /\ Earliest)
      BY <1>1, <2>2, <3>1, <3>3 DEF CommitRegister
    <3> QED BY <3>2, <3>3
  <2>3. CASE ~CommitRegister(n)
    BY <1>1, <2>1, <2>3 DEF Registrar, RegisterReads, DeleteStale, InsertNext, Backfill, AbortRegister, Restart
  <2> QED BY <2>2, <2>3
<1>4. CASE \E g \in Groups : Unregistrar(g)
  <2>1. PICK g \in Groups : Unregistrar(g)
    BY <1>4
  <2>2. CASE CommitUnregister(g)
    <3>1. unreg[g].rows \subseteq {g} \X Events
      BY DEF OwnRows
    <3> QED BY <1>1, <2>2, <3>1 DEF CommitUnregister
  <2>3. CASE ~CommitUnregister(g)
    BY <1>1, <2>1, <2>3 DEF Unregistrar, UnregisterConsumers, UnregisterDeliveries, AbortUnregister
  <2> QED BY <2>2, <2>3
<1>5. CASE \E n \in Nodes : Sweeper(n)
  <2>1. PICK n \in Nodes : Sweeper(n)
    BY <1>5
  <2>2. CASE CommitExpired(n)
    <3>1. sweep[n].rows \subseteq Groups \X sweep[n].ids
      BY DEF OwnRows
    <3> QED BY <1>1, <2>2, <3>1 DEF CommitExpired
  <2>3. CASE ~CommitExpired(n)
    BY <1>1, <2>1, <2>3 DEF Sweeper, SelectDelivered, DeleteDelivered, SelectExpired, DeleteExpiredRows, AbortSweep
  <2> QED BY <2>2, <2>3
<1>6. CASE \E g \in Groups, e \in Events : Settle(g, e) \/ DropOrphan(g, e)
  BY <1>1, <1>6 DEF Settle, DropOrphan
<1>7. CASE UNCHANGED vars
  BY <1>1, <1>7 DEF vars
<1> QED BY <1>2, <1>3, <1>4, <1>5, <1>6, <1>7 DEF Next

LEMMA AddressedRowsNext ==
  ASSUME TypeOK, WantsAllowed, AddressedRows, [Next]_vars
  PROVE  AddressedRows'
<1> USE DEF TypeOK, tables, publish, history
<1>1. CASE /\ deliveries' \subseteq deliveries /\ owed' = owed /\ filled' = filled
           /\ \A n \in Nodes : reg'[n].fill \subseteq reg[n].fill
  BY <1>1 DEF AddressedRows
<1>2. CASE \E e \in Events : Publisher(e)
  <2>1. PICK e \in Events : Publisher(e)
    BY <1>2
  <2>2. CASE AppendEvent(e)
    <3>1. PICK C : owed' = [owed EXCEPT ![e] = Owed(C, e)]
      BY <2>2 DEF AppendEvent
    <3>2. \A g \in Owed(C, e) : MayOwe(g, e)
      BY DEF Owed, MayOwe
    <3>3. UNCHANGED <<deliveries, reg, filled>>
      BY <2>2 DEF AppendEvent
    <3>4. \A x \in Events : \A g \in owed'[x] : MayOwe(g, x)
      BY <3>1, <3>2 DEF AddressedRows
    <3> QED BY <3>3, <3>4 DEF AddressedRows
  <2>3. CASE CommitUnit(e)
    <3>1. \A p \in owed[e] \X {e} : MayOwe(p[1], p[2])
      BY DEF AddressedRows
    <3> QED BY <2>3, <3>1 DEF CommitUnit, AddressedRows
  <2>4. CASE BeginUnit(e) \/ RollbackUnit(e)
    BY <2>4 DEF BeginUnit, RollbackUnit, AddressedRows
  <2> QED BY <2>1, <2>2, <2>3, <2>4 DEF Publisher
<1>3. CASE \E n \in Nodes : Registrar(n)
  <2>1. PICK n \in Nodes : Registrar(n)
    BY <1>3
  <2>2. CASE Backfill(n)
    <3> DEFINE rows == ({GroupOf[n]} \X Matched(reg[n].wanted)) \ deliveries
    <3>1. reg[n].wanted \in Wanted
      BY <2>2 DEF Backfill, WantsAllowed, Idle
    <3>2. \A e \in Matched(reg[n].wanted) : LooksUnaddressed(e)
      BY <3>1 DEF Matched, LooksUnaddressed
    <3>3. \A p \in rows : LooksUnaddressed(p[2])
      BY <3>2
    <3>4. UNCHANGED <<deliveries, owed, filled>> /\ \A m \in Nodes : reg'[m].fill = reg[m].fill \/ reg'[m].fill = rows
      BY <2>2 DEF Backfill, RegUnit
    <3> HIDE DEF rows
    <3> QED BY <3>3, <3>4 DEF AddressedRows
  <2>3. CASE CommitRegister(n)
    <3>1. deliveries' = deliveries \cup reg[n].fill /\ filled' = filled \cup reg[n].fill /\ owed' = owed
      BY <2>3 DEF CommitRegister
    <3>2. \A m \in Nodes : reg'[m].fill \subseteq reg[m].fill
      BY <2>3 DEF CommitRegister, NoReg
    <3> QED BY <3>1, <3>2 DEF AddressedRows
  <2>4. CASE RegisterReads(n) \/ AbortRegister(n)
    <3>1. \A m \in Nodes \ {n} : reg'[m] = reg[m]
      BY <2>4 DEF RegisterReads, AbortRegister
    <3>2. reg'[n].fill = {}
      <4>1. CASE RegisterReads(n)
        BY <4>1 DEF RegisterReads, NoReg
      <4>2. CASE AbortRegister(n)
        BY <4>2 DEF AbortRegister, NoReg
      <4> QED BY <2>4, <4>1, <4>2
    <3> QED BY <1>1, <2>4, <3>1, <3>2 DEF RegisterReads, AbortRegister
  <2>5. CASE DeleteStale(n) \/ InsertNext(n)
    <3>1. \A m \in Nodes \ {n} : reg'[m] = reg[m]
      BY <2>5 DEF DeleteStale, InsertNext
    <3>2. reg[n] \in RegUnit /\ reg'[n].fill = reg[n].fill
      BY <2>5 DEF DeleteStale, InsertNext, RegUnit
    <3> QED BY <1>1, <2>5, <3>1, <3>2 DEF DeleteStale, InsertNext
  <2>6. CASE Restart(n)
    BY <1>1, <2>6 DEF Restart
  <2> QED BY <2>1, <2>2, <2>3, <2>4, <2>5, <2>6 DEF Registrar
<1>4. CASE \E g \in Groups : Unregistrar(g)
  BY <1>1, <1>4 DEF Unregistrar, UnregisterConsumers, UnregisterDeliveries, CommitUnregister, AbortUnregister
<1>5. CASE \E n \in Nodes : Sweeper(n)
  BY <1>1, <1>5 DEF Sweeper, SelectDelivered, DeleteDelivered, SelectExpired, DeleteExpiredRows, CommitExpired, AbortSweep
<1>6. CASE \E g \in Groups, e \in Events : Settle(g, e) \/ DropOrphan(g, e)
  BY <1>1, <1>6 DEF Settle, DropOrphan
<1>7. CASE UNCHANGED vars
  BY <1>1, <1>7 DEF vars
<1> QED BY <1>2, <1>3, <1>4, <1>5, <1>6, <1>7 DEF Next

LEMMA FillsInit == Init => FillsInv
BY DEF Init, FillsInv, HeldFilled, BackfillComplete, AddressedRows, NoReg

LEMMA FillsNext == TypeOK /\ KeepsInv /\ FillsInv /\ [Next]_vars => FillsInv'
BY HeldFilledNext, BackfillCompleteNext, AddressedRowsNext DEF FillsInv, KeepsInv

\* A new group that starts at the earliest event is owed every event the outbox
\* held for it when it began to register, and holds still, and nobody is owed by
\* a publish what is addressed to others, or by a backfill what its destination
\* shows to be. Whatever publishes, sweeps, or registers meanwhile.
THEOREM BackfillsExactly == Spec => []BackfillExact
<1>1. FillsInv => BackfillExact
  BY DEF FillsInv, BackfillExact, AddressedOnly, AddressedRows, MayOwe
<1> QED BY <1>1, StoreTypesInit, StoreTypesNext, KeepsInit, KeepsNext, FillsInit, FillsNext, PTL DEF Spec

----------------------------------------------------------------------------
(* A relay finds its group new once. *)

\* How a registration moves: it begins from what it read and what its peers want,
\* drops the keys not wanted, has one key after the other inserted or finds it
\* there, and commits.
LEMMA RegReads ==
  ASSUME TypeOK, NEW n \in Nodes, RegisterReads(n)
  PROVE  /\ ~Registering(n) /\ unreg[GroupOf[n]].step = Idle
         /\ reg'[n].step = "deleting" /\ reg'[n].existing = RegisteredFor(GroupOf[n])
         /\ reg'[n].ins = {} /\ reg'[n].del = {} /\ reg'[n].todo = {} /\ reg'[n].fill = {}
         /\ Uniform => \A m \in Nodes : GroupOf[m] = GroupOf[n] /\ Registering(m) => reg[m].wanted = reg'[n].wanted
         /\ \A m \in Nodes \ {n} : reg'[m] = reg[m]
         /\ UNCHANGED <<consumers, deliveries, unreg, settled>>
BY DEF RegisterReads, Registering, RegisteredFor, TypeOK, NoReg, tables

LEMMA RegDeletes ==
  ASSUME TypeOK, NEW n \in Nodes, DeleteStale(n)
  PROVE  /\ reg[n].step = "deleting" /\ reg'[n].step = "inserting"
         /\ reg'[n].wanted = reg[n].wanted /\ reg'[n].existing = reg[n].existing
         /\ reg'[n].ins = reg[n].ins /\ reg'[n].fill = reg[n].fill
         /\ reg'[n].todo = reg[n].wanted \ reg[n].existing
         /\ reg'[n].del \subseteq {GroupOf[n]} \X (reg[n].existing \ reg[n].wanted)
         /\ \A m \in Nodes \ {n} : reg'[m] = reg[m]
         /\ UNCHANGED <<consumers, deliveries, unreg, settled>>
BY DEF DeleteStale, TypeOK, RegUnit, tables, history

LEMMA RegInserts ==
  ASSUME TypeOK, NEW n \in Nodes, InsertNext(n)
  PROVE  \E d \in reg[n].todo :
         /\ reg[n].step = "inserting" /\ reg'[n].step = "inserting" /\ <<GroupOf[n], d>> \notin KeysHeld(n)
         /\ reg'[n].wanted = reg[n].wanted /\ reg'[n].existing = reg[n].existing
         /\ reg'[n].del = reg[n].del /\ reg'[n].fill = reg[n].fill
         /\ reg'[n].todo = reg[n].todo \ {d}
         /\ reg'[n].ins = IF <<GroupOf[n], d>> \in consumers THEN reg[n].ins ELSE reg[n].ins \cup {<<GroupOf[n], d>>}
         /\ \A m \in Nodes \ {n} : reg'[m] = reg[m]
         /\ UNCHANGED <<consumers, deliveries, unreg, settled>>
<1> DEFINE d == First(reg[n].todo)
<1>1. d \in reg[n].todo
  BY FirstToDo DEF InsertNext
<1>2. reg' = [reg EXCEPT ![n].todo = @ \ {d},
                         ![n].ins = IF <<GroupOf[n], d>> \in consumers THEN @ ELSE @ \cup {<<GroupOf[n], d>>}]
  BY DEF InsertNext
<1>3. /\ reg[n].step = "inserting" /\ <<GroupOf[n], d>> \notin KeysHeld(n)
      /\ UNCHANGED <<consumers, deliveries, unreg, settled>>
  BY DEF InsertNext, tables, history
<1> HIDE DEF d
<1>4. /\ reg'[n].step = reg[n].step /\ reg'[n].wanted = reg[n].wanted /\ reg'[n].existing = reg[n].existing
      /\ reg'[n].del = reg[n].del /\ reg'[n].fill = reg[n].fill /\ reg'[n].todo = reg[n].todo \ {d}
      /\ reg'[n].ins = IF <<GroupOf[n], d>> \in consumers THEN reg[n].ins ELSE reg[n].ins \cup {<<GroupOf[n], d>>}
      /\ \A m \in Nodes \ {n} : reg'[m] = reg[m]
  BY <1>2 DEF TypeOK, RegUnit
<1> QED BY <1>1, <1>3, <1>4

LEMMA RegBackfills ==
  ASSUME TypeOK, NEW n \in Nodes, Backfill(n)
  PROVE  /\ reg[n].step = "inserting" /\ reg[n].todo = {} /\ reg'[n].step = "committing"
         /\ reg'[n].wanted = reg[n].wanted /\ reg'[n].existing = reg[n].existing
         /\ reg'[n].ins = reg[n].ins /\ reg'[n].del = reg[n].del /\ reg'[n].todo = reg[n].todo
         /\ NewGroup(n) \/ reg'[n].fill = reg[n].fill
         /\ \A m \in Nodes \ {n} : reg'[m] = reg[m]
         /\ UNCHANGED <<consumers, deliveries, unreg, settled>>
BY DEF Backfill, TypeOK, RegUnit, tables, history

LEMMA RegEnds ==
  ASSUME TypeOK, NEW n \in Nodes, CommitRegister(n) \/ AbortRegister(n)
  PROVE  /\ reg'[n] = NoReg /\ reg'[n].step = Idle /\ reg'[n].ins = {} /\ reg'[n].fill = {}
         /\ \A m \in Nodes \ {n} : reg'[m] = reg[m]
         /\ UNCHANGED <<unreg, settled>>
<1>1. reg' = [reg EXCEPT ![n] = NoReg] /\ UNCHANGED <<unreg, settled>>
  BY DEF CommitRegister, AbortRegister
<1>2. reg'[n] = NoReg /\ \A m \in Nodes \ {n} : reg'[m] = reg[m]
  BY <1>1 DEF TypeOK
<1> QED BY <1>1, <1>2 DEF NoReg

\* Steps that concern neither registrations nor what was settled.
OthersMove == UNCHANGED <<consumers, reg, unreg>>

LEMMA OthersMoveOnly ==
  ASSUME \/ \E e \in Events : Publisher(e)
         \/ \E n \in Nodes : Sweeper(n) \/ Restart(n)
         \/ \E g \in Groups, e \in Events : Settle(g, e) \/ DropOrphan(g, e)
         \/ UNCHANGED vars
  PROVE  OthersMove
BY DEF OthersMove, Publisher, BeginUnit, AppendEvent, CommitUnit, RollbackUnit, Sweeper, SelectDelivered,
       DeleteDelivered, SelectExpired, DeleteExpiredRows, CommitExpired, AbortSweep, Restart, Settle, DropOrphan,
       tables, publish, history, vars

\* The steps that do.
Registers(n) ==
    RegisterReads(n) \/ DeleteStale(n) \/ InsertNext(n) \/ Backfill(n) \/ CommitRegister(n) \/ AbortRegister(n)

LEMMA RegistryCases ==
  ASSUME [Next]_vars
  PROVE  OthersMove \/ (\E n \in Nodes : Registers(n)) \/ (\E g \in Groups : Unregistrar(g))
BY OthersMoveOnly DEF Next, Registrar, Registers

\* What a registration comes to.
LEMMA RegistersAll ==
  ASSUME TypeOK, OwnRows, WantsAllowed, KeysComing, NEW n \in Nodes, CommitRegister(n)
  PROVE  /\ reg[n].wanted \subseteq RegisteredFor(GroupOf[n])' /\ reg[n].wanted # {}
         /\ \A g \in Groups \ {GroupOf[n]} : RegisteredFor(g)' = RegisteredFor(g)
         /\ \A d \in Destinations : <<GroupOf[n], d>> \in consumers /\ <<GroupOf[n], d>> \notin reg[n].del =>
                                       <<GroupOf[n], d>> \in consumers'
<1>1. /\ consumers' = (consumers \ reg[n].del) \cup reg[n].ins /\ Registering(n)
      /\ reg[n].step = "committing"
  BY DEF CommitRegister, Registering, Idle
<1>2. ComingFor(n) /\ reg[n].wanted \in Wanted
  BY <1>1 DEF KeysComing, WantsAllowed, Registering
<1>3. reg[n].wanted # {} /\ reg[n].wanted \subseteq Destinations
  BY <1>2, StoreAssumption
<1>4. \A d \in reg[n].wanted : <<GroupOf[n], d>> \in consumers'
  BY <1>1, <1>2 DEF ComingFor
<1>5. \A g \in Groups \ {GroupOf[n]}, d \in Destinations : <<g, d>> \in consumers' <=> <<g, d>> \in consumers
  BY <1>1 DEF OwnRows
<1>6. reg[n].wanted \subseteq RegisteredFor(GroupOf[n])'
  BY <1>3, <1>4 DEF RegisteredFor
<1>7. \A g \in Groups \ {GroupOf[n]} : RegisteredFor(g)' = RegisteredFor(g)
  BY <1>5 DEF RegisteredFor
<1>8. \A d \in Destinations : <<GroupOf[n], d>> \in consumers /\ <<GroupOf[n], d>> \notin reg[n].del =>
                              <<GroupOf[n], d>> \in consumers'
  BY <1>1
<1> QED BY <1>3, <1>6, <1>7, <1>8

LEMMA UnregistersAll ==
  ASSUME TypeOK, OwnRows, NEW g \in Groups, CommitUnregister(g)
  PROVE  /\ \A h \in Groups \ {g}, d \in Destinations : <<h, d>> \in consumers' <=> <<h, d>> \in consumers
         /\ \A h \in Groups \ {g} : RegisteredFor(h)' = RegisteredFor(h)
         /\ consumers' = consumers \ unreg[g].keys /\ unreg[g].step # Idle
         /\ reg' = reg /\ unreg'[g].step = Idle /\ \A h \in Groups \ {g} : unreg'[h] = unreg[h]
<1>1. /\ consumers' = consumers \ unreg[g].keys /\ unreg[g].step # Idle
      /\ reg' = reg /\ unreg'[g].step = Idle /\ \A h \in Groups \ {g} : unreg'[h] = unreg[h]
  BY DEF CommitUnregister, TypeOK, NoUnreg, Idle
<1>2. \A h \in Groups \ {g}, d \in Destinations : <<h, d>> \in consumers' <=> <<h, d>> \in consumers
  BY <1>1 DEF OwnRows
<1> QED BY <1>1, <1>2 DEF RegisteredFor

LEMMA WantAlikeNext ==
  ASSUME TypeOK, Uniform, WantAlike, [Next]_vars
  PROVE  WantAlike'
<1>1. CASE UNCHANGED reg
  BY <1>1 DEF WantAlike, Registering
<1>2. CASE \E n \in Nodes : Registers(n)
  <2>1. PICK n \in Nodes : Registers(n)
    BY <1>2
  <2>2. CASE RegisterReads(n)
    BY <2>2, RegReads DEF WantAlike, Registering
  <2>3. CASE DeleteStale(n) \/ InsertNext(n) \/ Backfill(n)
    <3>1. /\ Registering(n) /\ reg'[n].wanted = reg[n].wanted /\ \A m \in Nodes \ {n} : reg'[m] = reg[m]
      BY <2>3, RegDeletes, RegInserts, RegBackfills DEF Registering, Idle
    <3> QED BY <3>1 DEF WantAlike, Registering
  <2>4. CASE CommitRegister(n) \/ AbortRegister(n)
    BY <2>4, RegEnds DEF WantAlike, Registering
  <2> QED BY <2>1, <2>2, <2>3, <2>4 DEF Registers
<1>3. CASE \E g \in Groups : Unregistrar(g)
  BY <1>1, <1>3 DEF Unregistrar, UnregisterConsumers, UnregisterDeliveries, CommitUnregister, AbortUnregister
<1> QED BY <1>1, <1>2, <1>3, RegistryCases DEF OthersMove

LEMMA NoneRegistersNext ==
  ASSUME TypeOK, NoneRegisters, [Next]_vars
  PROVE  NoneRegisters'
<1>1. CASE OthersMove
  BY <1>1 DEF OthersMove, NoneRegisters, Registering
<1>2. CASE \E n \in Nodes : Registers(n)
  <2>1. PICK n \in Nodes : Registers(n)
    BY <1>2
  <2>2. CASE RegisterReads(n)
    BY <2>2, RegReads DEF NoneRegisters, Registering
  <2>3. CASE DeleteStale(n) \/ InsertNext(n) \/ Backfill(n)
    <3>1. /\ Registering(n) /\ \A m \in Nodes \ {n} : reg'[m] = reg[m]
      BY <2>3, RegDeletes, RegInserts, RegBackfills DEF Registering, Idle
    <3>2. unreg' = unreg
      BY <2>3, RegDeletes, RegInserts, RegBackfills
    <3> QED BY <3>1, <3>2 DEF NoneRegisters, Registering
  <2>4. CASE CommitRegister(n) \/ AbortRegister(n)
    BY <2>4, RegEnds DEF NoneRegisters, Registering
  <2> QED BY <2>1, <2>2, <2>3, <2>4 DEF Registers
<1>3. CASE \E g \in Groups : Unregistrar(g)
  <2>1. PICK g \in Groups : Unregistrar(g)
    BY <1>3
  <2>2. /\ reg' = reg /\ \A h \in Groups \ {g} : unreg'[h] = unreg[h]
    BY <2>1 DEF Unregistrar, UnregisterConsumers, UnregisterDeliveries, CommitUnregister, AbortUnregister, TypeOK
  <2>3. unreg[g].step = Idle => UnregisterConsumers(g)
    BY <2>1 DEF Unregistrar, UnregisterDeliveries, CommitUnregister, AbortUnregister, Idle
  <2>4. UnregisterConsumers(g) => \A n \in Nodes : GroupOf[n] = g => ~Registering(n)
    BY DEF UnregisterConsumers, Registering
  <2> QED BY <2>2, <2>3, <2>4 DEF NoneRegisters, Registering
<1> QED BY <1>1, <1>2, <1>3, RegistryCases

LEMMA KeysApartNext ==
  ASSUME TypeOK, KeysApart, [Next]_vars
  PROVE  KeysApart'
<1>1. CASE UNCHANGED reg
  BY <1>1 DEF KeysApart
<1>2. CASE \E n \in Nodes : Registers(n)
  <2>1. PICK n \in Nodes : Registers(n)
    BY <1>2
  <2>2. CASE InsertNext(n)
    <3>1. PICK d \in reg[n].todo :
            /\ <<GroupOf[n], d>> \notin KeysHeld(n) /\ reg'[n].ins \subseteq reg[n].ins \cup {<<GroupOf[n], d>>}
            /\ \A m \in Nodes \ {n} : reg'[m] = reg[m]
      BY <2>2, RegInserts
    <3>2. \A m \in Nodes \ {n} : reg[m].ins \cup reg[m].del \subseteq KeysHeld(n)
      <4> SUFFICES ASSUME NEW m \in Nodes \ {n}
                   PROVE  reg[m].ins \cup reg[m].del \subseteq KeysHeld(n)
        OBVIOUS
      <4>1. reg[m].ins \cup reg[m].del \in {reg[k].ins \cup reg[k].del : k \in Nodes \ {n}}
        OBVIOUS
      <4> QED BY <4>1 DEF KeysHeld
    <3>3. \A m \in Nodes \ {n} : reg'[n].ins \cap reg[m].ins = {}
      BY <3>1, <3>2 DEF KeysApart
    <3>4. \A m, k \in Nodes : m # k /\ n \notin {m, k} => reg'[m].ins \cap reg'[k].ins = {}
      BY <3>1 DEF KeysApart
    <3> QED BY <3>1, <3>3, <3>4 DEF KeysApart
  <2>3. CASE ~InsertNext(n)
    <3>1. /\ reg'[n].ins = reg[n].ins \/ reg'[n].ins = {}
          /\ \A m \in Nodes \ {n} : reg'[m] = reg[m]
      BY <2>1, <2>3, RegReads, RegDeletes, RegBackfills, RegEnds DEF Registers
    <3> QED BY <3>1 DEF KeysApart
  <2> QED BY <2>2, <2>3
<1>3. CASE \E g \in Groups : Unregistrar(g)
  BY <1>1, <1>3 DEF Unregistrar, UnregisterConsumers, UnregisterDeliveries, CommitUnregister, AbortUnregister
<1> QED BY <1>1, <1>2, <1>3, RegistryCases DEF OthersMove

\* The unregistering units: until one commits, they leave all this alone.
LEMMA UnregisterWaits ==
  ASSUME TypeOK, NEW g \in Groups, Unregistrar(g), ~CommitUnregister(g)
  PROVE  /\ UNCHANGED <<consumers, deliveries, reg, settled>>
         /\ \A h \in Groups \ {g} : unreg'[h] = unreg[h]
         /\ unreg'[g].step # Idle /\ unreg[g].step = Idle =>
               /\ unreg'[g].keys = consumers \cap ({g} \X Destinations)
               /\ \A n \in Nodes : GroupOf[n] = g => ~Registering(n)
         /\ unreg'[g].step # Idle /\ unreg[g].step # Idle => unreg'[g].keys = unreg[g].keys
<1>1. CASE UnregisterConsumers(g)
  BY <1>1 DEF UnregisterConsumers, Registering, TypeOK, tables, history
<1>2. CASE UnregisterDeliveries(g)
  BY <1>2 DEF UnregisterDeliveries, TypeOK, UnregUnit, Idle, tables, history
<1>3. CASE AbortUnregister(g)
  BY <1>3 DEF AbortUnregister, TypeOK, NoUnreg, tables, history
<1> QED BY <1>1, <1>2, <1>3 DEF Unregistrar

\* While a relay of a group registers, no commit takes a wanted key of the group away.
LEMMA WantedStays ==
  ASSUME TypeOK, OwnRows, WantsAllowed, Uniform, WantAlike, NoneRegisters, KeysComing, [Next]_vars,
         NEW m \in Nodes, Registering(m), NEW d \in reg[m].wanted,
         <<GroupOf[m], d>> \in consumers
  PROVE  <<GroupOf[m], d>> \in consumers'
<1>1. d \in Destinations /\ GroupOf[m] \in Groups
  BY StoreAssumption DEF TypeOK, RegUnit
<1>2. CASE OthersMove
  BY <1>2 DEF OthersMove
<1>3. ASSUME NEW n \in Nodes, Registers(n)
      PROVE  <<GroupOf[m], d>> \in consumers'
  <2>1. CASE ~CommitRegister(n)
    BY <1>3, <2>1, RegReads, RegDeletes, RegInserts, RegBackfills DEF Registers, AbortRegister, tables
  <2>2. CASE CommitRegister(n) /\ GroupOf[n] = GroupOf[m]
    <3>1. Registering(n) /\ ComingFor(n)
      BY <2>2 DEF CommitRegister, Registering, KeysComing, Idle
    <3>2. reg[n].wanted = reg[m].wanted
      BY <2>2, <3>1 DEF WantAlike
    <3>3. <<GroupOf[n], d>> \notin reg[n].del
      BY <3>1, <3>2 DEF ComingFor
    <3> QED BY <1>1, <2>2, <3>3, RegistersAll
  <2>3. CASE CommitRegister(n) /\ GroupOf[n] # GroupOf[m]
    <3>1. RegisteredFor(GroupOf[m])' = RegisteredFor(GroupOf[m])
      BY <1>1, <2>3, RegistersAll
    <3> QED BY <1>1, <3>1 DEF RegisteredFor
  <2> QED BY <2>1, <2>2, <2>3
<1>4. ASSUME NEW g \in Groups, Unregistrar(g)
      PROVE  <<GroupOf[m], d>> \in consumers'
  <2>1. CASE ~CommitUnregister(g)
    BY <1>4, <2>1, UnregisterWaits
  <2>2. CASE CommitUnregister(g)
    <3>1. GroupOf[m] # g
      BY <2>2 DEF NoneRegisters, CommitUnregister, Idle
    <3> QED BY <1>1, <2>2, <3>1, UnregistersAll
  <2> QED BY <2>1, <2>2
<1> QED BY <1>2, <1>3, <1>4, RegistryCases

\* A step of another unit leaves a registration as it is.
LEMMA OtherRegisters ==
  ASSUME TypeOK, NEW m \in Nodes, [Next]_vars, ~Registers(m)
  PROVE  reg'[m] = reg[m]
<1>1. ASSUME NEW n \in Nodes \ {m}, Registers(n)
      PROVE  reg'[m] = reg[m]
  <2>1. InsertNext(n) => reg'[m] = reg[m]
    BY RegInserts
  <2>2. ~InsertNext(n) => reg'[m] = reg[m]
    BY <1>1, RegReads, RegDeletes, RegBackfills, RegEnds DEF Registers
  <2> QED BY <2>1, <2>2
<1>2. ASSUME NEW g \in Groups, Unregistrar(g)
      PROVE  reg'[m] = reg[m]
  <2>1. CommitUnregister(g) => reg' = reg
    BY DEF CommitUnregister
  <2> QED BY <1>2, <2>1, UnregisterWaits
<1> QED BY <1>1, <1>2, RegistryCases DEF OthersMove

LEMMA KeysComingNext ==
  ASSUME TypeOK, OwnRows, WantsAllowed, Uniform, WantAlike, NoneRegisters, KeysComing, [Next]_vars
  PROVE  KeysComing'
<1> SUFFICES ASSUME NEW m \in Nodes, Registering(m)'
             PROVE  ComingFor(m)'
  BY DEF KeysComing
<1>1. CASE reg'[m] = reg[m]
  <2>1. Registering(m) /\ ComingFor(m)
    BY <1>1 DEF Registering, KeysComing
  <2>2. \A d \in reg[m].wanted : <<GroupOf[m], d>> \in consumers => <<GroupOf[m], d>> \in consumers'
    BY <2>1, WantedStays
  <2> QED BY <1>1, <2>1, <2>2 DEF ComingFor
<1>2. CASE RegisterReads(m)
  <2>1. reg'[m].wanted \subseteq Destinations
    BY <1>2, StoreAssumption DEF RegisterReads, TypeOK, NoReg
  <2>2. \A d \in reg'[m].wanted : d \in reg'[m].existing => <<GroupOf[m], d>> \in consumers'
    BY <1>2, RegReads DEF RegisteredFor
  <2>3. /\ reg'[m].step = "deleting" /\ reg'[m].del = {} /\ reg'[m].todo = {} /\ reg'[m].ins = {}
    BY <1>2, RegReads
  <2> QED BY <2>2, <2>3 DEF ComingFor
<1>3. CASE DeleteStale(m)
  <2>1. Registering(m) /\ ComingFor(m) /\ reg[m].step = "deleting"
    BY <1>3, RegDeletes DEF Registering, KeysComing, Idle
  <2>2. /\ reg'[m].step = "inserting" /\ reg'[m].wanted = reg[m].wanted /\ reg'[m].ins = reg[m].ins
        /\ reg'[m].todo = reg[m].wanted \ reg[m].existing /\ consumers' = consumers
        /\ reg'[m].del \subseteq {GroupOf[m]} \X (reg[m].existing \ reg[m].wanted)
    BY <1>3, RegDeletes
  <2>3. \A d \in reg[m].wanted : d \in reg'[m].todo \/ <<GroupOf[m], d>> \in consumers \cup reg[m].ins
    BY <2>1, <2>2 DEF ComingFor
  <2> QED BY <2>1, <2>2, <2>3 DEF ComingFor
<1>4. CASE InsertNext(m)
  <2>1. Registering(m) /\ ComingFor(m)
    BY <1>4, RegInserts DEF Registering, KeysComing, Idle
  <2>2. PICK d \in reg[m].todo :
          /\ reg[m].step = "inserting" /\ reg'[m].step = "inserting" /\ reg'[m].wanted = reg[m].wanted
          /\ reg'[m].del = reg[m].del /\ reg'[m].todo = reg[m].todo \ {d}
          /\ reg'[m].ins = IF <<GroupOf[m], d>> \in consumers THEN reg[m].ins ELSE reg[m].ins \cup {<<GroupOf[m], d>>}
          /\ consumers' = consumers
    BY <1>4, RegInserts
  <2>3. /\ <<GroupOf[m], d>> \in consumers \cup reg'[m].ins
        /\ reg[m].ins \subseteq reg'[m].ins /\ reg'[m].ins \subseteq reg[m].ins \cup {<<GroupOf[m], d>>}
    BY <2>2
  <2>4. d \in reg[m].wanted
    BY <2>1 DEF ComingFor
  <2>5. reg'[m].ins \subseteq {GroupOf[m]} \X reg[m].wanted
    BY <2>1, <2>3, <2>4 DEF ComingFor
  <2>6. \A x \in reg[m].wanted : x \in reg'[m].todo \/ <<GroupOf[m], x>> \in consumers \cup reg'[m].ins
    BY <2>1, <2>2, <2>3 DEF ComingFor
  <2> QED BY <2>1, <2>2, <2>5, <2>6 DEF ComingFor
<1>5. CASE Backfill(m)
  <2>1. Registering(m) /\ ComingFor(m)
    BY <1>5, RegBackfills DEF Registering, KeysComing, Idle
  <2> QED BY <1>5, <2>1, RegBackfills DEF ComingFor
<1>6. CASE CommitRegister(m) \/ AbortRegister(m)
  BY <1>6, RegEnds DEF Registering
<1> QED
  BY <1>1, <1>2, <1>3, <1>4, <1>5, <1>6, OtherRegisters DEF Registers

\* What happens to the destinations a registering relay's group is registered
\* for: nothing, or a peer commits the same registration.
LEMMA PeerRegisters ==
  ASSUME TypeOK, OwnRows, WantsAllowed, Uniform, WantAlike, NoneRegisters, KeysComing, [Next]_vars,
         NEW m \in Nodes, Registering(m)
  PROVE  \/ RegisteredFor(GroupOf[m])' = RegisteredFor(GroupOf[m])
         \/ \E n \in Nodes : /\ CommitRegister(n) /\ GroupOf[n] = GroupOf[m]
                             /\ reg[n].wanted = reg[m].wanted /\ reg[m].wanted # {}
                             /\ reg[m].wanted \subseteq RegisteredFor(GroupOf[m])'
<1>1. GroupOf[m] \in Groups
  BY StoreAssumption
<1>2. CASE UNCHANGED consumers
  BY <1>2 DEF RegisteredFor
<1>3. ASSUME NEW n \in Nodes, Registers(n), ~UNCHANGED consumers
      PROVE  \/ RegisteredFor(GroupOf[m])' = RegisteredFor(GroupOf[m])
             \/ /\ CommitRegister(n) /\ GroupOf[n] = GroupOf[m]
                /\ reg[n].wanted = reg[m].wanted /\ reg[m].wanted # {}
                /\ reg[m].wanted \subseteq RegisteredFor(GroupOf[m])'
  <2>1. CommitRegister(n)
    <3>1. ~InsertNext(n)
      BY <1>3, RegInserts
    <3> QED BY <1>3, <3>1, RegReads, RegDeletes, RegBackfills DEF Registers, AbortRegister, tables
  <2>2. Registering(n)
    BY <2>1 DEF CommitRegister, Registering, Idle
  <2>3. CASE GroupOf[n] = GroupOf[m]
    BY <2>1, <2>2, <2>3, RegistersAll DEF WantAlike
  <2>4. CASE GroupOf[n] # GroupOf[m]
    BY <1>1, <2>1, <2>4, RegistersAll
  <2> QED BY <2>3, <2>4
<1>4. ASSUME NEW g \in Groups, Unregistrar(g), ~UNCHANGED consumers
      PROVE  RegisteredFor(GroupOf[m])' = RegisteredFor(GroupOf[m])
  <2>1. CommitUnregister(g)
    BY <1>4, UnregisterWaits
  <2>2. GroupOf[m] # g
    BY <2>1 DEF NoneRegisters, CommitUnregister, Idle
  <2> QED BY <1>1, <2>1, <2>2, UnregistersAll
<1> QED BY <1>2, <1>3, <1>4, RegistryCases DEF OthersMove

LEMMA StillNewNext ==
  ASSUME TypeOK, OwnRows, WantsAllowed, Uniform, WantAlike, NoneRegisters, KeysApart, KeysComing, StillNew, [Next]_vars
  PROVE  StillNew'
<1> SUFFICES ASSUME NEW m \in Nodes, Registering(m)'
             PROVE  NewFor(m)'
  BY DEF StillNew
<1> DEFINE G == GroupOf[m]
<1>1. CASE RegisterReads(m)
  <2>1. RegisteredFor(G)' = RegisteredFor(G)
    BY <1>1, RegReads DEF RegisteredFor
  <2> QED BY <1>1, <2>1, RegReads DEF NewFor
<1>2. CASE DeleteStale(m) \/ Backfill(m)
  <2>1. Registering(m) /\ RegisteredFor(G)' = RegisteredFor(G)
    BY <1>2, RegDeletes, RegBackfills DEF Registering, RegisteredFor, Idle
  <2>2. /\ reg'[m].existing = reg[m].existing /\ reg'[m].wanted = reg[m].wanted /\ reg'[m].ins = reg[m].ins
    BY <1>2, RegDeletes, RegBackfills
  <2> QED BY <2>1, <2>2 DEF NewFor, StillNew
<1>3. CASE InsertNext(m)
  <2>1. PICK d \in reg[m].todo :
          /\ reg[m].step = "inserting" /\ reg'[m].wanted = reg[m].wanted /\ reg'[m].existing = reg[m].existing
          /\ reg'[m].ins = IF <<G, d>> \in consumers THEN reg[m].ins ELSE reg[m].ins \cup {<<G, d>>}
          /\ consumers' = consumers
    BY <1>3, RegInserts
  <2>2. Registering(m) /\ RegisteredFor(G)' = RegisteredFor(G)
    BY <2>1 DEF Registering, RegisteredFor, Idle
  <2>3. NewFor(m) /\ d \in reg[m].wanted
    BY <2>1, <2>2 DEF StillNew, KeysComing, ComingFor
  <2>4. CASE <<G, d>> \in consumers
    BY <2>1, <2>2, <2>3, <2>4 DEF NewFor
  <2>5. CASE <<G, d>> \notin consumers
    <3>1. d \notin RegisteredFor(G)
      BY <2>5 DEF RegisteredFor
    <3> QED BY <2>1, <2>2, <2>3, <3>1 DEF NewFor
  <2> QED BY <2>4, <2>5
<1>4. CASE CommitRegister(m) \/ AbortRegister(m)
  BY <1>4, RegEnds DEF Registering
<1>5. CASE ~Registers(m)
  <2>1. reg'[m] = reg[m]
    BY <1>5, OtherRegisters
  <2>2. Registering(m) /\ NewFor(m)
    BY <2>1 DEF Registering, StillNew
  <2>3. CASE RegisteredFor(G)' = RegisteredFor(G)
    BY <2>1, <2>2, <2>3 DEF NewFor
  <2>4. ASSUME NEW n \in Nodes, CommitRegister(n), GroupOf[n] = G, reg[n].wanted = reg[m].wanted,
               reg[m].wanted # {}, reg[m].wanted \subseteq RegisteredFor(G)'
        PROVE  NewFor(m)'
    <3>1. n # m
      BY <1>5, <2>4 DEF Registers
    <3>2. reg[m].existing = {} => reg[m].ins = {}
      <4> SUFFICES ASSUME reg[m].existing = {}, NEW k \in reg[m].ins
                   PROVE  FALSE
        OBVIOUS
      <4>1. RegisteredFor(G) = {}
        BY <2>2 DEF NewFor
      <4>2. PICK d \in reg[m].wanted : k = <<G, d>>
        BY <2>2 DEF KeysComing, ComingFor
      <4>3. k \notin consumers
        BY <4>1, <4>2 DEF RegisteredFor, TypeOK, RegUnit
      <4>4. Registering(n) /\ reg[n].step = "committing"
        BY <2>4 DEF CommitRegister, Registering, Idle
      <4>5. ComingFor(n)
        BY <4>4 DEF KeysComing
      <4>6. k \in reg[n].ins
        BY <2>4, <4>2, <4>3, <4>4, <4>5 DEF ComingFor
      <4> QED BY <3>1, <4>6 DEF KeysApart
    <3> QED BY <2>1, <2>4, <3>2 DEF NewFor
  <2> QED BY <2>2, <2>3, <2>4, PeerRegisters
<1> QED BY <1>1, <1>2, <1>3, <1>4, <1>5 DEF Registers

LEMMA FillsNewNext ==
  ASSUME TypeOK, FillsNew, [Next]_vars
  PROVE  FillsNew'
<1> SUFFICES ASSUME NEW m \in Nodes, reg'[m].fill # {}
             PROVE  Registering(m)' /\ NewGroup(m)'
  BY DEF FillsNew
<1>1. CASE RegisterReads(m) \/ CommitRegister(m) \/ AbortRegister(m)
  BY <1>1, RegReads, RegEnds
<1>2. CASE DeleteStale(m)
  BY <1>2, RegDeletes DEF FillsNew, NewGroup, Registering, Idle
<1>3. CASE InsertNext(m)
  BY <1>3, RegInserts DEF FillsNew, NewGroup, Registering, Idle
<1>4. CASE Backfill(m)
  BY <1>4, RegBackfills DEF FillsNew, NewGroup, Registering, Idle
<1>5. CASE ~Registers(m)
  BY <1>5, OtherRegisters DEF FillsNew, NewGroup, Registering
<1> QED BY <1>1, <1>2, <1>3, <1>4, <1>5 DEF Registers

\* What becomes of the deliveries, and of those that were settled.
LEMMA SettledMoves ==
  ASSUME TypeOK, [Next]_vars
  PROVE  \/ \E g \in Groups, e \in Events :
               /\ deliveries' = deliveries \ {<<g, e>>} /\ settled' \subseteq settled \cup {<<g, e>>}
               /\ <<g, e>> \in settled' \ settled => RegisteredFor(g) # {}
               /\ consumers' = consumers
         \/ \E e \in Events : CommitUnit(e)
         \/ \E n \in Nodes : CommitRegister(n)
         \/ \E g \in Groups : CommitUnregister(g)
         \/ deliveries' \subseteq deliveries /\ settled' = settled /\ consumers' = consumers
<1> DEFINE Quiet == deliveries' \subseteq deliveries /\ settled' = settled /\ consumers' = consumers
<1>1. ASSUME NEW g \in Groups, NEW e \in Events, Settle(g, e)
      PROVE  /\ deliveries' = deliveries \ {<<g, e>>} /\ settled' \subseteq settled \cup {<<g, e>>}
             /\ <<g, e>> \in settled' \ settled => RegisteredFor(g) # {}
             /\ consumers' = consumers
  <2>1. consumers \cap ({g} \X Destinations) # {} => RegisteredFor(g) # {}
    BY DEF RegisteredFor
  <2>2. /\ deliveries' = deliveries \ {<<g, e>>} /\ consumers' = consumers
        /\ settled' = IF consumers \cap ({g} \X Destinations) = {} THEN settled ELSE settled \cup {<<g, e>>}
    BY <1>1 DEF Settle
  <2> QED BY <2>1, <2>2
<1>2. ASSUME NEW g \in Groups, NEW e \in Events, DropOrphan(g, e)
      PROVE  Quiet
  BY <1>2 DEF DropOrphan, history
<1>3. ASSUME NEW e \in Events, Publisher(e), ~CommitUnit(e)
      PROVE  Quiet
  BY <1>3 DEF Publisher, BeginUnit, AppendEvent, RollbackUnit, tables, history
<1>4. ASSUME NEW n \in Nodes, Registers(n), ~CommitRegister(n)
      PROVE  Quiet
  <2>1. InsertNext(n) => Quiet
    BY RegInserts
  <2> QED BY <1>4, <2>1, RegReads, RegDeletes, RegBackfills DEF Registers, AbortRegister, tables
<1>5. ASSUME NEW n \in Nodes, Sweeper(n) \/ Restart(n)
      PROVE  Quiet
  BY <1>5 DEF Sweeper, SelectDelivered, DeleteDelivered, SelectExpired, DeleteExpiredRows, CommitExpired,
       AbortSweep, Restart, tables, history
<1>6. ASSUME NEW g \in Groups, Unregistrar(g), ~CommitUnregister(g)
      PROVE  Quiet
  BY <1>6, UnregisterWaits
<1>7. UNCHANGED vars => Quiet
  BY DEF vars, tables, history
<1> QED
  BY <1>1, <1>2, <1>3, <1>4, <1>5, <1>6, <1>7 DEF Next, Registrar, Registers

LEMMA NewHasSettledNothingNext ==
  ASSUME TypeOK, OwnRows, WantsAllowed, KeysComing, NewHasSettledNothing, [Next]_vars
  PROVE  NewHasSettledNothing'
<1> SUFFICES ASSUME NEW p \in settled'
             PROVE  RegisteredFor(p[1])' # {}
  BY DEF NewHasSettledNothing
<1>1. ASSUME NEW n \in Nodes, CommitRegister(n)
      PROVE  RegisteredFor(p[1])' # {}
  <2>1. p \in settled /\ p[1] \in Groups
    BY <1>1, RegEnds DEF TypeOK, Pairs
  <2>2. RegisteredFor(p[1]) # {}
    BY <2>1 DEF NewHasSettledNothing
  <2> QED BY <1>1, <2>1, <2>2, RegistersAll
<1>2. ASSUME NEW g \in Groups, CommitUnregister(g)
      PROVE  RegisteredFor(p[1])' # {}
  <2>1. p \in settled /\ p \notin {g} \X Events
    BY <1>2 DEF CommitUnregister
  <2>2. p[1] \in Groups \ {g} /\ RegisteredFor(p[1]) # {}
    BY <2>1 DEF TypeOK, Pairs, NewHasSettledNothing
  <2> QED BY <1>2, <2>2, UnregistersAll
<1>3. ASSUME consumers' = consumers
      PROVE  RegisteredFor(p[1])' = RegisteredFor(p[1])
  BY <1>3 DEF RegisteredFor
<1>4. ASSUME NEW e \in Events, CommitUnit(e)
      PROVE  RegisteredFor(p[1])' # {}
  BY <1>3, <1>4 DEF CommitUnit, NewHasSettledNothing
<1>5. ASSUME consumers' = consumers, NEW g \in Groups, NEW e \in Events, settled' \subseteq settled \cup {<<g, e>>},
             <<g, e>> \in settled' \ settled => RegisteredFor(g) # {}
      PROVE  RegisteredFor(p[1])' # {}
  <2>1. CASE p \in settled
    BY <1>3, <1>5, <2>1 DEF NewHasSettledNothing
  <2>2. CASE p \notin settled
    <3>1. p = <<g, e>> /\ p[1] = g
      BY <1>5, <2>2
    <3> QED BY <1>3, <1>5, <2>2, <3>1
  <2> QED BY <2>1, <2>2
<1>6. ASSUME consumers' = consumers, settled' = settled
      PROVE  RegisteredFor(p[1])' # {}
  BY <1>3, <1>6 DEF NewHasSettledNothing
<1> QED
  BY <1>1, <1>2, <1>4, <1>5, <1>6, SettledMoves

LEMMA OwedOnceNext ==
  ASSUME TypeOK, OnlyCommitted, OwnRows, StillNew, FillsNew, NewHasSettledNothing, OwedOnce, [Next]_vars
  PROVE  OwedOnce'
<1>1. ASSUME NEW e \in Events, CommitUnit(e)
      PROVE  OwedOnce'
  <2>1. deliveries' = deliveries \cup (owed[e] \X {e}) /\ settled' = settled /\ e \notin Committed
    BY <1>1 DEF CommitUnit, Committed
  <2>2. (owed[e] \X {e}) \cap settled = {}
    BY <2>1 DEF OnlyCommitted
  <2> QED BY <2>1, <2>2 DEF OwedOnce
<1>2. ASSUME NEW n \in Nodes, CommitRegister(n)
      PROVE  OwedOnce'
  <2>1. deliveries' = deliveries \cup reg[n].fill /\ settled' = settled
    BY <1>2 DEF CommitRegister
  <2>2. reg[n].fill \cap settled = {}
    <3>1. ASSUME NEW p \in reg[n].fill \cap settled
          PROVE  FALSE
      <4>1. Registering(n) /\ NewGroup(n)
        BY <3>1 DEF FillsNew
      <4>2. RegisteredFor(GroupOf[n]) = {}
        BY <4>1 DEF StillNew, NewFor, NewGroup
      <4>3. p[1] = GroupOf[n]
        BY <3>1 DEF OwnRows
      <4> QED BY <3>1, <4>2, <4>3 DEF NewHasSettledNothing
    <3> QED BY <3>1
  <2> QED BY <2>1, <2>2 DEF OwedOnce
<1>3. ASSUME NEW g \in Groups, CommitUnregister(g)
      PROVE  OwedOnce'
  BY <1>3 DEF CommitUnregister, OwedOnce
<1> QED BY <1>1, <1>2, <1>3, SettledMoves DEF OwedOnce

LEMMA OnceInit == Init => OnceInv
BY DEF Init, OnceInv, WantAlike, NoneRegisters, KeysApart, KeysComing, StillNew, FillsNew, NewHasSettledNothing,
       OwedOnce, Registering, NoReg, NoUnreg

LEMMA OnceNext ==
  ASSUME Uniform
  PROVE  TypeOK /\ KeepsInv /\ OnceInv /\ [Next]_vars => OnceInv'
BY WantAlikeNext, NoneRegistersNext, KeysApartNext, KeysComingNext, StillNewNext, FillsNewNext,
   NewHasSettledNothingNext, OwedOnceNext DEF OnceInv, KeepsInv

\* An event a registered group settled is not owed to it again while it stays
\* registered, however many of its relays register at once, as long as those
\* that do are configured alike: only one of them finds the group new.
THEOREM NoneOwedAgain ==
  ASSUME Uniform
  PROVE  Spec => []OwedOnce
<1>1. TypeOK /\ KeepsInv /\ OnceInv /\ [Next]_vars => OnceInv'
  BY OnceNext
<1>2. OnceInv => OwedOnce
  BY DEF OnceInv
<1> QED BY <1>1, <1>2, StoreTypesInit, StoreTypesNext, KeepsInit, KeepsNext, OnceInit, PTL DEF Spec
=============================================================================
