---------------------------- MODULE OutboxStore ----------------------------
(***************************************************************************)
(* The tables of the SQL outbox (pyfly/eda/outbox.py, SqlOutboxStore) under *)
(* the units of work that write them side by side: publishers append events *)
(* and commit or roll back, the relays of consumer groups register (and owe *)
(* a new group the events the outbox holds), groups are unregistered,       *)
(* relays settle deliveries and sweep what the retention lets go.           *)
(*                                                                         *)
(* A statement is an action: it reads what is committed when it runs, its   *)
(* writes show when its unit commits, and it waits for a unit that wrote a  *)
(* row it is to write (READ COMMITTED, which the units of a relay use).     *)
(* Which events are old enough for a sweep is left open.                    *)
(***************************************************************************)
EXTENDS Integers, FiniteSets

CONSTANTS
    Groups,        \* consumer groups
    Events,        \* outbox events, each appended by a publishing unit of its own
    Destinations,  \* what can be registered: numbers, for their order
    Every,         \* EVERY_DESTINATION
    Private,       \* the destinations with ADDRESSED_DESTINATION_PREFIX
    Dest,          \* Dest[e]: the destination of event e
    Named,         \* Named[e]: the groups e is addressed to; {}: it consults the registrations
    Include,       \* Include[e]: the groups e is owed to, registered or not
    Nodes,         \* the relays
    GroupOf,       \* GroupOf[n]: the group of relay n
    Wanted,        \* the sets of destinations a relay may be configured with
    Uniform,       \* whether the relays of a group that register at once are configured alike
    Earliest,      \* whether a new group starts at the earliest event
    SnapshotReads, \* whether a publishing unit may read the groups in the snapshot of its first read
    BatchSize      \* Retention.batch_size

ASSUME StoreAssumption ==
    /\ Destinations \subseteq Nat /\ IsFiniteSet(Destinations) /\ Every \in Destinations
    /\ Private \subseteq Destinations \ {Every}
    /\ Dest \in [Events -> Destinations \ {Every}]
    /\ Named \in [Events -> SUBSET Groups]
    /\ Include \in [Events -> SUBSET Groups]
    /\ GroupOf \in [Nodes -> Groups]
    /\ Wanted \subseteq (SUBSET Destinations) \ {{}}
    /\ Uniform \in BOOLEAN /\ Earliest \in BOOLEAN /\ SnapshotReads \in BOOLEAN
    /\ BatchSize \in Nat \ {0}

VARIABLES
    consumers,   \* pyfly_outbox_consumers: <<group, destination>>, committed
    events,      \* pyfly_outbox_events, committed
    deliveries,  \* pyfly_outbox_deliveries: <<group, event>>, committed
    unit,        \* unit[e]: where the publishing unit of e is
    view,        \* view[e]: the consumers its first read saw
    owed,        \* owed[e]: the groups its delivery rows name
    reg,         \* reg[n]: the registering unit of relay n
    registered,  \* registered[n]: relay n registered, and claims
    unreg,       \* unreg[g]: the unit that unregisters group g
    sweep,       \* sweep[n]: the sweeping unit of relay n
    sure,        \* history: the groups that are owed e once its unit commits, until they settle it
    held,        \* history: the events the outbox held when relay n began to register, and n's group did not settle
    promised,    \* history: <<group, event>> a new group was owed when it registered, and did not settle
    filled,      \* history: <<group, event>> a registration wrote
    settled,     \* history: <<group, event>> a registered group settled
    gone         \* history: the groups unregistered and not registering again

tables  == <<consumers, events, deliveries>>
publish == <<unit, view, owed>>
history == <<sure, held, promised, filled, settled, gone>>
vars    == <<tables, publish, reg, registered, unreg, sweep, history>>

----------------------------------------------------------------------------
(* Units of work. *)

Pairs == Groups \X Events
Keys  == Groups \X Destinations

Idle == "idle"

\* A registering unit: what it registers, what it found, what it has still to
\* insert, and what it wrote.
NoReg   == [step |-> Idle, wanted |-> {}, existing |-> {}, todo |-> {}, ins |-> {}, del |-> {}, fill |-> {}]
NoUnreg == [step |-> Idle, keys |-> {}, rows |-> {}]
NoSweep == [step |-> Idle, ids |-> {}, rows |-> {}]

RegUnit   == [step : {Idle, "deleting", "inserting", "committing"},
              wanted : SUBSET Destinations, existing : SUBSET Destinations, todo : SUBSET Destinations,
              ins : SUBSET Keys, del : SUBSET Keys, fill : SUBSET Pairs]
UnregUnit == [step : {Idle, "deleting", "committing"}, keys : SUBSET Keys, rows : SUBSET Pairs]
SweepUnit == [step : {Idle, "delivered", "expired", "committing"}, ids : SUBSET Events, rows : SUBSET Pairs]

First(S) == CHOOSE x \in S : \A y \in S : x <= y

\* The keys and the rows units other than the named one hold.
KeysHeld(me) == UNION ({reg[n].ins \cup reg[n].del : n \in Nodes \ {me}} \cup {unreg[g].keys : g \in Groups \ {me}})
RowsHeld(me) == UNION ({reg[n].fill : n \in Nodes \ {me}} \cup {unreg[g].rows : g \in Groups \ {me}}
                         \cup {sweep[n].rows : n \in Nodes \ {me}})

\* Mutant: the wrong column is read.
DestinationsRead(C, e) == {k[2] : k \in C} \cap {Dest[e], Every}

\* The groups of C registered for the destination of e, or for every one.
Registered(C, e) == {g \in Groups : \E d \in {Dest[e], Every} : <<g, d>> \in C}

\* What append() owes e to when it reads the consumers C.
Owed(C, e) == Include[e] \cup (IF Named[e] # {} THEN Named[e] ELSE Registered(C, e))

\* For the properties: whether a group registered for W is to be owed e, and
\* the groups that are while C are the consumers.
Takes(W, e) == Named[e] = {} /\ W \cap {Dest[e], Every} # {}
Takers(C, e) == Include[e] \cup Named[e] \cup {g \in Groups : Takes({d \in Destinations : <<g, d>> \in C}, e)}

\* Mutant: the addressed destinations are not left out.
MatchedAll(W) == {e \in events : Every \in W \/ Dest[e] \in W}

\* Mutant: every destination is looked for as if it were one.
MatchedByName(W) == {e \in events : Dest[e] \in W}

\* The events of the destinations W: not those of the addressed destinations, when W is every destination.
Matched(W) == {e \in events : IF Every \in W THEN Dest[e] \notin Private ELSE Dest[e] \in W}

Init ==
    /\ consumers = {} /\ events = {} /\ deliveries = {}
    /\ unit = [e \in Events |-> "none"]
    /\ view = [e \in Events |-> {}]
    /\ owed = [e \in Events |-> {}]
    /\ reg = [n \in Nodes |-> NoReg]
    /\ registered = [n \in Nodes |-> FALSE]
    /\ unreg = [g \in Groups |-> NoUnreg]
    /\ sweep = [n \in Nodes |-> NoSweep]
    /\ sure = [e \in Events |-> {}]
    /\ held = [n \in Nodes |-> {}]
    /\ promised = {} /\ filled = {} /\ settled = {} /\ gone = {}

----------------------------------------------------------------------------
(* Publishing: append() joins the publisher's unit. *)

\* The unit's first read. Whoever is registered by now, and stays so, must be owed e.
BeginUnit(e) ==
    /\ unit[e] = "none"
    /\ unit' = [unit EXCEPT ![e] = "open"]
    /\ view' = [view EXCEPT ![e] = consumers]
    /\ sure' = [sure EXCEPT ![e] = Takers(consumers, e)]
    /\ UNCHANGED <<tables, owed, reg, registered, unreg, sweep, held, promised, filled, settled, gone>>

AppendEvent(e) ==
    /\ unit[e] = "open"
    /\ unit' = [unit EXCEPT ![e] = "appended"]
    /\ \E C \in {consumers} \cup (IF SnapshotReads THEN {view[e]} ELSE {}) :
          owed' = [owed EXCEPT ![e] = Owed(C, e)]
    /\ view' = [view EXCEPT ![e] = {}]
    /\ UNCHANGED <<tables, reg, registered, unreg, sweep, history>>

CommitUnit(e) ==
    /\ unit[e] = "appended"
    /\ unit' = [unit EXCEPT ![e] = "committed"]
    /\ events' = events \cup {e}
    /\ deliveries' = deliveries \cup (owed[e] \X {e})
    /\ gone' = gone \ (Include[e] \cup Named[e])
    /\ UNCHANGED <<consumers, view, owed, reg, registered, unreg, sweep, sure, held, promised, filled, settled>>

RollbackUnit(e) ==
    /\ unit[e] \in {"open", "appended"}
    /\ unit' = [unit EXCEPT ![e] = "rolledBack"]
    /\ view' = [view EXCEPT ![e] = {}]
    /\ owed' = [owed EXCEPT ![e] = {}]
    /\ sure' = [sure EXCEPT ![e] = {}]
    /\ UNCHANGED <<tables, reg, registered, unreg, sweep, held, promised, filled, settled, gone>>

\* When keys go from the consumers, units in flight need not see them; once
\* a group is unregistered, nothing is owed to it.
StillSure(C, e) == IF unit[e] = "committed" THEN sure[e] ELSE sure[e] \cap Takers(C, e)

----------------------------------------------------------------------------
(* Registering, in a unit of its own. *)

\* No relay of a group starts while the group is unregistered (see Unregistering).
RegisterReads(n) ==
    /\ reg[n].step = Idle /\ ~registered[n]
    /\ unreg[GroupOf[n]].step = Idle
    /\ \E W \in Wanted :
          /\ Uniform => \A m \in Nodes : GroupOf[m] = GroupOf[n] /\ reg[m].step # Idle => reg[m].wanted = W
          /\ reg' = [reg EXCEPT ![n] = [NoReg EXCEPT
                        !.step = "deleting",
                        !.wanted = W,
                        !.existing = {d \in Destinations : <<GroupOf[n], d>> \in consumers}]]
          /\ held' = [held EXCEPT ![n] = {e \in events : Takes(W, e)}]
    /\ gone' = gone \ {GroupOf[n]}
    /\ UNCHANGED <<tables, publish, registered, unreg, sweep, sure, promised, filled, settled>>

DeleteStale(n) ==
    LET stale == {GroupOf[n]} \X (reg[n].existing \ reg[n].wanted)
    IN  /\ reg[n].step = "deleting"
        /\ stale \cap KeysHeld(n) = {}
        /\ reg' = [reg EXCEPT ![n].step = "inserting", ![n].del = stale \cap consumers,
                              ![n].todo = reg[n].wanted \ reg[n].existing]
        /\ UNCHANGED <<tables, publish, registered, unreg, sweep, history>>

\* insert_if_absent, in the order of the destinations.
InsertNext(n) ==
    /\ reg[n].step = "inserting" /\ reg[n].todo # {}
    /\ LET key == <<GroupOf[n], First(reg[n].todo)>>
       IN  /\ key \notin KeysHeld(n)
           /\ reg' = [reg EXCEPT ![n].todo = @ \ {First(@)},
                                 ![n].ins = IF key \in consumers THEN @ ELSE @ \cup {key}]
    /\ UNCHANGED <<tables, publish, registered, unreg, sweep, history>>

\* Mutant: whoever found no destination takes the group for new.
FoundNone(n) == reg[n].existing = {}

NewGroup(n) == reg[n].existing = {} /\ reg[n].ins # {}

\* _backfill, which leaves the rows there are alone.
Backfill(n) ==
    LET missing == ({GroupOf[n]} \X Matched(reg[n].wanted)) \ deliveries
    IN  /\ reg[n].step = "inserting" /\ reg[n].todo = {}
        /\ IF NewGroup(n) /\ Earliest
           THEN /\ missing \cap UNION {reg[m].fill : m \in Nodes \ {n}} = {}
                /\ reg' = [reg EXCEPT ![n].step = "committing", ![n].fill = missing]
           ELSE reg' = [reg EXCEPT ![n].step = "committing"]
        /\ UNCHANGED <<tables, publish, registered, unreg, sweep, history>>

CommitRegister(n) ==
    /\ reg[n].step = "committing"
    /\ consumers' = (consumers \ reg[n].del) \cup reg[n].ins
    /\ deliveries' = deliveries \cup reg[n].fill
    /\ sure' = [e \in Events |-> StillSure(consumers', e)]
    /\ promised' = IF NewGroup(n) /\ Earliest THEN promised \cup ({GroupOf[n]} \X held[n]) ELSE promised
    /\ filled' = filled \cup reg[n].fill
    /\ registered' = [registered EXCEPT ![n] = TRUE]
    /\ reg' = [reg EXCEPT ![n] = NoReg]
    /\ held' = [held EXCEPT ![n] = {}]
    /\ UNCHANGED <<events, publish, unreg, sweep, settled, gone>>

\* A statement fails, or the process dies: the unit is rolled back.
AbortRegister(n) ==
    /\ reg[n].step # Idle
    /\ reg' = [reg EXCEPT ![n] = NoReg]
    /\ held' = [held EXCEPT ![n] = {}]
    /\ UNCHANGED <<tables, publish, registered, unreg, sweep, sure, promised, filled, settled, gone>>

\* A relay that stops, and starts again, registers again.
Restart(n) ==
    /\ registered[n]
    /\ registered' = [registered EXCEPT ![n] = FALSE]
    /\ UNCHANGED <<tables, publish, reg, unreg, sweep, history>>

----------------------------------------------------------------------------
(* Unregistering, in a unit of its own: of a group that stopped consuming. *)

\* A relay of g claims: one that registered, or that of a group events are
\* addressed to, which registers nothing.
Serves(g) ==
    \/ \E n \in Nodes : GroupOf[n] = g /\ registered[n]
    \/ \E e \in Events : g \in Named[e]

UnregisterConsumers(g) ==
    LET keys == consumers \cap ({g} \X Destinations)
    IN  /\ unreg[g].step = Idle
        /\ \A n \in Nodes : GroupOf[n] = g => ~registered[n] /\ reg[n].step = Idle
        /\ keys \cap KeysHeld(g) = {}
        /\ unreg' = [unreg EXCEPT ![g].step = "deleting", ![g].keys = keys]
        /\ UNCHANGED <<tables, publish, reg, registered, sweep, history>>

UnregisterDeliveries(g) ==
    LET rows == deliveries \cap ({g} \X Events)
    IN  /\ unreg[g].step = "deleting"
        /\ rows \cap RowsHeld(g) = {}
        /\ unreg' = [unreg EXCEPT ![g].step = "committing", ![g].rows = rows]
        /\ UNCHANGED <<tables, publish, reg, registered, sweep, history>>

CommitUnregister(g) ==
    /\ unreg[g].step = "committing"
    /\ consumers' = consumers \ unreg[g].keys
    /\ deliveries' = deliveries \ unreg[g].rows
    /\ sure' = [e \in Events |-> StillSure(consumers', e) \ {g}]
    /\ promised' = promised \ ({g} \X Events)
    /\ settled' = settled \ ({g} \X Events)
    /\ held' = [n \in Nodes |-> IF GroupOf[n] = g THEN {} ELSE held[n]]
    /\ gone' = IF \/ consumers' \cap ({g} \X Destinations) # {}
                  \/ \E n \in Nodes : GroupOf[n] = g /\ reg[n].step # Idle
               THEN gone ELSE gone \cup {g}
    /\ unreg' = [unreg EXCEPT ![g] = NoUnreg]
    /\ UNCHANGED <<events, publish, reg, registered, sweep, filled>>

AbortUnregister(g) ==
    /\ unreg[g].step # Idle
    /\ unreg' = [unreg EXCEPT ![g] = NoUnreg]
    /\ UNCHANGED <<tables, publish, reg, registered, sweep, history>>

----------------------------------------------------------------------------
(* The relays. What happens between a claim and its settling is OutboxRelay's. *)

\* complete() or settle() ends a delivery.
Settle(g, e) ==
    /\ Serves(g) /\ e \in events
    /\ <<g, e>> \in deliveries \ RowsHeld("relay")
    /\ deliveries' = deliveries \ {<<g, e>>}
    /\ settled' = IF consumers \cap ({g} \X Destinations) = {} THEN settled ELSE settled \cup {<<g, e>>}
    /\ sure' = [sure EXCEPT ![e] = @ \ {g}]
    /\ promised' = promised \ {<<g, e>>}
    /\ held' = [n \in Nodes |-> IF GroupOf[n] = g THEN held[n] \ {e} ELSE held[n]]
    /\ UNCHANGED <<consumers, events, publish, reg, registered, unreg, sweep, filled, gone>>

\* A claim finds a delivery whose event is gone, and drops it.
DropOrphan(g, e) ==
    /\ Serves(g) /\ e \notin events
    /\ <<g, e>> \in deliveries \ RowsHeld("relay")
    /\ deliveries' = deliveries \ {<<g, e>>}
    /\ UNCHANGED <<consumers, events, publish, reg, registered, unreg, sweep, history>>

\* Mutant: every old event is a candidate.
AnyEvent == events

\* The events no delivery row is left of.
Delivered == {e \in events : \A g \in Groups : <<g, e>> \notin deliveries}

\* prune(), first loop: a batch is selected, then deleted.
SelectDelivered(n) ==
    /\ sweep[n].step = Idle
    /\ \E ids \in SUBSET Delivered :
          /\ ids # {} /\ Cardinality(ids) <= BatchSize
          /\ sweep' = [sweep EXCEPT ![n] = [NoSweep EXCEPT !.step = "delivered", !.ids = ids]]
    /\ UNCHANGED <<tables, publish, reg, registered, unreg, history>>

DeleteDelivered(n) ==
    /\ sweep[n].step = "delivered"
    /\ events' = events \ sweep[n].ids
    /\ sweep' = [sweep EXCEPT ![n] = NoSweep]
    /\ UNCHANGED <<consumers, deliveries, publish, reg, registered, unreg, history>>

\* prune(), second loop: a batch past max_age is selected, its deliveries are
\* deleted, then its events.
SelectExpired(n) ==
    /\ sweep[n].step = Idle
    /\ \E ids \in SUBSET events :
          /\ ids # {} /\ Cardinality(ids) <= BatchSize
          /\ sweep' = [sweep EXCEPT ![n] = [NoSweep EXCEPT !.step = "expired", !.ids = ids]]
    /\ UNCHANGED <<tables, publish, reg, registered, unreg, history>>

\* Mutant: the deliveries of an expired event stay.
KeepRows(n) == {}

ExpiredRows(n) == deliveries \cap (Groups \X sweep[n].ids)

DeleteExpiredRows(n) ==
    /\ sweep[n].step = "expired"
    /\ ExpiredRows(n) \cap RowsHeld(n) = {}
    /\ sweep' = [sweep EXCEPT ![n].step = "committing", ![n].rows = ExpiredRows(n)]
    /\ UNCHANGED <<tables, publish, reg, registered, unreg, history>>

CommitExpired(n) ==
    /\ sweep[n].step = "committing"
    /\ deliveries' = deliveries \ sweep[n].rows
    /\ events' = events \ sweep[n].ids
    /\ sure' = [e \in Events |-> IF e \in sweep[n].ids THEN {} ELSE sure[e]]
    /\ sweep' = [sweep EXCEPT ![n] = NoSweep]
    /\ UNCHANGED <<consumers, publish, reg, registered, unreg, held, promised, filled, settled, gone>>

AbortSweep(n) ==
    /\ sweep[n].step # Idle
    /\ sweep' = [sweep EXCEPT ![n] = NoSweep]
    /\ UNCHANGED <<tables, publish, reg, registered, unreg, history>>

----------------------------------------------------------------------------

Publisher(e) == BeginUnit(e) \/ AppendEvent(e) \/ CommitUnit(e) \/ RollbackUnit(e)

Registrar(n) ==
    \/ RegisterReads(n) \/ DeleteStale(n) \/ InsertNext(n) \/ Backfill(n)
    \/ CommitRegister(n) \/ AbortRegister(n) \/ Restart(n)

Unregistrar(g) ==
    \/ UnregisterConsumers(g) \/ UnregisterDeliveries(g)
    \/ CommitUnregister(g) \/ AbortUnregister(g)

Sweeper(n) ==
    \/ SelectDelivered(n) \/ DeleteDelivered(n)
    \/ SelectExpired(n) \/ DeleteExpiredRows(n) \/ CommitExpired(n) \/ AbortSweep(n)

Next ==
    \/ \E e \in Events : Publisher(e)
    \/ \E n \in Nodes : Registrar(n) \/ Sweeper(n)
    \/ \E g \in Groups : Unregistrar(g)
    \/ \E g \in Groups, e \in Events : Settle(g, e) \/ DropOrphan(g, e)

Spec == Init /\ [][Next]_vars

----------------------------------------------------------------------------
(* Properties. *)

TypeOK ==
    /\ consumers \subseteq Keys /\ events \subseteq Events /\ deliveries \subseteq Pairs
    /\ unit \in [Events -> {"none", "open", "appended", "committed", "rolledBack"}]
    /\ view \in [Events -> SUBSET Keys]
    /\ owed \in [Events -> SUBSET Groups]
    /\ reg \in [Nodes -> RegUnit] /\ registered \in [Nodes -> BOOLEAN]
    /\ unreg \in [Groups -> UnregUnit] /\ sweep \in [Nodes -> SweepUnit]
    /\ sure \in [Events -> SUBSET Groups]
    /\ held \in [Nodes -> SUBSET Events]
    /\ promised \subseteq Pairs /\ filled \subseteq Pairs /\ settled \subseteq Pairs
    /\ gone \subseteq Groups

\* A committed event stays, and stays owed, to every group registered for it
\* since before its unit read (and to those it names), until the group settles
\* it or is unregistered, or max_age deletes it: no sweep of delivered events
\* takes it, whatever commits while the sweep runs.
OwedUntilSettled ==
    \A e \in Events : unit[e] = "committed" =>
        \A g \in sure[e] : e \in events /\ <<g, e>> \in deliveries

\* A new group that starts at the earliest event is owed every event the
\* outbox held when it began to register, and holds still, and that a publish
\* would owe it then: _backfill finds the events as append finds the groups.
\* Only what somebody published, addressed to nobody, under a destination kept
\* for addressed events it does not find for EVERY_DESTINATION.
BackfillComplete ==
    \A p \in promised : p[2] \in events /\ Dest[p[2]] \notin Private => p \in deliveries

\* What a backfill can tell of an event is its destination: it may give anyone
\* an event whose destination is not kept for addressed ones (the audit
\* journal's export is addressed so), or is registered by its name.
LooksUnaddressed(e) == Dest[e] \notin Private \/ \E W \in Wanted : Dest[e] \in W

\* An addressed event is owed to no group but those it names, not to one that
\* registers every destination either: never by a publish, and by a backfill
\* only where the destination does not tell.
AddressedOnly ==
    \A p \in deliveries :
        Named[p[2]] # {} => \/ p[1] \in Named[p[2]] \cup Include[p[2]]
                            \/ p \in filled /\ LooksUnaddressed(p[2])

\* Who registers late is owed what who registered early is, and no more than
\* the destinations make it.
BackfillExact == BackfillComplete /\ AddressedOnly

\* "Each event is still owed to the group once": what a registered group
\* settled is not owed to it again while it stays registered, whichever of its
\* relays register meanwhile.
OwedOnce == deliveries \cap settled = {}

\* A delivery outlives its event only when a registration wrote it while a
\* sweep deleted the event (the case claim() drops).
OrphansAreBackfilled == \A p \in deliveries : p[2] \in events \/ p \in filled

\* A sweep takes neither a delivery from under a registered group nor, but for
\* the race of a registration, an event from under a delivery.
DeliveriesKept == OwedUntilSettled /\ OrphansAreBackfilled

\* unregister(): "nothing is owed to it any more".
NothingOwedOnceGone == \A p \in deliveries : p[1] \notin gone

=============================================================================
