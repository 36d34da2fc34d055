---------------------------- MODULE OutboxRelay ----------------------------
(***************************************************************************)
(* The relays of one consumer group of the transactional outbox            *)
(* (pyfly/eda/outbox.py): several OutboxRelay tasks claim the delivery rows *)
(* of the group under a lease, run the group's subscriptions on them and    *)
(* settle what became of them, while statements fail, relays are stopped,   *)
(* cancelled and killed, and time passes.                                   *)
(*                                                                         *)
(* Every statement of SqlOutboxStore is one unit of its own and takes       *)
(* effect at one instant; a relay awaits it, so other relays act between    *)
(* the decision to send it and its effect.  Statements of different groups  *)
(* touch disjoint rows (each one filters on consumer_group), hence one      *)
(* group.                                                                  *)
(*                                                                         *)
(* Time: an instant is kept as the number of ticks until it comes, and a    *)
(* tick lowers every such countdown.  An instant far enough in the past     *)
(* stays at its floor, which keeps the model finite without bounding time.  *)
(***************************************************************************)
EXTENDS Integers, FiniteSets

CONSTANTS
    Relays,          \* the OutboxRelay instances of the group, on any number of nodes
    Events,          \* outbox ids, in publication order
    Subs,            \* the group's subscriptions, in the order they were made
    Matching,        \* Matching[e]: the subscriptions whose pattern matches event e
    Strategies,      \* the ErrorStrategy values a behaviour may be configured with
    Failures,        \* the kinds of failure a handler may end in
    ExternalStore,   \* whether dead letters go to an external store
    MaxAttempts,     \* RetryPolicy.max_attempts
    BatchSize,       \* batch_size
    HandlerTimeout,  \* handler_timeout, in ticks
    ClaimTimeout,    \* claim_timeout, in ticks
    Backoff,         \* the delay before another attempt, in ticks
    Latency,         \* bound: the ticks a claim statement may take
    AttemptBound,    \* bound: a row attempted this often is not claimed again
    MaxFaults,       \* bound: stops, crashes, failed statements and refused dead letters
    CommitOverrun,   \* whether a handler's commit may outlast the handler timeout
    Prompt,          \* whether statements and decisions take no time
    NoRelay, NoRow, NoDelivery

ASSUME RelayAssumption ==
    /\ Events \subseteq Nat /\ IsFiniteSet(Events)
    /\ Subs \subseteq Nat /\ IsFiniteSet(Subs)
    /\ Matching \in [Events -> SUBSET Subs]
    /\ NoRelay \notin Relays

\* OutboxRelay.__init__ refuses the values that break these.
ASSUME SettingsAssumption ==
    /\ MaxAttempts \in Nat \ {0} /\ BatchSize \in Nat \ {0}
    /\ HandlerTimeout \in Nat \ {0} /\ ClaimTimeout \in Nat
    /\ ClaimTimeout > HandlerTimeout
    /\ Backoff \in Nat

ASSUME BoundAssumption ==
    /\ Latency \in Nat /\ AttemptBound \in Nat /\ MaxFaults \in Nat
    /\ CommitOverrun \in BOOLEAN /\ Prompt \in BOOLEAN /\ ExternalStore \in BOOLEAN
    /\ Strategies \subseteq {"dead_letter", "retry", "fail_fast", "ignore"}
    /\ Failures \subseteq {"error", "poison", "retain"}

VARIABLES
    rows,         \* pyfly_outbox_deliveries: what the group is still owed
    deadLetters,  \* how often each subscription's failure was recorded (0, 1, or 2: more than once)
    published,    \* the events whose publishing unit committed
    strategy,     \* the group's error strategy
    answered,     \* history: the subscriptions that handled an event, or failed it and were let go
    retried,      \* history: how often the policy granted an event another attempt
    faults,       \* the faults so far
    pc,           \* what each relay's task awaits, or does next
    stopping,     \* stop() was called
    cancelled,    \* the task was cancelled while it gives back
    until,        \* the instant the statement in flight carries (until, retry_at)
    queue,        \* claimed, not started yet
    handled,      \* handled by every subscription, not settled yet
    lease,        \* leased_until of the claim
    started,      \* the round started a delivery
    full,         \* the claim took a whole batch
    cur,          \* in_flight
    todo,         \* the subscriptions the delivery in flight still runs, the running one first
    done,         \* the subscriptions it need not run again
    failed,       \* the subscriptions it failed, and how
    toAdd,        \* the dead letters the external store is still to be handed
    left          \* what is left of the running handler's timeout; -1: it has fired

ledger  == <<rows, deadLetters, retried>>
life    == <<stopping, cancelled>>
round   == <<queue, handled, lease, started, full>>
attempt == <<cur, todo, done, failed, toAdd, left>>
vars    == <<ledger, published, strategy, answered, faults, pc, life, until, round, attempt>>

----------------------------------------------------------------------------
(* Types. *)

Row == [availableAt : Int, attempts : Nat, claimedBy : Relays \cup {NoRelay}, done : SUBSET Subs]

\* ports/outbox.py Delivery: a row as its claim saw it. All deliveries of a
\* claim share token (here the relay) and leased_until (here lease).
Delivery == [event : Events, attempts : Nat, done : SUBSET Subs, dueAt : Int]

ASSUME NullAssumption == NoRow \notin Row /\ NoDelivery \notin Delivery

Kinds == {"error", "poison", "retain", "refused"}

Places == {"down", "waiting", "idle", "claiming", "loop", "short", "extending", "handling",
           "deadLettering", "settling", "ending", "givingBack"}

----------------------------------------------------------------------------
(* Helpers. *)

\* The settling and releasing statements are fenced: WHERE claimed_by = token.
\* A relay has one round at a time, so its name stands for its round's token.
Mine(r, e) == rows[e] # NoRow /\ rows[e].claimedBy = r

CountDown(instant, floor) == IF instant > floor THEN instant - 1 ELSE instant

First(S) == {x \in S : \A y \in S : x <= y}

NextDelivery(r) == {d \in queue[r] : \A f \in queue[r] : d.event <= f.event}

Todo(d) == Matching[d.event] \ d.done

\* Mutant: one handler timeout for the whole delivery.
BudgetOfOne(d) == HandlerTimeout

Budget(d) == LET pending == Cardinality(Todo(d))
             IN  HandlerTimeout * (IF pending = 0 THEN 1 ELSE pending)

\* Mutant: one attempt too many.
TerminalLate(kind, attempts) ==
    /\ kind # "refused"
    /\ \/ strategy = "fail_fast"
       \/ kind = "poison"
       \/ strategy = "dead_letter" /\ kind = "error" /\ attempts > MaxAttempts

\* _retry_delay returns None: this failure goes to the dead letters.
Terminal(kind, attempts) ==
    /\ kind # "refused"
    /\ \/ strategy = "fail_fast"
       \/ kind = "poison"
       \/ strategy = "dead_letter" /\ kind = "error" /\ attempts >= MaxAttempts

\* Of the failures F of a delivery: the subscriptions that go to the dead
\* letters, those attempted again, and whether the policy grants one the attempt.
Dead(F, attempts)    == {f[1] : f \in {x \in F : Terminal(x[2], attempts)}}
Again(F, attempts)   == {f[1] : f \in {x \in F : ~Terminal(x[2], attempts)}}
Granted(F, attempts) == strategy = "dead_letter" /\ \E f \in F : f[2] = "error" /\ ~Terminal(f[2], attempts)

More(count) == IF count < 2 THEN count + 1 ELSE count

----------------------------------------------------------------------------
(* The statements of the store: the table after each. *)

\* Mutant: the claim compares with the end of its own lease.
DueByLeaseEnd(r) == {e \in Events : /\ rows[e] # NoRow
                                    /\ rows[e].availableAt <= until[r]
                                    /\ rows[e].attempts < AttemptBound}

\* Mutant: a claim takes only rows nobody claimed.
DueUnclaimed(r) == {e \in Events : /\ rows[e] # NoRow /\ rows[e].claimedBy = NoRelay
                                   /\ rows[e].availableAt <= until[r] - ClaimTimeout
                                   /\ rows[e].attempts < AttemptBound}

Due(r) == {e \in Events : /\ rows[e] # NoRow
                          /\ rows[e].availableAt <= until[r] - ClaimTimeout
                          /\ rows[e].attempts < AttemptBound}

\* ORDER BY available_at, outbox_id; instants at the floor are not told apart.
Before(e, f) == \/ rows[e].availableAt < rows[f].availableAt
                \/ /\ rows[e].availableAt = rows[f].availableAt
                   /\ e < f \/ rows[e].availableAt = -Latency

Claimable(r) ==
    {S \in SUBSET Due(r) :
        /\ Cardinality(S) <= BatchSize
        /\ S # Due(r) => Cardinality(S) = BatchSize
        /\ \A e \in S, f \in Due(r) \ S : Before(e, f)}

Claimed(r, S) ==
    [e \in Events |-> IF e \in S
                      THEN [rows[e] EXCEPT !.availableAt = until[r], !.attempts = @ + 1, !.claimedBy = r]
                      ELSE rows[e]]

\* Mutant: the whole claim is settled, not only what was handled.
CompletedClaim(r) == [e \in Events |-> IF Mine(r, e) THEN NoRow ELSE rows[e]]

Completed(r) == [e \in Events |-> IF e \in handled[r] /\ Mine(r, e) THEN NoRow ELSE rows[e]]

Extended(r) ==
    [e \in Events |-> IF (\E d \in queue[r] : d.event = e) /\ Mine(r, e)
                      THEN [rows[e] EXCEPT !.availableAt = until[r]] ELSE rows[e]]

\* Mutant: the give-back is not fenced by the claim.
ReleasedUnfenced(r) ==
    [e \in Events |->
        IF (\E d \in queue[r] : d.event = e) /\ rows[e] # NoRow
        THEN [rows[e] EXCEPT !.availableAt = (CHOOSE d \in queue[r] : d.event = e).dueAt,
                             !.attempts = @ - 1, !.claimedBy = NoRelay]
        ELSE rows[e]]

Released(r) ==
    [e \in Events |->
        IF (\E d \in queue[r] : d.event = e) /\ Mine(r, e)
        THEN [rows[e] EXCEPT !.availableAt = (CHOOSE d \in queue[r] : d.event = e).dueAt,
                             !.attempts = @ - 1, !.claimedBy = NoRelay]
        ELSE rows[e]]

\* Mutant: one dead letter ends the delivery.
SettledByFirst(r) ==
    IF Again(failed[r], cur[r].attempts) = {} \/ Dead(failed[r], cur[r].attempts) # {} THEN NoRow
    ELSE [rows[cur[r].event] EXCEPT !.availableAt = until[r], !.claimedBy = NoRelay, !.done = done[r]]

\* Mutant: a dead-lettered subscription is not recorded done.
SettledWithoutDead(r) ==
    IF Again(failed[r], cur[r].attempts) = {} THEN NoRow
    ELSE [rows[cur[r].event] EXCEPT !.availableAt = until[r], !.claimedBy = NoRelay, !.done = done[r]]

Settled(r) ==
    IF Again(failed[r], cur[r].attempts) = {} THEN NoRow
    ELSE [rows[cur[r].event] EXCEPT !.availableAt = until[r], !.claimedBy = NoRelay,
                                    !.done = done[r] \cup Dead(failed[r], cur[r].attempts)]

\* The dead letters written in the settling unit; an external store has them already.
Buried(r) ==
    IF ExternalStore THEN deadLetters
    ELSE [deadLetters EXCEPT ![cur[r].event] =
             [s \in Subs |-> IF s \in Dead(failed[r], cur[r].attempts) THEN More(@[s]) ELSE @[s]]]

ClaimEffect(r, S) == rows' = Claimed(r, S) /\ UNCHANGED <<deadLetters, retried>>

CompleteEffect(r) == rows' = Completed(r) /\ UNCHANGED <<deadLetters, retried>>

ExtendEffect(r) == rows' = Extended(r) /\ UNCHANGED <<deadLetters, retried>>

ReleaseEffect(r) == rows' = Released(r) /\ UNCHANGED <<deadLetters, retried>>

\* Mutant: settling is not fenced by the claim.
SettleUnfenced(r) ==
    LET e == cur[r].event
    IN  IF rows[e] # NoRow
        THEN /\ rows' = [rows EXCEPT ![e] = Settled(r)]
             /\ deadLetters' = Buried(r)
             /\ retried' = [retried EXCEPT ![e] = IF Granted(failed[r], cur[r].attempts) THEN @ + 1 ELSE @]
        ELSE UNCHANGED ledger

\* No row of the claim is left: _LeaseLost rolls the unit back, dead letters included.
SettleEffect(r) ==
    LET e == cur[r].event
    IN  IF Mine(r, e)
        THEN /\ rows' = [rows EXCEPT ![e] = Settled(r)]
             /\ deadLetters' = Buried(r)
             /\ retried' = [retried EXCEPT ![e] = IF Granted(failed[r], cur[r].attempts) THEN @ + 1 ELSE @]
        ELSE UNCHANGED ledger

AddEffect(r, s) ==
    /\ deadLetters' = [deadLetters EXCEPT ![cur[r].event][s] = More(@)]
    /\ UNCHANGED <<rows, retried>>

HandleEffect(r, s) == answered' = [answered EXCEPT ![cur[r].event] = @ \cup {s}]

\* The round is over but for what it is to settle and to give back.
Leaving(r) == pc[r] = "ending" \/ (pc[r] = "loop" /\ (queue[r] = {} \/ stopping[r]))

Completing(r) == handled[r] # {} /\ (pc[r] \in {"short", "givingBack"} \/ Leaving(r))
Releasing(r)  == handled[r] = {} /\ queue[r] # {} /\ (pc[r] = "givingBack" \/ Leaving(r))

\* What the relay awaits takes effect although the relay never learns of it.
UnseenEffect(r) ==
    \/ pc[r] = "claiming" /\ (\E S \in Claimable(r) : ClaimEffect(r, S)) /\ UNCHANGED answered
    \/ Completing(r) /\ CompleteEffect(r) /\ UNCHANGED answered
    \/ Releasing(r) /\ ReleaseEffect(r) /\ UNCHANGED answered
    \/ pc[r] = "extending" /\ ExtendEffect(r) /\ UNCHANGED answered
    \/ pc[r] = "settling" /\ SettleEffect(r) /\ UNCHANGED answered
    \/ pc[r] = "deadLettering" /\ (\E s \in First(toAdd[r]) : AddEffect(r, s)) /\ UNCHANGED answered
    \/ pc[r] = "handling" /\ (\E s \in First(todo[r]) : HandleEffect(r, s)) /\ UNCHANGED ledger

MaybeEffect(r) == UnseenEffect(r) \/ UNCHANGED <<ledger, answered>>

----------------------------------------------------------------------------
(* What a relay's locals become. *)

Goto(r, place) == pc' = [pc EXCEPT ![r] = place]

\* _round_once returns: its locals are gone.
ForgetRound(r) ==
    /\ queue'   = [queue EXCEPT ![r] = {}]
    /\ handled' = [handled EXCEPT ![r] = {}]
    /\ lease'   = [lease EXCEPT ![r] = -1]
    /\ started' = [started EXCEPT ![r] = FALSE]
    /\ full'    = [full EXCEPT ![r] = FALSE]

\* A full batch is followed by another round at once, any other by a wait.
Return(r) == ForgetRound(r) /\ Goto(r, IF full[r] THEN "idle" ELSE "waiting")

\* _deliver returns: in_flight = None.
ForgetAttempt(r) ==
    /\ cur'    = [cur EXCEPT ![r] = NoDelivery]
    /\ todo'   = [todo EXCEPT ![r] = {}]
    /\ done'   = [done EXCEPT ![r] = {}]
    /\ failed' = [failed EXCEPT ![r] = {}]
    /\ toAdd'  = [toAdd EXCEPT ![r] = {}]
    /\ left'   = [left EXCEPT ![r] = -1]

NoStatement(r) == until' = [until EXCEPT ![r] = -Latency]

\* The relay's task ends, or its process does.
Down(r) ==
    /\ Goto(r, "down") /\ NoStatement(r) /\ ForgetRound(r) /\ ForgetAttempt(r)
    /\ stopping'  = [stopping EXCEPT ![r] = FALSE]
    /\ cancelled' = [cancelled EXCEPT ![r] = FALSE]

Fault == faults < MaxFaults /\ faults' = faults + 1

Init ==
    /\ rows = [e \in Events |-> NoRow]
    /\ deadLetters = [e \in Events |-> [s \in Subs |-> 0]]
    /\ published = {}
    /\ strategy \in Strategies
    /\ answered = [e \in Events |-> {}]
    /\ retried = [e \in Events |-> 0]
    /\ faults = 0
    /\ pc = [r \in Relays |-> "down"]
    /\ stopping = [r \in Relays |-> FALSE]
    /\ cancelled = [r \in Relays |-> FALSE]
    /\ until = [r \in Relays |-> -Latency]
    /\ queue = [r \in Relays |-> {}]
    /\ handled = [r \in Relays |-> {}]
    /\ lease = [r \in Relays |-> -1]
    /\ started = [r \in Relays |-> FALSE]
    /\ full = [r \in Relays |-> FALSE]
    /\ cur = [r \in Relays |-> NoDelivery]
    /\ todo = [r \in Relays |-> {}]
    /\ done = [r \in Relays |-> {}]
    /\ failed = [r \in Relays |-> {}]
    /\ toAdd = [r \in Relays |-> {}]
    /\ left = [r \in Relays |-> -1]

----------------------------------------------------------------------------
(* Publishers. *)

\* The unit that appended e commits: its delivery row appears, due at once,
\* and the publish wakes the relays that wait (wake_after_commit, NOTIFY).
Publish(e) ==
    /\ e \notin published
    /\ published' = published \cup {e}
    /\ rows' = [rows EXCEPT ![e] = [availableAt |-> 0, attempts |-> 0, claimedBy |-> NoRelay, done |-> {}]]
    /\ pc' = [r \in Relays |-> IF pc[r] = "waiting" THEN "idle" ELSE pc[r]]
    /\ UNCHANGED <<deadLetters, retried, strategy, answered, faults, life, until, round, attempt>>

----------------------------------------------------------------------------
(* A relay's task. *)

Start(r) ==
    /\ pc[r] = "down"
    /\ Goto(r, "idle")
    /\ UNCHANGED <<ledger, published, strategy, answered, faults, life, until, round, attempt>>

\* stop() sets the state; the loop sees it between two deliveries.
RequestStop(r) ==
    /\ pc[r] # "down" /\ ~stopping[r]
    /\ stopping' = [stopping EXCEPT ![r] = TRUE]
    /\ Fault
    /\ UNCHANGED <<ledger, published, strategy, answered, pc, cancelled, until, round, attempt>>

\* The loop ends between two rounds.
TaskEnds(r) ==
    /\ pc[r] \in {"idle", "waiting"} /\ stopping[r]
    /\ Down(r)
    /\ UNCHANGED <<ledger, published, strategy, answered, faults>>

\* Mutant: a stopping relay claims another batch.
BeginClaimAnyway(r) ==
    /\ pc[r] = "idle"
    /\ Goto(r, "claiming")
    /\ until' = [until EXCEPT ![r] = ClaimTimeout]
    /\ UNCHANGED <<ledger, published, strategy, answered, faults, life, round, attempt>>

\* claim() reads the clock, and its statement is on its way.
BeginClaim(r) ==
    /\ pc[r] = "idle" /\ ~stopping[r]
    /\ Goto(r, "claiming")
    /\ until' = [until EXCEPT ![r] = ClaimTimeout]
    /\ UNCHANGED <<ledger, published, strategy, answered, faults, life, round, attempt>>

\* A claim of nothing ends the round.
Claim(r) ==
    /\ pc[r] = "claiming"
    /\ \E S \in Claimable(r) :
          /\ ClaimEffect(r, S)
          /\ queue' = [queue EXCEPT ![r] =
                {[event |-> e, attempts |-> rows[e].attempts + 1, done |-> rows[e].done,
                  dueAt |-> rows[e].availableAt] : e \in S}]
          /\ full' = [full EXCEPT ![r] = Cardinality(S) >= BatchSize]
          /\ lease' = [lease EXCEPT ![r] = IF S = {} THEN -1 ELSE until[r]]
          /\ Goto(r, IF S = {} THEN "waiting" ELSE "loop")
    /\ NoStatement(r)
    /\ UNCHANGED <<published, strategy, answered, faults, life, handled, started, attempt>>

\* A round that had its lease leaves the rest to a fresh claim, if one covers
\* the next delivery.
Yields(r, d) == started[r] /\ Budget(d) <= ClaimTimeout

YieldOrExtend(r, d) == Goto(r, IF Yields(r, d) THEN "ending" ELSE "extending")

\* The lease would end under the next delivery's handlers: the handled ones
\* are settled first. Then the round yields, or the lease of the rest is
\* extended, past the worst case of the delivery were it to start now.
LeaseRunsShort(r) ==
    /\ pc[r] = "loop" /\ ~stopping[r]
    /\ \E d \in NextDelivery(r) :
          /\ Budget(d) > lease[r]
          /\ IF handled[r] = {} THEN YieldOrExtend(r, d) ELSE Goto(r, "short")
          /\ until' = [until EXCEPT ![r] = IF Yields(r, d) THEN @ ELSE Budget(d) + ClaimTimeout]
    /\ UNCHANGED <<ledger, published, strategy, answered, faults, life, round, attempt>>

\* The next delivery starts: its first subscription runs, or none matches it.
StartDelivery(r) ==
    /\ pc[r] = "loop" /\ ~stopping[r]
    /\ \E d \in NextDelivery(r) :
          /\ Budget(d) <= lease[r]
          /\ queue' = [queue EXCEPT ![r] = @ \ {d}]
          /\ started' = [started EXCEPT ![r] = TRUE]
          /\ IF Todo(d) = {}
             THEN /\ handled' = [handled EXCEPT ![r] = @ \cup {d.event}]
                  /\ UNCHANGED <<pc, attempt>>
             ELSE /\ Goto(r, "handling")
                  /\ cur' = [cur EXCEPT ![r] = d]
                  /\ todo' = [todo EXCEPT ![r] = Todo(d)]
                  /\ done' = [done EXCEPT ![r] = d.done]
                  /\ left' = [left EXCEPT ![r] = HandlerTimeout]
                  /\ UNCHANGED <<handled, failed, toAdd>>
    /\ UNCHANGED <<ledger, published, strategy, answered, faults, life, until, lease, full>>

SendSettle(r) == Goto(r, "settling") /\ until' = [until EXCEPT ![r] = Backoff]

\* Subscription s ended, F failed and D need not run again: the next one runs,
\* for a handler timeout of its own. After the last, the delivery is settled
\* with the round's others when none failed or the strategy lets failures go,
\* and on its own otherwise, once an external store has its dead letters.
Conclude(r, s, F, D) ==
    IF todo[r] # {s}
    THEN /\ todo' = [todo EXCEPT ![r] = @ \ {s}]
         /\ left' = [left EXCEPT ![r] = HandlerTimeout]
         /\ failed' = [failed EXCEPT ![r] = F]
         /\ done' = [done EXCEPT ![r] = D]
         /\ UNCHANGED <<pc, until, handled, cur, toAdd>>
    ELSE IF F = {} \/ strategy = "ignore"
    THEN /\ handled' = [handled EXCEPT ![r] = @ \cup {cur[r].event}]
         /\ Goto(r, "loop") /\ ForgetAttempt(r)
         /\ UNCHANGED until
    ELSE /\ todo' = [todo EXCEPT ![r] = {}]
         /\ left' = [left EXCEPT ![r] = -1]
         /\ failed' = [failed EXCEPT ![r] = F]
         /\ done' = [done EXCEPT ![r] = D]
         /\ IF ExternalStore /\ Dead(F, cur[r].attempts) # {}
            THEN /\ Goto(r, "deadLettering")
                 /\ toAdd' = [toAdd EXCEPT ![r] = Dead(F, cur[r].attempts)]
                 /\ UNCHANGED until
            ELSE SendSettle(r) /\ UNCHANGED toAdd
         /\ UNCHANGED <<handled, cur>>

\* Under "ignore" a delivery whose last subscription ended lets its failures go.
LetGo(r, s, F) == IF strategy = "ignore" /\ todo[r] = {s} THEN {f[1] : f \in F} ELSE {}

\* The handler and the unit it ran in committed within its timeout.
HandlerSucceeds(r) ==
    /\ pc[r] = "handling" /\ left[r] >= 0
    /\ \E s \in First(todo[r]) :
          /\ answered' = [answered EXCEPT ![cur[r].event] = @ \cup {s} \cup LetGo(r, s, failed[r])]
          /\ Conclude(r, s, failed[r], done[r] \cup {s})
    /\ UNCHANGED <<ledger, published, strategy, faults, life, queue, lease, started, full>>

\* The handler raises, or its timeout cancels it ("error"). Its work may be done
\* all the same: a commit in flight is shielded from the timeout, and a failed
\* commit may have taken effect.
HandlerFails(r, kind) ==
    /\ pc[r] = "handling"
    /\ left[r] < 0 => kind = "error"
    /\ \E s \in First(todo[r]) :
          /\ LET F == failed[r] \cup {<<s, kind>>}
             IN  /\ \E took \in SUBSET {s} :
                       answered' = [answered EXCEPT ![cur[r].event] = @ \cup took \cup LetGo(r, s, F)]
                 /\ Conclude(r, s, F, done[r])
    /\ UNCHANGED <<ledger, published, strategy, faults, life, queue, lease, started, full>>

\* The external store takes the dead letters one after the other.
AddDeadLetter(r) ==
    /\ pc[r] = "deadLettering"
    /\ \E s \in First(toAdd[r]) :
          /\ AddEffect(r, s)
          /\ toAdd' = [toAdd EXCEPT ![r] = @ \ {s}]
          /\ IF toAdd[r] = {s} THEN SendSettle(r) ELSE UNCHANGED <<pc, until>>
    /\ UNCHANGED <<published, strategy, answered, faults, life, round, cur, todo, done, failed, left>>

\* Mutant: a refused dead letter is taken for recorded.
RefusalIgnored(r) ==
    /\ pc[r] = "deadLettering"
    /\ MaybeEffect(r)
    /\ toAdd' = [toAdd EXCEPT ![r] = {}]
    /\ SendSettle(r)
    /\ Fault
    /\ UNCHANGED <<published, strategy, life, round, cur, todo, done, failed, left>>

\* It refuses one (and may hold it anyhow): all of them are attempted again.
RefuseDeadLetter(r) ==
    /\ pc[r] = "deadLettering"
    /\ MaybeEffect(r)
    /\ failed' = [failed EXCEPT ![r] = 
          {IF Terminal(f[2], cur[r].attempts) THEN <<f[1], "refused">> ELSE f : f \in @}]
    /\ toAdd' = [toAdd EXCEPT ![r] = {}]
    /\ SendSettle(r)
    /\ Fault
    /\ UNCHANGED <<published, strategy, life, round, cur, todo, done, left>>

\* The failed delivery is settled on its own.
Settle(r) ==
    /\ pc[r] = "settling"
    /\ SettleEffect(r)
    /\ Goto(r, "loop") /\ NoStatement(r) /\ ForgetAttempt(r)
    /\ UNCHANGED <<published, strategy, answered, faults, life, round>>

\* The handled deliveries are settled in one statement: before the round gives
\* the rest back or extends its lease, at its end, or after it failed.
Complete(r) ==
    /\ Completing(r)
    /\ CompleteEffect(r)
    /\ IF Leaving(r) /\ queue[r] = {}
       THEN Return(r) /\ UNCHANGED until
       ELSE /\ handled' = [handled EXCEPT ![r] = {}]
            /\ UNCHANGED <<queue, lease, started, full>>
            /\ IF pc[r] = "short" THEN \E d \in NextDelivery(r) : YieldOrExtend(r, d)
               ELSE Goto(r, IF Leaving(r) THEN "ending" ELSE pc[r])
            /\ UNCHANGED until
    /\ UNCHANGED <<published, strategy, answered, faults, life, attempt>>

Extend(r) ==
    /\ pc[r] = "extending"
    /\ ExtendEffect(r)
    /\ queue' = [queue EXCEPT ![r] = {d \in @ : Mine(r, d.event)}]
    /\ lease' = [lease EXCEPT ![r] = until[r]]
    /\ Goto(r, "loop") /\ NoStatement(r)
    /\ UNCHANGED <<published, strategy, answered, faults, life, handled, started, full, attempt>>

\* What was not started is given back, where it was.
Release(r) ==
    /\ Releasing(r)
    /\ ReleaseEffect(r)
    /\ IF Leaving(r) THEN Return(r)
       ELSE queue' = [queue EXCEPT ![r] = {}] /\ UNCHANGED <<pc, handled, lease, started, full>>
    /\ UNCHANGED <<published, strategy, answered, faults, life, until, attempt>>

\* A round whose deliveries were all settled one by one has nothing left to do.
RoundOver(r) ==
    /\ Leaving(r) /\ handled[r] = {} /\ queue[r] = {}
    /\ Return(r)
    /\ UNCHANGED <<ledger, published, strategy, answered, faults, life, until, attempt>>

\* The round failed, or was cancelled, and gave back what it could: the relay
\* waits and goes on, or its task ends.
RoundFailed(r) ==
    /\ pc[r] = "givingBack" /\ handled[r] = {} /\ queue[r] = {}
    /\ IF cancelled[r] THEN Down(r)
       ELSE Goto(r, "waiting") /\ ForgetRound(r) /\ UNCHANGED <<life, until, attempt>>
    /\ UNCHANGED <<ledger, published, strategy, answered, faults>>

----------------------------------------------------------------------------
(* Failures. *)

\* The claim raises: nothing is given back, and the relay waits.
ClaimFails(r) ==
    /\ pc[r] = "claiming"
    /\ MaybeEffect(r)
    /\ Goto(r, "waiting") /\ NoStatement(r)
    /\ Fault
    /\ UNCHANGED <<published, strategy, life, round, attempt>>

\* A statement of the round raises: the round gives back what it was to settle
\* and to start. A delivery whose settling failed stays claimed.
StatementFails(r) ==
    /\ pc[r] # "givingBack"
    /\ Completing(r) \/ Releasing(r) \/ pc[r] \in {"extending", "settling"}
    /\ MaybeEffect(r)
    /\ Goto(r, "givingBack") /\ NoStatement(r) /\ ForgetAttempt(r)
    /\ Fault
    /\ UNCHANGED <<published, strategy, life, round>>

\* Giving back fails, which is logged: those deliveries stay claimed.
GivingBackFails(r) ==
    /\ pc[r] = "givingBack"
    /\ MaybeEffect(r)
    /\ IF handled[r] # {}
       THEN handled' = [handled EXCEPT ![r] = {}] /\ UNCHANGED queue
       ELSE queue[r] # {} /\ queue' = [queue EXCEPT ![r] = {}] /\ UNCHANGED handled
    /\ Fault
    /\ UNCHANGED <<published, strategy, pc, life, until, lease, started, full, attempt>>

\* The stop's patience ends: the task is cancelled where it awaits. A delivery
\* in flight goes back with the rest; a commit in flight is let finish.
Cancel(r) ==
    /\ stopping[r] /\ ~cancelled[r]
    /\ pc[r] # "givingBack"
    /\ \/ Completing(r) \/ Releasing(r)
       \/ pc[r] \in {"extending", "handling", "deadLettering", "settling"}
    /\ MaybeEffect(r)
    /\ queue' = [queue EXCEPT ![r] = @ \cup (IF cur[r] = NoDelivery THEN {} ELSE {cur[r]})]
    /\ cancelled' = [cancelled EXCEPT ![r] = TRUE]
    /\ Goto(r, "givingBack") /\ NoStatement(r) /\ ForgetAttempt(r)
    /\ UNCHANGED <<published, strategy, faults, stopping, handled, lease, started, full>>

\* Cancelled while it gives back, which is shielded: it ends when that is done.
CancelGivingBack(r) ==
    /\ stopping[r] /\ ~cancelled[r] /\ pc[r] = "givingBack"
    /\ cancelled' = [cancelled EXCEPT ![r] = TRUE]
    /\ UNCHANGED <<ledger, published, strategy, answered, faults, pc, stopping, until, round, attempt>>

\* Cancelled in a claim, outside the round's give-back: what it took stays claimed.
CancelClaim(r) ==
    /\ stopping[r] /\ pc[r] = "claiming"
    /\ MaybeEffect(r)
    /\ Down(r)
    /\ UNCHANGED <<published, strategy, faults>>

\* The relay's process dies; the statement it had sent may take effect.
Crash(r) ==
    /\ pc[r] # "down"
    /\ MaybeEffect(r)
    /\ Down(r)
    /\ Fault
    /\ UNCHANGED <<published, strategy>>

----------------------------------------------------------------------------
(* Time. A handler is cancelled when its timeout is over, so time does not pass *)
(* beyond it, unless the handler's unit is committing (CommitOverrun).          *)

Tick ==
    /\ \A r \in Relays :
          /\ pc[r] = "handling" => left[r] > 0 \/ CommitOverrun
          /\ pc[r] = "claiming" => until[r] > ClaimTimeout - Latency
          /\ Prompt => pc[r] \in {"down", "waiting", "idle", "handling"}
    /\ rows' = [e \in Events |->
                  IF rows[e] = NoRow THEN NoRow
                  ELSE [rows[e] EXCEPT !.availableAt = CountDown(@, -Latency)]]
    /\ pc' = [r \in Relays |-> IF pc[r] = "waiting" THEN "idle" ELSE pc[r]]
    /\ until' = [r \in Relays |-> CountDown(until[r], -Latency)]
    /\ lease' = [r \in Relays |-> CountDown(lease[r], -1)]
    /\ left' = [r \in Relays |-> CountDown(left[r], -1)]
    /\ queue' = [r \in Relays |-> {[d EXCEPT !.dueAt = CountDown(@, -Latency)] : d \in queue[r]}]
    /\ cur' = [r \in Relays |-> IF cur[r] = NoDelivery THEN NoDelivery
                                 ELSE [cur[r] EXCEPT !.dueAt = CountDown(@, -Latency)]]
    /\ UNCHANGED <<deadLetters, retried, published, strategy, answered, faults, life, handled,
                   started, full, todo, done, failed, toAdd>>

----------------------------------------------------------------------------

Step(r) ==
    \/ Start(r) \/ TaskEnds(r)
    \/ BeginClaim(r) \/ Claim(r) \/ LeaseRunsShort(r) \/ StartDelivery(r)
    \/ HandlerSucceeds(r) \/ \E kind \in Failures : HandlerFails(r, kind)
    \/ AddDeadLetter(r) \/ Settle(r) \/ Complete(r) \/ Extend(r) \/ Release(r)
    \/ RoundOver(r) \/ RoundFailed(r)

Disturb(r) ==
    \/ RequestStop(r) \/ Cancel(r) \/ CancelGivingBack(r) \/ CancelClaim(r)
    \/ ClaimFails(r) \/ StatementFails(r) \/ GivingBackFails(r)
    \/ RefuseDeadLetter(r) \/ Crash(r)

Next ==
    \/ \E e \in Events : Publish(e)
    \/ \E r \in Relays : Step(r) \/ Disturb(r)
    \/ Tick

Spec == Init /\ [][Next]_vars

\* Tasks are scheduled, statements return, a relay that went down is started
\* again, and time passes.
FairSpec == Spec /\ (\A r \in Relays : WF_vars(Step(r))) /\ WF_vars(Tick)

----------------------------------------------------------------------------
(* Properties. *)

\* Every variable keeps its type: a claimed row counts at least the attempt of
\* its claim, so that no give-back takes the count below zero.
TypeOK ==
    /\ rows \in [Events -> Row \cup {NoRow}]
    /\ deadLetters \in [Events -> [Subs -> 0..2]]
    /\ published \subseteq Events
    /\ strategy \in Strategies
    /\ answered \in [Events -> SUBSET Subs]
    /\ retried \in [Events -> Nat]
    /\ faults \in Nat
    /\ pc \in [Relays -> Places]
    /\ stopping \in [Relays -> BOOLEAN]
    /\ cancelled \in [Relays -> BOOLEAN]
    /\ until \in [Relays -> Int]
    /\ queue \in [Relays -> SUBSET Delivery]
    /\ handled \in [Relays -> SUBSET Events]
    /\ lease \in [Relays -> Int]
    /\ started \in [Relays -> BOOLEAN]
    /\ full \in [Relays -> BOOLEAN]
    /\ cur \in [Relays -> Delivery \cup {NoDelivery}]
    /\ todo \in [Relays -> SUBSET Subs]
    /\ done \in [Relays -> SUBSET Subs]
    /\ failed \in [Relays -> SUBSET (Subs \X Kinds)]
    /\ toAdd \in [Relays -> SUBSET Subs]
    /\ left \in [Relays -> Int]

Running(r) == pc[r] = "handling"

\* The events of the claim the relay has still to settle or to give back.
Held(r) == {d.event : d \in queue[r]} \cup handled[r]
             \cup (IF cur[r] = NoDelivery THEN {} ELSE {cur[r].event})

\* The lease covers what a delivery may take (the module documentation): what
\* is left of the running handler's timeout and the timeouts of the
\* subscriptions after it fit in what is left of the lease.
RunsWithinLease ==
    \A r \in Relays :
        Running(r) => left[r] + HandlerTimeout * (Cardinality(todo[r]) - 1) <= lease[r]

\* While its lease lasts, a round owns the rows of everything it holds: they
\* carry its claim and come due when its lease ends (claim, extend, and the
\* fences of complete, settle and release). A failed round owns nothing more.
LeaseHolds ==
    \A r \in Relays :
        lease[r] > 0 /\ pc[r] # "givingBack" =>
            \A e \in Held(r) : Mine(r, e) /\ rows[e].availableAt = lease[r]

\* "The relays of one group share the rows without taking one twice": two
\* relays run handlers of one delivery together only at the instant the last
\* handler of one of them is timed out.
ExclusiveHandling ==
    \A r1, r2 \in Relays :
        r1 # r2 /\ Running(r1) /\ Running(r2) /\ cur[r1].event = cur[r2].event =>
            \E r \in {r1, r2} : left[r] = 0 /\ Cardinality(todo[r]) = 1

\* What a subscription has answered: it handled the event, was let go by the
\* strategy, or its failure is recorded.
Accounted(e) == answered[e] \cup {s \in Subs : deadLetters[e][s] > 0}

\* With the outbox's own table, a dead letter is final: it is written once, in
\* the unit that records the subscription done, and a relay whose lease lasts
\* does not run that subscription on the event again.
DeadLettersFinal ==
    ~ExternalStore =>
        /\ \A e \in Events, s \in Subs : deadLetters[e][s] <= 1
        /\ \A r \in Relays : Running(r) /\ lease[r] > 0 =>
              \A s \in todo[r] : deadLetters[cur[r].event][s] = 0

\* Claims, give-backs and lost leases in any order never let the policy grant
\* an event more than max_attempts - 1 further attempts (release takes back
\* the attempt of its own claim only).
BoundedRetries == \A e \in Events : retried[e] < MaxAttempts

\* The module documentation: "no delivery runs past its lease while its relay
\* lives".
NoDeliveryPastItsLease == \A r \in Relays : Running(r) => lease[r] >= 0

\* The relays and their store keep the promise of OutboxContract: an event is
\* owed to the subscriptions its row does not name done, and a row goes, or names
\* a subscription done, only when that one handled the event or went to the dead
\* letters (complete, settle).
Contract == INSTANCE OutboxContract WITH
    owed <- [e \in Events |-> IF rows[e] = NoRow THEN {} ELSE Matching[e] \ rows[e].done],
    accounted <- [e \in Events |-> Accounted(e)]

KeepsContract == Contract!Spec

\* Every published event is settled in the end: its row goes, whatever its
\* handlers do, and however often a relay is stopped, cancelled or killed.
EventuallySettled == \A e \in Events : (e \in published) ~> (e \in published /\ rows[e] = NoRow)

\* stop() ends: the relay goes down, with its claims given back or leased.
StopEnds == \A r \in Relays : stopping[r] ~> pc[r] = "down"

=============================================================================
