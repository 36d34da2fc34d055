---------------------------- MODULE KafkaListener ----------------------------
(***************************************************************************)
(* The KafkaListenerContainers of one consumer group, one in each member:  *)
(* each polls records, runs them one at a time in a unit of work, seeks a  *)
(* partition back to a record that failed, dead-letters what is out of     *)
(* attempts, and commits offsets behind what is done, while rebalances     *)
(* take partitions away, commits fail, members stop and die.               *)
(*                                                                         *)
(* An action is what a task does from one await to the next: the consume   *)
(* loop (task), the rebalance callback of the client's coordinator         *)
(* (rebalance), and stop().  The group's broker and the client's positions *)
(* are modelled as the container uses them: an eager rebalance, and a      *)
(* commit refused once the generation it was sent in is over.              *)
(***************************************************************************)
EXTENDS Integers, FiniteSets, Sequences, SequencesExt, FiniteSetsExt

CONSTANTS Members,        \* the processes, each with a container of the group
          Partitions,
          Length,         \* bound: records appended to a partition
          MaxPoll,        \* max_poll_records
          MaxAttempts,    \* RetryPolicy.max_attempts
          Resets,         \* the auto_offset_reset values the group may have
          MaxMishaps      \* bound: failed commits and publishes, stops, crashes, rebalances

ASSUME ListenerAssumption ==
  /\ {Length, MaxPoll, MaxAttempts} \subseteq Nat \ {0} /\ MaxMishaps \in Nat
  /\ Resets \subseteq {"earliest", "latest"}

VARIABLES
  end,         \* the records each partition has: 0 .. end - 1
  committed,   \* the group's committed offsets; -1: none
  reached,     \* history: the furthest they were
  group,       \* the members the broker counts
  forming,     \* the broker forms a new generation
  reset,       \* auto_offset_reset
  handled,     \* history: the records whose work is committed, or that are in the dead letters
  passed,      \* history: the records a consumer that started at the end never asks for
  mishaps,
  task,        \* what each container's loop awaits
  stopping,
  batch,       \* the rest of the poll, the record in flight first
  pending,     \* _pending; 0: none
  sent,        \* the offsets _commit_pending's commit in flight carries
  fenced,      \* its generation is over
  failures,    \* _failures
  recovering,  \* _recovering
  resumes,     \* _paused_until: the partitions that back off
  rebalance,   \* where the client's coordinator is
  awaited,     \* history: the records in flight when _on_revoked began to wait
  told,        \* the offsets _on_revoked's commit carries
  assigned,    \* _assigned
  revoking,    \* _revoking
  holds,       \* the partitions the client fetches and can seek
  position, paused,    \* of the client
  overran      \* history: a rebalance did not wait for the member's record in flight

brokerVars == <<end, committed, reached, group, forming, reset>>
loopVars == <<task, stopping, batch, pending, sent, fenced, failures, recovering, resumes>>
clientVars == <<rebalance, awaited, told, assigned, revoking, holds, position, paused>>
listenerVars == <<brokerVars, handled, passed, mishaps, loopVars, clientVars, overran>>

Record == [p : Partitions, o : 0 .. Length - 1]
None == [p \in Partitions |-> 0]
Offsets == [Partitions -> 0 .. Length]
NoFailures == [r \in Record |-> 0]

ListenerInit ==
  /\ end = None /\ committed = [p \in Partitions |-> -1] /\ reached = None /\ group = {} /\ forming = FALSE
  /\ reset \in Resets
  /\ handled = {} /\ passed = {} /\ mishaps = 0
  /\ task = [m \in Members |-> "down"] /\ stopping = [m \in Members |-> FALSE]
  /\ batch = [m \in Members |-> <<>>]
  /\ pending = [m \in Members |-> None] /\ sent = [m \in Members |-> None]
  /\ fenced = [m \in Members |-> FALSE]
  /\ failures = [m \in Members |-> NoFailures] /\ recovering = [m \in Members |-> {}]
  /\ resumes = [m \in Members |-> {}]
  /\ rebalance = [m \in Members |-> "off"] /\ awaited = [m \in Members |-> {}]
  /\ told = [m \in Members |-> None]
  /\ assigned = [m \in Members |-> {}] /\ revoking = [m \in Members |-> {}]
  /\ holds = [m \in Members |-> {}] /\ position = [m \in Members |-> None]
  /\ paused = [m \in Members |-> {}] /\ overran = [m \in Members |-> FALSE]

Mishap == mishaps < MaxMishaps /\ mishaps' = mishaps + 1

(* A record is in flight: _idle is cleared.                                   *)
Busy(m) == task[m] \in {"handling", "burying"}
Current(m) == Head(batch[m])

-----------------------------------------------------------------------------
(* The consume loop.                                                          *)

(* Mutant: a record starts although its partition is being taken away.        *)
OwnsUntilGone(m, p) == p \in assigned[m]
Owns(m, p) == p \notin revoking[m] /\ p \in assigned[m]

Keep(offsets, ps) == [p \in Partitions |-> IF p \in ps THEN offsets[p] ELSE 0]

(* The poll is done: commit what is done on the partitions still assigned.    *)
EndsPoll(m, offsets) ==
  LET kept == Keep(offsets, assigned[m])
  IN /\ batch' = [batch EXCEPT ![m] = <<>>]
     /\ pending' = [pending EXCEPT ![m] = kept]
     /\ sent' = [sent EXCEPT ![m] = kept]
     /\ fenced' = [fenced EXCEPT ![m] = kept # None /\ m \notin group]
     /\ task' = [task EXCEPT ![m] = IF kept # None THEN "committing"
                                    ELSE IF stopping[m] THEN "closing" ELSE "polling"]

(* What is left of a poll from its first record at one of the places on.      *)
From(records, places) ==
  IF places = {} THEN <<>> ELSE SubSeq(records, Min(places), Len(records))

(* The next record of the poll whose partition the member owns, if it does    *)
(* not stop.  One that waits for its dead letter, or cannot be read, is not   *)
(* handed to the listener.                                                    *)
GoesOn(m, rest, offsets) ==
  LET next == From(rest, {i \in DOMAIN rest : Owns(m, rest[i].p)})
  IN IF stopping[m] \/ next = <<>> THEN EndsPoll(m, offsets)
     ELSE /\ batch' = [batch EXCEPT ![m] = next]
          /\ pending' = [pending EXCEPT ![m] = offsets]
          /\ \/ task' = [task EXCEPT ![m] = "burying"]
             \/ Head(next) \notin recovering[m] /\ task' = [task EXCEPT ![m] = "handling"]
          /\ UNCHANGED <<sent, fenced>>

(* How far the client may fetch the partitions ps, also while its coordinator *)
(* rebalances, and the polls that hand out what it fetched: the records of    *)
(* one partition, in their order, after those of another.                     *)
Fetchable(m, ps) ==
  {to \in Offsets : \A p \in Partitions :
      IF p \in ps THEN position[m][p] <= to[p] /\ to[p] <= end[p] ELSE to[p] = position[m][p]}

Batches(m, to) ==
  LET fetched == {r \in Record : position[m][r.p] <= r.o /\ r.o < to[r.p]}
  IN {b \in UNION {[1 .. k -> fetched] : k \in 0 .. MaxPoll} :
        /\ ToSet(b) = fetched
        /\ \A i, j \in DOMAIN b : i < j /\ b[i].p = b[j].p => b[j].o - b[i].o = j - i}

(* getmany, after the partitions whose back-off is over were resumed.         *)
Polls(m, due) ==
  /\ task[m] = "polling" /\ due \subseteq resumes[m]
  /\ resumes' = [resumes EXCEPT ![m] = @ \ due]
  /\ paused' = [paused EXCEPT ![m] = @ \ (due \cap assigned[m])]
  /\ \E to \in Fetchable(m, holds[m] \ paused'[m]) :
        /\ position' = [position EXCEPT ![m] = to]
        /\ \E b \in Batches(m, to) : GoesOn(m, b, pending[m])
  /\ UNCHANGED <<brokerVars, handled, passed, mishaps, stopping, failures, recovering,
                 rebalance, awaited, told, assigned, revoking, holds, overran>>

(* _completed, and the loop goes on.                                          *)
Done(m) ==
  LET r == Current(m)
  IN /\ handled' = handled \cup {r}
     /\ failures' = [failures EXCEPT ![m][r] = 0]
     /\ recovering' = [recovering EXCEPT ![m] = @ \ {r}]
     /\ GoesOn(m, Tail(batch[m]), [pending[m] EXCEPT ![r.p] = r.o + 1])

Handles(m) ==
  /\ task[m] = "handling" /\ Done(m)
  /\ UNCHANGED <<brokerVars, passed, mishaps, stopping, resumes, clientVars, overran>>

(* The publish took a copy, or the destination keeps none: the record is let  *)
(* go either way.                                                             *)
Buries(m) ==
  /\ task[m] = "burying" /\ Done(m)
  /\ UNCHANGED <<brokerVars, passed, mishaps, stopping, resumes, clientVars, overran>>

(* Mutant: the records after one that failed go on.                           *)
AllButCurrent(m) == Tail(batch[m])
AllButPartition(m) == From(batch[m], {i \in DOMAIN batch[m] : batch[m][i].p # Current(m).p})

(* _back_off: the partition goes back to the record, if it can still be       *)
(* sought, and its later records are dropped.                                 *)
BacksOff(m) ==
  LET r == Current(m)
  IN /\ IF r.p \in holds[m]
        THEN /\ position' = [position EXCEPT ![m][r.p] = r.o]
             /\ paused' = [paused EXCEPT ![m] = @ \cup {r.p}]
             /\ resumes' = [resumes EXCEPT ![m] = @ \cup {r.p}]
        ELSE UNCHANGED <<position, paused, resumes>>
     /\ GoesOn(m, AllButPartition(m), pending[m])
     /\ UNCHANGED <<brokerVars, passed, stopping, rebalance, awaited, told, assigned, revoking, holds, overran>>

(* What failed may have committed all the same: an error after the commit, a  *)
(* commit or a publish whose answer is lost.                                  *)
Took(m, took) == handled' = IF took THEN handled \cup {Current(m)} ELSE handled

(* Mutant: one attempt too many.                                              *)
LastAttemptLate(m) == failures[m][Current(m)] + 1 > MaxAttempts
LastAttempt(m) == failures[m][Current(m)] + 1 >= MaxAttempts

(* A retryable failure.                                                       *)
HandlingFails(m, took) ==
  /\ task[m] = "handling" /\ ~LastAttempt(m)
  /\ Took(m, took)
  /\ failures' = [failures EXCEPT ![m][Current(m)] = @ + 1]
  /\ BacksOff(m)
  /\ UNCHANGED <<mishaps, recovering>>

(* Out of attempts, or an error the policy does not retry.                    *)
GivesUp(m, took) ==
  /\ task[m] = "handling"
  /\ Took(m, took)
  /\ task' = [task EXCEPT ![m] = "burying"]
  /\ UNCHANGED <<brokerVars, passed, mishaps, stopping, batch, pending, sent, fenced, failures, recovering,
                 resumes, clientVars, overran>>

BuryingFails(m, took) ==
  /\ task[m] = "burying" /\ Mishap
  /\ Took(m, took)
  /\ recovering' = [recovering EXCEPT ![m] = @ \cup {Current(m)}]
  /\ BacksOff(m)
  /\ UNCHANGED failures

(* The commit in flight takes effect, if its generation lasts.                *)
Commit(m, offsets) ==
  /\ committed' = [p \in Partitions |-> IF offsets[p] > 0 THEN offsets[p] ELSE committed[p]]
  /\ reached' = [p \in Partitions |-> Max({reached[p], offsets[p]})]

AfterCommit(m) == task' = [task EXCEPT ![m] = IF stopping[m] THEN "closing" ELSE "polling"]
Answered(m) == sent' = [sent EXCEPT ![m] = None] /\ fenced' = [fenced EXCEPT ![m] = FALSE]

(* What was not overtaken by another record, or taken away, is committed.     *)
Commits(m) ==
  /\ task[m] = "committing" /\ ~fenced[m]
  /\ Commit(m, sent[m])
  /\ pending' = [pending EXCEPT ![m] =
        [p \in Partitions |-> IF @[p] = sent[m][p] THEN 0 ELSE @[p]]]
  /\ AfterCommit(m) /\ Answered(m)
  /\ UNCHANGED <<end, group, forming, reset, handled, passed, mishaps, stopping, batch, failures, recovering,
                 resumes, clientVars, overran>>

(* Mutant: a commit that failed is not sent again.                            *)
ForgetsFailed(m) == pending' = [pending EXCEPT ![m] = None]
KeepsFailed(m) == UNCHANGED pending

(* The commit is refused, or fails; its answer may be lost.                   *)
CommitFails(m, took) ==
  /\ task[m] = "committing"
  /\ IF fenced[m] THEN ~took /\ UNCHANGED mishaps ELSE Mishap
  /\ IF took THEN Commit(m, sent[m]) ELSE UNCHANGED <<committed, reached>>
  /\ KeepsFailed(m) /\ AfterCommit(m) /\ Answered(m)
  /\ UNCHANGED <<end, group, forming, reset, handled, passed, stopping, batch, failures, recovering,
                 resumes, clientVars, overran>>

-----------------------------------------------------------------------------
(* Start and stop.                                                            *)

Starts(m) ==
  /\ task[m] = "down" /\ m \notin group
  /\ task' = [task EXCEPT ![m] = "polling"]
  /\ rebalance' = [rebalance EXCEPT ![m] = "joining"]
  /\ group' = group \cup {m} /\ forming' = TRUE
  /\ UNCHANGED <<end, committed, reached, reset, handled, passed, mishaps, stopping, batch, pending, sent, fenced, failures,
                 recovering, resumes, awaited, told, assigned, revoking, holds, position, paused, overran>>

(* stop() ends an idle loop at once; a commit in flight may take effect.      *)
Stops(m, took) ==
  /\ task[m] \notin {"down", "closing"} /\ ~stopping[m] /\ Mishap
  /\ stopping' = [stopping EXCEPT ![m] = TRUE]
  /\ IF Busy(m) THEN ~took /\ UNCHANGED task ELSE task' = [task EXCEPT ![m] = "closing"]
  /\ took => task[m] = "committing" /\ ~fenced[m]
  /\ IF took THEN Commit(m, sent[m]) ELSE UNCHANGED <<committed, reached>>
  /\ Answered(m)
  /\ UNCHANGED <<end, group, forming, reset, handled, passed, batch, pending, failures, recovering, resumes,
                 clientVars, overran>>

(* Mutant: what is cancelled counts as done.                                  *)
DoneWhenCancelled(m, took) == pending' = [pending EXCEPT ![m][Current(m).p] = Current(m).o + 1]

(* A record whose unit committed before the cancellation counts as done.      *)
DoneIfCommitted(m, took) ==
  pending' = IF took /\ task[m] = "handling"
             THEN [pending EXCEPT ![m][Current(m).p] = Current(m).o + 1] ELSE pending

(* The shutdown timeout: the record in flight is cancelled.                   *)
StopCancels(m, took) ==
  /\ Busy(m) /\ stopping[m]
  /\ Took(m, took) /\ DoneIfCommitted(m, took)
  /\ task' = [task EXCEPT ![m] = "closing"]
  /\ batch' = [batch EXCEPT ![m] = <<>>]
  /\ UNCHANGED <<brokerVars, passed, mishaps, stopping, sent, fenced, failures, recovering, resumes, clientVars,
                 overran>>

(* The container is gone: its adapter makes another.                          *)
Gone(m) ==
  /\ task' = [task EXCEPT ![m] = "down"] /\ stopping' = [stopping EXCEPT ![m] = FALSE]
  /\ batch' = [batch EXCEPT ![m] = <<>>] /\ pending' = [pending EXCEPT ![m] = None]
  /\ Answered(m)
  /\ failures' = [failures EXCEPT ![m] = NoFailures] /\ recovering' = [recovering EXCEPT ![m] = {}]
  /\ resumes' = [resumes EXCEPT ![m] = {}]
  /\ rebalance' = [rebalance EXCEPT ![m] = "off"] /\ awaited' = [awaited EXCEPT ![m] = {}]
  /\ told' = [told EXCEPT ![m] = None]
  /\ assigned' = [assigned EXCEPT ![m] = {}] /\ revoking' = [revoking EXCEPT ![m] = {}]
  /\ holds' = [holds EXCEPT ![m] = {}] /\ position' = [position EXCEPT ![m] = None]
  /\ paused' = [paused EXCEPT ![m] = {}] /\ overran' = [overran EXCEPT ![m] = FALSE]

(* stop() commits what is done and leaves the group.                          *)
Closes(m, took) ==
  LET offsets == Keep(pending[m], assigned[m])
  IN /\ task[m] = "closing"
     /\ took => offsets # None /\ m \in group
     /\ IF took \/ offsets = None \/ m \notin group THEN UNCHANGED mishaps ELSE Mishap
     /\ IF took THEN Commit(m, offsets) ELSE UNCHANGED <<committed, reached>>
     /\ Gone(m)
     /\ group' = group \ {m} /\ forming' = (forming \/ m \in group)
     /\ UNCHANGED <<end, reset, handled, passed>>

(* The process dies, right after something took effect or right before; the   *)
(* broker finds out when the session ends.                                    *)
Crashes(m) ==
  /\ task[m] # "down" /\ Mishap /\ Gone(m)
  /\ UNCHANGED <<brokerVars, handled, passed>>

SessionEnds(m) ==
  /\ task[m] = "down" /\ m \in group
  /\ group' = group \ {m} /\ forming' = TRUE
  /\ UNCHANGED <<end, committed, reached, reset, handled, passed, mishaps, loopVars, clientVars, overran>>

-----------------------------------------------------------------------------
(* Rebalances.                                                                *)

Rebalances ==
  /\ ~forming /\ group # {} /\ Mishap /\ forming' = TRUE
  /\ UNCHANGED <<end, committed, reached, group, reset, handled, passed, loopVars, clientVars, overran>>

(* The broker hears nothing of a member for too long, and goes on without it. *)
Evicts(m) ==
  /\ m \in group /\ task[m] # "down" /\ rebalance[m] # "joining" /\ Mishap
  /\ group' = group \ {m} /\ forming' = TRUE
  /\ fenced' = [fenced EXCEPT ![m] = task[m] = "committing"]
  /\ overran' = [overran EXCEPT ![m] = TRUE]
  /\ UNCHANGED <<end, committed, reached, reset, handled, passed, task, stopping, batch, pending, sent, failures,
                 recovering, resumes, clientVars>>

(* _on_revoked, of everything the member has (eager): no record of it starts  *)
(* any more, and the one in flight is waited for.                             *)
MustRejoin(m) == rebalance[m] = "steady" /\ (forming \/ m \notin group)

WaitsForRecord(m) ==
  /\ MustRejoin(m) /\ Busy(m)
  /\ revoking' = [revoking EXCEPT ![m] = @ \cup holds[m]]
  /\ rebalance' = [rebalance EXCEPT ![m] = "waiting"]
  /\ awaited' = [awaited EXCEPT ![m] = {Current(m)}]
  /\ UNCHANGED <<brokerVars, handled, passed, mishaps, loopVars, told, assigned, holds, position, paused, overran>>

(* Mutant: what was done stays to be committed.                               *)
KeepsPending(m, lost) == UNCHANGED pending
ForgetsPending(m, lost) == pending' = [pending EXCEPT ![m] = Keep(@, Partitions \ lost)]

(* The retry state of what is revoked is forgotten, and the member joins the  *)
(* generation that forms.                                                     *)
Revoked(m, lost, outlasted) ==
  /\ ForgetsPending(m, lost)
  /\ resumes' = [resumes EXCEPT ![m] = @ \ lost]
  /\ failures' = [failures EXCEPT ![m] = [r \in Record |-> IF r.p \in lost THEN 0 ELSE @[r]]]
  /\ recovering' = [recovering EXCEPT ![m] = {r \in @ : r.p \notin lost}]
  /\ assigned' = [assigned EXCEPT ![m] = @ \ lost]
  /\ revoking' = [revoking EXCEPT ![m] = @ \ lost]
  /\ told' = [told EXCEPT ![m] = None] /\ awaited' = [awaited EXCEPT ![m] = {}]
  /\ rebalance' = [rebalance EXCEPT ![m] = "joining"]
  /\ overran' = [overran EXCEPT ![m] =
       (@ \/ outlasted) /\ (Busy(m) \/ task[m] = "committing" \/ pending'[m] # None)]
  /\ group' = group \cup {m} /\ forming' = TRUE

(* What was waited for still runs.                                            *)
Outlasts(m) == Busy(m) /\ Current(m) \in awaited[m]

(* Nothing is in flight (any more), or the shutdown timeout is over.          *)
RevokeGoesOn(m) ==
  LET lost == revoking[m] \cup holds[m]
      offsets == Keep(pending[m], lost)
  IN /\ rebalance[m] = "waiting" \/ (MustRejoin(m) /\ ~Busy(m))
     /\ IF offsets = None THEN Revoked(m, lost, Outlasts(m))
        ELSE /\ revoking' = [revoking EXCEPT ![m] = lost]
             /\ told' = [told EXCEPT ![m] = offsets]
             /\ rebalance' = [rebalance EXCEPT ![m] = "telling"]
             /\ overran' = [overran EXCEPT ![m] = @ \/ Outlasts(m)]
             /\ UNCHANGED <<pending, resumes, failures, recovering, assigned, awaited, group, forming>>
     /\ UNCHANGED <<end, committed, reached, reset, handled, passed, mishaps, task, stopping, batch, sent, fenced,
                    holds, position, paused>>

(* The commit of what is done on the revoked partitions, and after it.        *)
RevokeCommits(m, took) ==
  /\ rebalance[m] = "telling"
  /\ took => m \in group
  /\ IF took \/ m \notin group THEN UNCHANGED mishaps ELSE Mishap
  /\ IF took THEN Commit(m, told[m]) ELSE UNCHANGED <<committed, reached>>
  /\ Revoked(m, revoking[m], FALSE)
  /\ UNCHANGED <<end, reset, handled, passed, task, stopping, batch, sent, fenced, holds, position, paused>>

(* Where a consumer starts a partition: at the committed offset, or where the *)
(* group starts without one.                                                  *)
StartOf(p) == IF committed[p] >= 0 THEN committed[p] ELSE IF reset = "earliest" THEN 0 ELSE end[p]

(* Every member the broker counts has joined: each has its partitions.        *)
Assigns ==
  /\ forming /\ group # {} /\ \A m \in group : rebalance[m] = "joining"
  /\ forming' = FALSE
  /\ \E owner \in [Partitions -> group] :
        LET given == [m \in Members |-> {p \in Partitions : owner[p] = m}]
        IN /\ holds' = [m \in Members |-> IF m \in group THEN given[m] ELSE holds[m]]
           /\ assigned' = [m \in Members |-> IF m \in group THEN given[m] ELSE assigned[m]]
           /\ position' = [m \in Members |-> [p \in Partitions |->
                             IF p \in given[m] THEN StartOf(p) ELSE IF m \in group THEN 0 ELSE position[m][p]]]
  /\ paused' = [m \in Members |-> IF m \in group THEN {} ELSE paused[m]]
  /\ rebalance' = [m \in Members |-> IF m \in group THEN "steady" ELSE rebalance[m]]
  /\ fenced' = [m \in Members |-> task[m] = "committing"]
  /\ passed' = passed \cup {r \in Record : /\ reset = "latest" /\ committed[r.p] = -1
                                           /\ r.o < end[r.p]}
  /\ UNCHANGED <<end, committed, reached, group, reset, handled, mishaps, task, stopping, batch, pending, sent, failures,
                 recovering, resumes, awaited, told, revoking, overran>>

(* A producer.                                                                *)
Appends(p) ==
  /\ end[p] < Length /\ end' = [end EXCEPT ![p] = @ + 1]
  /\ UNCHANGED <<committed, reached, group, forming, reset, handled, passed, mishaps, loopVars, clientVars, overran>>

-----------------------------------------------------------------------------
ListenerLoop(m) ==
  \/ Starts(m) \/ Handles(m) \/ Buries(m) \/ Commits(m)
  \/ \E took \in BOOLEAN :
        \/ HandlingFails(m, took) \/ GivesUp(m, took) \/ BuryingFails(m, took) \/ CommitFails(m, took)
        \/ StopCancels(m, took) \/ Closes(m, took)

Coordinator(m) ==
  WaitsForRecord(m) \/ RevokeGoesOn(m) \/ \E took \in BOOLEAN : RevokeCommits(m, took)

GroupBroker == Assigns \/ \E m \in Members : SessionEnds(m)

ListenerDisturbs(m) == Evicts(m) \/ Crashes(m) \/ \E took \in BOOLEAN : Stops(m, took)

ListenerNext ==
  \/ \E m \in Members : \/ ListenerLoop(m) \/ Coordinator(m) \/ ListenerDisturbs(m)
                         \/ \E due \in SUBSET resumes[m] : Polls(m, due)
  \/ GroupBroker \/ Rebalances \/ \E p \in Partitions : Appends(p)

(* Each task goes on and the broker answers; a handler returns or raises, a   *)
(* back-off ends, and a process that stopped or died is started again.        *)
ListenerFairness ==
  /\ \A m \in Members : /\ WF_listenerVars(ListenerLoop(m) \/ Polls(m, resumes[m]))
                        /\ WF_listenerVars(Coordinator(m))
  /\ WF_listenerVars(GroupBroker)

ListenerSpec == ListenerInit /\ [][ListenerNext]_listenerVars /\ ListenerFairness

-----------------------------------------------------------------------------
(* Properties.                                                                *)

ListenerTypeOK ==
  /\ end \in Offsets /\ committed \in [Partitions -> -1 .. Length] /\ reached \in Offsets
  /\ group \subseteq Members /\ forming \in BOOLEAN /\ reset \in Resets
  /\ handled \subseteq Record /\ passed \subseteq Record /\ mishaps \in 0 .. MaxMishaps
  /\ task \in [Members -> {"down", "polling", "handling", "burying", "committing", "closing"}]
  /\ stopping \in [Members -> BOOLEAN] /\ fenced \in [Members -> BOOLEAN] /\ overran \in [Members -> BOOLEAN]
  /\ batch \in [Members -> Seq(Record)]
  /\ \A m \in Members : /\ Len(batch[m]) <= MaxPoll
                        /\ (batch[m] # <<>>) = Busy(m)
                        /\ (sent[m] # None) = (task[m] = "committing")
                        /\ assigned[m] \subseteq holds[m] /\ revoking[m] \subseteq holds[m]
  /\ {pending, sent, told, position} \subseteq [Members -> Offsets]
  /\ failures \in [Members -> [Record -> 0 .. MaxAttempts - 1]]
  /\ recovering \in [Members -> SUBSET Record]
  /\ awaited \in [Members -> SUBSET Record]
  /\ {resumes, assigned, revoking, holds, paused} \subseteq [Members -> SUBSET Partitions]
  /\ rebalance \in [Members -> {"off", "steady", "waiting", "telling", "joining"}]

Before(r) == {s \in Record : s.p = r.p /\ s.o < r.o}

(* "Never past one still running or cancelled": everything before a committed *)
(* offset was handled or dead-lettered, but what a group without a committed  *)
(* offset never asked for; and a record is handed to the listener only once   *)
(* everything before it in its partition is over.                             *)
NothingSkipped ==
  /\ \A r \in Record : r.o < committed[r.p] => r \in handled \cup passed
  /\ \A m \in Members : Busy(m) => Before(Current(m)) \subseteq handled \cup passed

(* Two members run records of one partition at once only when a rebalance did *)
(* not wait for one of them.                                                  *)
RunsAtOneMember ==
  \A m, n \in Members :
    m # n /\ Busy(m) /\ Busy(n) /\ Current(m).p = Current(n).p => overran[m] \/ overran[n]

(* A committed offset goes back, and has records delivered again that were    *)
(* committed, only through a member whose record outlasted a rebalance.       *)
CommitsForward ==
  [][\A p \in Partitions : committed'[p] < committed[p] => \E m \in Members : overran[m]]_listenerVars

(* Every record comes to be behind the committed offset, whatever fails, is   *)
(* revoked, stops or dies, unless the group started after it.                 *)
EveryRecordSettles ==
  <>[](\A r \in Record : r.o < end[r.p] => r.o < reached[r.p] \/ r \in passed)
=============================================================================
