---------------------------- MODULE ProjectionRunner ----------------------------
(***************************************************************************)
(* The runners of one projection, on a checkpoint store in the database of *)
(* its read model.  A runner reads the stream a page at a time and applies *)
(* each page in a unit of work that first moves the checkpoint, from where *)
(* the runner believes it is.  The stream is the one EventStream promises: *)
(* it grows at its end, so its events are numbered by their place in it.   *)
(*                                                                         *)
(* An action is what a runner does between two awaits.  The handlers of a  *)
(* page are one action: what they write shows with the unit's commit.  The *)
(* sleep between two rounds of the loop is the time spent at "looping".    *)
(***************************************************************************)
EXTENDS Integers, Sequences

CONSTANTS Runners,
          BatchSize,
          Leased,       \* whether the runners take the projection's lease
          Stuck,        \* the events of which one may fail for good, 0 for none
          MaxEvents,    \* a bound on the events published
          MaxMishaps,   \* a bound on failures, stops, crashes and rebuilds
          Nobody

ASSUME ProjectionAssumption ==
  /\ Nobody \notin Runners /\ BatchSize \in Nat \ {0} /\ Leased \in BOOLEAN
  /\ Stuck \subseteq Nat /\ MaxEvents \in Nat /\ MaxMishaps \in Nat

VARIABLES
  published,    \* how many events the stream has
  checkpoint,   \* the position in the row, Unknown while there is no row
  readModel,    \* what the committed batches applied, in order
  origin,       \* ghost: the position the read model began at
  rowLock,      \* the runner whose unit has moved the row
  leaseOf,      \* the runner the lease's row names, until it ends
  startFrom,
  stuck,        \* the event that never succeeds
  stuckAt,      \* whether its handler raises or its batch's commit fails
  mishaps,
  doing,        \* what a runner awaits
  stopping,     \* _stop is set
  position,     \* where it believes the checkpoint is
  size,         \* the limit of its next page
  target,       \* the position of its page's last event
  narrowUntil,  \* the end of a page that failed at commit, 0 for none
  latest,       \* the stream's last position when it started
  leaseHeld     \* whether it believes it has the lease

given == <<startFrom, stuck, stuckAt>>
row == <<checkpoint, readModel, origin, rowLock>>
pages == <<position, size, target, narrowUntil, latest>>
projectionVars == <<published, row, leaseOf, given, mishaps, doing, stopping, pages, leaseHeld>>

Unknown == -1
Lower(m, n) == IF m < n THEN m ELSE n

ProjectionInit ==
  /\ published = 0 /\ checkpoint = Unknown /\ readModel = <<>> /\ origin = 0
  /\ rowLock = Nobody /\ leaseOf = Nobody /\ mishaps = 0
  /\ startFrom \in {"earliest", "latest"}
  /\ stuck \in Stuck /\ stuckAt \in {"handler", "commit"} /\ (stuck = 0 => stuckAt = "handler")
  /\ doing = [r \in Runners |-> "down"] /\ stopping = [r \in Runners |-> FALSE]
  /\ position = [r \in Runners |-> Unknown] /\ size = [r \in Runners |-> BatchSize]
  /\ target = [r \in Runners |-> 0] /\ narrowUntil = [r \in Runners |-> 0]
  /\ latest = [r \in Runners |-> 0] /\ leaseHeld = [r \in Runners |-> FALSE]

Turns(r, what) == doing' = [doing EXCEPT ![r] = what]

(* The next round of the loop, of which the page is gone.                     *)
Loops(r) == Turns(r, "looping") /\ target' = [target EXCEPT ![r] = 0]

(* The task ends, and what it knew.                                           *)
Forgets(r) ==
  /\ position' = [position EXCEPT ![r] = Unknown] /\ size' = [size EXCEPT ![r] = BatchSize]
  /\ target' = [target EXCEPT ![r] = 0]

(* A failure, stop, crash or rebuild, as long as the bound admits one.        *)
Mishap == mishaps < MaxMishaps /\ mishaps' = mishaps + 1

Publishes ==
  /\ published < MaxEvents /\ published' = published + 1
  /\ UNCHANGED <<row, leaseOf, given, mishaps, doing, stopping, pages, leaseHeld>>

(* start(): a task, which knows nothing yet but where to begin.               *)
RunnerStarts(r) ==
  /\ doing[r] = "down" /\ Turns(r, "looping")
  /\ latest' = [latest EXCEPT ![r] = IF startFrom = "latest" THEN published ELSE @]
  /\ UNCHANGED <<published, row, leaseOf, given, mishaps, stopping, position, size, target, narrowUntil,
                 leaseHeld>>

--------------------------------------------------------------------------------
(* _hold_lease.                                                               *)

GoesOn(r) == Turns(r, IF position[r] = Unknown THEN "loading" ELSE "reading")

(* The lease is not due for renewal, or is renewed.                           *)
HoldsLease(r) ==
  /\ doing[r] = "looping" /\ ~stopping[r] /\ (Leased => leaseHeld[r])
  /\ GoesOn(r)
  /\ UNCHANGED <<published, row, leaseOf, given, mishaps, stopping, pages, leaseHeld>>

(* extend() finds that the lease has ended.                                   *)
LosesLease(r) ==
  /\ doing[r] = "looping" /\ ~stopping[r] /\ leaseHeld[r] /\ leaseOf # r
  /\ Turns(r, "acquiring") /\ leaseHeld' = [leaseHeld EXCEPT ![r] = FALSE]
  /\ UNCHANGED <<published, row, leaseOf, given, mishaps, stopping, pages>>

Asks(r) == \/ doing[r] = "acquiring"
           \/ doing[r] = "looping" /\ ~stopping[r] /\ Leased /\ ~leaseHeld[r]

AcquiresLease(r) ==
  /\ Asks(r) /\ leaseOf = Nobody /\ leaseOf' = r
  /\ leaseHeld' = [leaseHeld EXCEPT ![r] = TRUE] /\ GoesOn(r)
  /\ UNCHANGED <<published, row, given, mishaps, stopping, pages>>

(* Another runner is active: the checkpoint is read again when this one is.   *)
StandsBy(r) ==
  /\ Asks(r) /\ leaseOf # Nobody /\ Turns(r, "looping")
  /\ position' = [position EXCEPT ![r] = Unknown]
  /\ UNCHANGED <<published, row, leaseOf, given, mishaps, stopping, size, target, narrowUntil, latest,
                 leaseHeld>>

LeaseEnds ==
  /\ leaseOf # Nobody /\ leaseOf' = Nobody
  /\ UNCHANGED <<published, row, given, mishaps, doing, stopping, pages, leaseHeld>>

--------------------------------------------------------------------------------
(* Loading the checkpoint and reading a page.                                 *)

(* insert_if_absent: the read model begins where the row does.                *)
RowThere(initial) ==
  /\ checkpoint' = IF checkpoint = Unknown THEN initial ELSE checkpoint
  /\ origin' = IF checkpoint = Unknown THEN initial ELSE origin
  /\ UNCHANGED <<readModel, rowLock>>

(* One event at a time inside a page that failed at commit.                   *)
PageSize(r, now) ==
  /\ size' = [size EXCEPT ![r] = IF now < narrowUntil[r] THEN 1 ELSE BatchSize]
  /\ narrowUntil' = [narrowUntil EXCEPT ![r] = IF now < @ THEN @ ELSE 0]

LoadsCheckpoint(r) ==
  /\ doing[r] = "loading" /\ Turns(r, "reading") /\ RowThere(latest[r])
  /\ position' = [position EXCEPT ![r] = checkpoint']
  /\ UNCHANGED <<published, leaseOf, given, mishaps, stopping, size, target, narrowUntil, latest, leaseHeld>>

(* The batch was superseded: go on from where the checkpoint is now.          *)
LoadsAgain(r) ==
  /\ doing[r] = "superseded" /\ Turns(r, "looping") /\ RowThere(0)
  /\ position' = [position EXCEPT ![r] = checkpoint'] /\ PageSize(r, checkpoint')
  /\ UNCHANGED <<published, leaseOf, given, mishaps, stopping, target, latest, leaseHeld>>

(* A page of the events before the last one.                                  *)
ReadsAllButLast(r) ==
  /\ doing[r] = "reading"
  /\ IF position[r] + 1 >= published THEN Turns(r, "looping") /\ UNCHANGED target
     ELSE /\ Turns(r, "claiming")
          /\ target' = [target EXCEPT ![r] = Lower(published - 1, position[r] + size[r])]
  /\ UNCHANGED <<published, row, leaseOf, given, mishaps, stopping, position, size, narrowUntil, latest,
                 leaseHeld>>

ReadsPage(r) ==
  /\ doing[r] = "reading"
  /\ IF position[r] >= published THEN Turns(r, "looping") /\ UNCHANGED target
     ELSE /\ Turns(r, "claiming")
          /\ target' = [target EXCEPT ![r] = Lower(published, position[r] + size[r])]
  /\ UNCHANGED <<published, row, leaseOf, given, mishaps, stopping, position, size, narrowUntil, latest,
                 leaseHeld>>

(* A statement that ends without an answer, and took effect or not.           *)
LeaseAsked(r) == leaseOf' = leaseOf \/ (leaseOf = Nobody /\ leaseOf' = r)

(* The lease, the store or the checkpoint fails: the runner outlives it.      *)
RoundFails(r) ==
  /\ Mishap /\ Turns(r, "looping") /\ position' = [position EXCEPT ![r] = Unknown]
  /\ \/ doing[r] \in {"reading", "superseded"} /\ UNCHANGED <<row, leaseOf>>
     \/ doing[r] = "loading" /\ UNCHANGED leaseOf /\ (RowThere(latest[r]) \/ UNCHANGED row)
     \/ doing[r] = "looping" /\ ~stopping[r] /\ leaseHeld[r] /\ UNCHANGED <<row, leaseOf>>
     \/ Asks(r) /\ UNCHANGED row /\ LeaseAsked(r)
  /\ UNCHANGED <<published, given, stopping, size, target, narrowUntil, latest, leaseHeld>>

--------------------------------------------------------------------------------
(* _apply: one page in one batch.                                             *)

InPage(r, e) == position[r] < e /\ e <= target[r]
BreaksAt(r, where) == stuckAt = where /\ InPage(r, stuck)

Span(from, to) == [i \in 1..(to - from) |-> from + i]

(* A batch that moves the checkpoint from wherever it is.                     *)
ClaimsAnyway(r) ==
  /\ doing[r] = "claiming" /\ checkpoint # Unknown /\ rowLock = Nobody
  /\ rowLock' = r /\ Turns(r, "handling")
  /\ UNCHANGED <<published, checkpoint, readModel, origin, leaseOf, given, mishaps, stopping, pages,
                 leaseHeld>>

(* UPDATE ... WHERE position = :expected finds the row there, once no other   *)
(* unit has it locked.                                                        *)
ClaimsBatch(r) ==
  /\ doing[r] = "claiming" /\ checkpoint = position[r] /\ rowLock = Nobody
  /\ rowLock' = r /\ Turns(r, "handling")
  /\ UNCHANGED <<published, checkpoint, readModel, origin, leaseOf, given, mishaps, stopping, pages,
                 leaseHeld>>

(* Another runner has moved it: the batch applies nothing.                    *)
FindsItMoved(r) ==
  /\ doing[r] = "claiming" /\ checkpoint # position[r] /\ Turns(r, "superseded")
  /\ target' = [target EXCEPT ![r] = 0]
  /\ UNCHANGED <<published, row, leaseOf, given, mishaps, stopping, position, size, narrowUntil, latest,
                 leaseHeld>>

HandlesPage(r) ==
  /\ doing[r] = "handling" /\ ~BreaksAt(r, "handler") /\ Turns(r, "committing")
  /\ UNCHANGED <<published, row, leaseOf, given, mishaps, stopping, pages, leaseHeld>>

Unlocked == rowLock' = Nobody /\ UNCHANGED <<checkpoint, readModel, origin>>

(* The handler of event e raises, and the batch rolls back: next is the page  *)
(* of the events before e.                                                    *)
HandlerRaises(r, e) ==
  /\ doing[r] = "handling" /\ InPage(r, e) /\ (BreaksAt(r, "handler") => e <= stuck)
  /\ Loops(r) /\ Unlocked
  /\ IF e > position[r] + 1
     THEN size' = [size EXCEPT ![r] = e - position[r] - 1] /\ UNCHANGED narrowUntil
     ELSE PageSize(r, position[r])
  /\ UNCHANGED <<published, leaseOf, given, stopping, position, latest, leaseHeld>>

StuckEventRaises(r) == stuckAt = "handler" /\ HandlerRaises(r, stuck) /\ UNCHANGED mishaps
EventRaises(r) == Mishap /\ \E e \in 1..MaxEvents : HandlerRaises(r, e)

Committed(r) ==
  /\ checkpoint' = target[r] /\ readModel' = readModel \o Span(position[r], target[r])
  /\ rowLock' = Nobody /\ UNCHANGED origin

CommitsBatch(r) ==
  /\ doing[r] = "committing" /\ ~BreaksAt(r, "commit") /\ Committed(r) /\ Loops(r)
  /\ position' = [position EXCEPT ![r] = target[r]] /\ PageSize(r, target[r])
  /\ UNCHANGED <<published, leaseOf, given, mishaps, stopping, latest, leaseHeld>>

(* Its events are tried one at a time until the runner is past them.          *)
Narrows(r) ==
  /\ size' = [size EXCEPT ![r] = 1]
  /\ narrowUntil' = [narrowUntil EXCEPT ![r] =
       IF target[r] > position[r] + 1 /\ target[r] > @ THEN target[r] ELSE @]

(* The unit fails to begin or to commit; a commit whose answer is lost took   *)
(* effect, and the runner believes it did not.                                *)
BatchFails(r) ==
  /\ Loops(r) /\ Narrows(r)
  /\ UNCHANGED <<published, leaseOf, given, stopping, position, latest, leaseHeld>>

StuckCommitFails(r) ==
  /\ doing[r] = "committing" /\ BreaksAt(r, "commit") /\ BatchFails(r) /\ Unlocked /\ UNCHANGED mishaps
CommitFails(r) ==
  /\ Mishap /\ BatchFails(r)
  /\ \/ doing[r] = "claiming" /\ UNCHANGED row
     \/ doing[r] = "committing" /\ Unlocked
     \/ doing[r] = "committing" /\ ~BreaksAt(r, "commit") /\ Committed(r)

--------------------------------------------------------------------------------
(* stop(), a crash, and rebuilding the read model.                            *)

StopAsked(r) ==
  /\ Mishap /\ doing[r] # "down" /\ ~stopping[r] /\ stopping' = [stopping EXCEPT ![r] = TRUE]
  /\ UNCHANGED <<published, row, leaseOf, given, doing, pages, leaseHeld>>

LoopEnds(r) ==
  /\ doing[r] = "looping" /\ stopping[r] /\ stopping' = [stopping EXCEPT ![r] = FALSE]
  /\ Turns(r, IF leaseHeld[r] THEN "releasing" ELSE "down")
  /\ leaseHeld' = [leaseHeld EXCEPT ![r] = FALSE] /\ Forgets(r)
  /\ UNCHANGED <<published, row, leaseOf, given, mishaps, narrowUntil, latest>>

(* A release that fails leaves the lease to end.                              *)
ReleasesLease(r) ==
  /\ doing[r] = "releasing" /\ Turns(r, "down")
  /\ leaseOf' = leaseOf \/ leaseOf' = (IF leaseOf = r THEN Nobody ELSE leaseOf)
  /\ UNCHANGED <<published, row, given, mishaps, stopping, pages, leaseHeld>>

(* What a task leaves behind that ends where it is: the unit in flight rolls  *)
(* back, or its commit goes through.                                          *)
LeavesBehind(r) ==
  /\ Turns(r, "down") /\ stopping' = [stopping EXCEPT ![r] = FALSE]
  /\ IF rowLock = r
     THEN \/ Unlocked
          \/ doing[r] = "committing" /\ ~BreaksAt(r, "commit") /\ Committed(r)
     ELSE \/ UNCHANGED row
          \/ doing[r] = "loading" /\ RowThere(latest[r])
  /\ IF Asks(r) THEN LeaseAsked(r) ELSE UNCHANGED leaseOf
  /\ Forgets(r) /\ UNCHANGED <<published, given>>

(* The caller of stop() is cancelled, and the task with it.                   *)
StopCancelled(r) ==
  /\ doing[r] # "down" /\ stopping[r] /\ LeavesBehind(r)
  /\ UNCHANGED <<mishaps, narrowUntil, latest, leaseHeld>>

RunnerCrashes(r) ==
  /\ Mishap /\ doing[r] # "down" /\ LeavesBehind(r)
  /\ narrowUntil' = [narrowUntil EXCEPT ![r] = 0] /\ latest' = [latest EXCEPT ![r] = 0]
  /\ leaseHeld' = [leaseHeld EXCEPT ![r] = FALSE]

(* Stop the runners, clear the read model, reset() the checkpoint.            *)
Rebuilds ==
  /\ Mishap /\ \A r \in Runners : doing[r] = "down"
  /\ checkpoint' = 0 /\ readModel' = <<>> /\ origin' = 0
  /\ UNCHANGED <<published, rowLock, leaseOf, given, doing, stopping, pages, leaseHeld>>

--------------------------------------------------------------------------------
RunnerMoves(r) ==
  \/ RunnerStarts(r) \/ HoldsLease(r) \/ LosesLease(r) \/ AcquiresLease(r) \/ StandsBy(r)
  \/ LoadsCheckpoint(r) \/ LoadsAgain(r) \/ ReadsPage(r) \/ ClaimsBatch(r) \/ FindsItMoved(r)
  \/ HandlesPage(r) \/ StuckEventRaises(r) \/ CommitsBatch(r) \/ StuckCommitFails(r)
  \/ LoopEnds(r) \/ ReleasesLease(r)

RunnerFails(r) ==
  RoundFails(r) \/ EventRaises(r) \/ CommitFails(r) \/ StopAsked(r) \/ StopCancelled(r) \/ RunnerCrashes(r)

ProjectionNext ==
  Publishes \/ LeaseEnds \/ Rebuilds \/ \E r \in Runners : RunnerMoves(r) \/ RunnerFails(r)

(* The lease of a runner that is down, or does not know it has it.            *)
LeftLeaseEnds == leaseOf # Nobody /\ (doing[leaseOf] = "down" \/ ~leaseHeld[leaseOf]) /\ LeaseEnds

ProjectionSpec ==
  /\ ProjectionInit /\ [][ProjectionNext]_projectionVars
  /\ \A r \in Runners : WF_projectionVars(RunnerMoves(r))
  /\ WF_projectionVars(LeftLeaseEnds)

--------------------------------------------------------------------------------
(* Properties. *)

ProjectionTypeOK ==
  /\ published \in Nat /\ checkpoint \in Nat \cup {Unknown} /\ readModel \in Seq(Nat) /\ origin \in Nat
  /\ rowLock \in Runners \cup {Nobody} /\ leaseOf \in Runners \cup {Nobody} /\ mishaps \in Nat
  /\ doing \in [Runners -> {"down", "looping", "acquiring", "loading", "reading", "claiming",
                            "superseded", "handling", "committing", "releasing"}]
  /\ stopping \in [Runners -> BOOLEAN] /\ leaseHeld \in [Runners -> BOOLEAN]
  /\ position \in [Runners -> Nat \cup {Unknown}] /\ target \in [Runners -> Nat]
  /\ size \in [Runners -> Nat \ {0}] /\ narrowUntil \in [Runners -> Nat] /\ latest \in [Runners -> Nat]

(* The read model holds every event up to the checkpoint, once and in order:  *)
(* across crashes, commits whose answer is lost, runners that both believe    *)
(* they have the lease, pages cut short and rebuilds.                         *)
AppliedInOrder ==
  readModel = IF checkpoint = Unknown THEN <<>> ELSE Span(origin, checkpoint)

(* In the end the read model has every event, or every event before the one   *)
(* that always fails: a failing batch never holds back the events before the  *)
(* one that breaks it, and no runner waits for good.                          *)
Reachable == IF stuck > origin /\ stuck <= published THEN stuck - 1 ELSE published
CatchesUp == <>[](checkpoint = Reachable)

================================================================================
