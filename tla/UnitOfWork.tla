----------------------------- MODULE UnitOfWork -----------------------------
(***************************************************************************)
(* One unit of work on one connection, shared by the task whose boundary   *)
(* opened it and the tasks that one starts.  An operation runs under the   *)
(* unit's guard and takes two steps; everything else the tasks do to the   *)
(* unit happens between their awaits, in one step, while an operation of   *)
(* another task may be in flight.  Ending a NESTED scope takes three: the  *)
(* decision, the operation in a shielded task of its own, and the scope's  *)
(* bookkeeping when its task resumes.                                      *)
(*                                                                         *)
(* The connection keeps, of each savepoint open on it, the writes made in  *)
(* it, over the writes of the transaction itself (scope 0).  A scope is    *)
(* the number of its savepoint: the stack of the savepoints is in the      *)
(* order they opened in, and the innermost one has the largest number.     *)
(***************************************************************************)
EXTENDS Integers, Sequences, SequencesExt

CONSTANTS Root,       \* the task of the boundary that opened the unit
          Children,   \* the tasks started inside it
          MaxScopes   \* bound on the NESTED scopes opened

Tasks == Children \cup {Root}
Free == "free"

ASSUME UowAssumption == Root \notin Children /\ Free \notin Tasks /\ MaxScopes \in Nat

Scopes == 1..MaxScopes
Unmarked == MaxScopes + 1   \* _rollback_only_depth is None

VARIABLES
  status,      \* status; COMPLETING says which way in `ending`
  ending,
  mark,        \* _rollback_only_depth
  depth,       \* savepoint_depth
  poisoned,    \* poisoned
  savepoints,  \* _savepoints, with the task that opened each
  guard,       \* the task whose operation is in flight
  levels,      \* the connection: the writes in each savepoint open on it
  committed,   \* the writes that were committed
  opened,      \* the NESTED scopes opened so far
  pc,          \* where each task is
  frames,      \* the NESTED scopes each task is in, with their _depth
  heldBy,      \* _HELD_SAVEPOINTS of each task
  within,      \* ghost: the scopes a task was started inside
  unforgiven   \* ghost: a participant failed outside every savepoint of its own

uowVars == <<status, ending, mark, depth, poisoned, savepoints, guard, levels, committed,
             opened, pc, frames, heldBy, within, unforgiven>>

Where == {"new", "body", "writing", "opening", "releasing", "release", "released",
          "unreleased", "rolling", "rollback", "rolled", "unrolled", "completing", "done"}

Writes == [by : Tasks, under : SUBSET Scopes]

(* A connection without savepoints, and one with a savepoint more on top.     *)
NoSavepoint == [i \in {0} |-> {}]
Atop(lower, s) == [i \in DOMAIN lower \cup {s} |-> IF i = s THEN {} ELSE lower[i]]

UowTypeOK ==
  /\ status \in {"ACTIVE", "COMPLETING", "COMMITTED", "ROLLED_BACK", "UNKNOWN"}
  /\ ending \in {"", "commit", "rollback"}
  /\ mark \in 0..Unmarked /\ depth \in 0..MaxScopes /\ opened \in 0..MaxScopes
  /\ poisoned \in BOOLEAN /\ unforgiven \in BOOLEAN
  /\ savepoints \subseteq [id : Scopes, owner : Tasks]
  /\ guard \in Tasks \cup {Free}
  /\ levels \in [DOMAIN levels -> SUBSET Writes] /\ 0 \in DOMAIN levels
  /\ DOMAIN levels \subseteq 0..MaxScopes
  /\ committed \subseteq Writes
  /\ pc \in [Tasks -> Where]
  /\ frames \in [Tasks -> Seq([id : Scopes, depth : Scopes])]
  /\ heldBy \in [Tasks -> SUBSET Scopes] /\ within \in [Tasks -> SUBSET Scopes]

UowInit ==
  /\ status = "ACTIVE" /\ ending = "" /\ mark = Unmarked /\ depth = 0 /\ poisoned = FALSE
  /\ savepoints = {} /\ guard = Free /\ levels = NoSavepoint
  /\ committed = {} /\ opened = 0 /\ unforgiven = FALSE
  /\ pc = [t \in Tasks |-> IF t = Root THEN "body" ELSE "new"]
  /\ frames = [t \in Tasks |-> <<>>]
  /\ heldBy = [t \in Tasks |-> {}] /\ within = [t \in Tasks |-> {}]

-------------------------------------------------------------------------------
(* The unit's own operations.                                                 *)

Completed == status # "ACTIVE"
RollbackOnly == mark # Unmarked
MarkedWithin(d) == RollbackOnly /\ mark >= d

(* set_rollback_only, at the depth d. *)
Marked(d) == IF d < mark THEN d ELSE mark

(* savepoint_rolled_back forgets a mark set inside the savepoint. *)
Forgiven(d) == IF MarkedWithin(d) THEN Unmarked ELSE mark

Closed(ids) == {e \in savepoints : e.id \notin ids}

(* e belongs to a live task other than t that did not start t inside it. *)
Foreign(e, t) == pc[e.owner] # "done" /\ e.id \notin heldBy[t]

\* Mutant: a task's operations run inside another task's savepoint.
WhateverIsOpen(t) == status = "ACTIVE"

Innermost(e) == \A f \in savepoints : f.id <= e.id

(* check_usable and check_savepoint_owner. *)
Usable(t) ==
  /\ status = "ACTIVE"
  /\ \A e \in savepoints : Innermost(e) => ~Foreign(e, t)

\* Mutant: the unit commits whoever holds a savepoint on it.
NobodyHolds == FALSE

(* savepoint_holder, asked by the boundary's task. *)
HeldElsewhere == \E e \in savepoints : Foreign(e, Root)

(* savepoint_holder_above: a task that holds a savepoint on top of s. *)
HeldAbove(s, t) ==
  \E e, f \in savepoints : e.id = s /\ f.id > s /\ Foreign(f, t)

-------------------------------------------------------------------------------
(* Tasks and their operations.                                                *)

Goes(t, where) == pc' = [pc EXCEPT ![t] = where]
Scope(t) == Last(frames[t])
Leaves(t) == frames' = [frames EXCEPT ![t] = Front(frames[t])]
Under(t) == within[t] \cup {frames[t][i].id : i \in DOMAIN frames[t]}

(* A write of t: the open scopes t is in, or was started inside.              *)
Write(t) == [by |-> t, under |-> Under(t) \cap DOMAIN levels]

unitState == <<status, ending, mark, depth, poisoned, savepoints>>
connection == <<levels, committed>>
ghosts == <<within, unforgiven>>

Starts(t, c) ==
  /\ pc[t] = "body" /\ pc[c] = "new" /\ Goes(c, "body")
  /\ heldBy' = [heldBy EXCEPT ![c] = heldBy[t]]
  /\ within' = [within EXCEPT ![c] = Under(t)]
  /\ UNCHANGED <<unitState, guard, connection, opened, frames, unforgiven>>

TaskEnds(t) ==
  /\ t # Root /\ pc[t] = "body" /\ frames[t] = <<>> /\ Goes(t, "done")
  /\ UNCHANGED <<unitState, guard, connection, opened, frames, heldBy, ghosts>>

OperationBegins(t, from, to) ==
  /\ pc[t] = from /\ guard = Free /\ Usable(t)
  /\ guard' = t /\ Goes(t, to)
  /\ UNCHANGED <<unitState, connection, opened, frames, heldBy, ghosts>>

WriteBegins(t) == OperationBegins(t, "body", "writing")

WriteRuns(t) ==
  /\ pc[t] = "writing" /\ guard' = Free /\ Goes(t, "body")
  /\ levels' = [levels EXCEPT ![Max(DOMAIN levels)] = @ \cup {Write(t)}]
  /\ UNCHANGED <<unitState, committed, opened, frames, heldBy, ghosts>>

(* A failed statement marks the unit at the current depth. *)
StatementFails(t) ==
  /\ pc[t] \in {"writing", "opening"} /\ guard' = Free /\ Goes(t, "body")
  /\ mark' = Marked(depth)
  /\ UNCHANGED <<status, ending, depth, poisoned, savepoints, connection, opened, frames,
                 heldBy, ghosts>>

(* A cancellation lands while the operation is in flight. *)
OperationCancelled(t) ==
  /\ pc[t] \in {"writing", "opening"} /\ guard' = Free /\ Goes(t, "body")
  /\ poisoned' = TRUE
  /\ UNCHANGED <<status, ending, mark, depth, savepoints, connection, opened, frames,
                 heldBy, ghosts>>

(* A boundary that joined the unit exits with an exception: one its rules     *)
(* roll back, or a cancellation, which poisons the unit too.                  *)
ParticipantFails(t) ==
  /\ pc[t] = "body" /\ ~Completed
  /\ mark' = Marked(depth)
  /\ \/ UNCHANGED poisoned
     \/ poisoned' = TRUE
  /\ unforgiven' = (unforgiven \/ Under(t) = {})
  /\ UNCHANGED <<status, ending, depth, savepoints, guard, connection, opened, pc, frames,
                 heldBy, within>>

-------------------------------------------------------------------------------
(* A NESTED scope opens.                                                      *)

NestedBegins(t) == opened < MaxScopes /\ OperationBegins(t, "body", "opening")

NestedOpens(t) ==
  /\ pc[t] = "opening" /\ guard' = Free /\ Goes(t, "body")
  /\ opened' = opened + 1 /\ depth' = depth + 1
  /\ levels' = Atop(levels, opened')
  /\ savepoints' = savepoints \cup {[id |-> opened', owner |-> t]}
  /\ heldBy' = [heldBy EXCEPT ![t] = @ \cup {opened'}]
  /\ frames' = [frames EXCEPT ![t] = Append(@, [id |-> opened', depth |-> depth'])]
  /\ UNCHANGED <<status, ending, mark, poisoned, committed, ghosts>>

-------------------------------------------------------------------------------
(* A NESTED scope ends.  In a poisoned unit it only counts itself out; it     *)
(* refuses to end across the savepoint of another task; else it rolls back    *)
(* to its savepoint, when its body failed or a mark was set inside it, or     *)
(* releases it.                                                               *)

ScopeEnding(t) == pc[t] = "body" /\ frames[t] # <<>>

Blocked(t) ==
  ~Completed /\ (\/ \A e \in savepoints : e.id # Scope(t).id
                 \/ HeldAbove(Scope(t).id, t))

EndsPoisoned(t) ==
  /\ ScopeEnding(t) /\ Leaves(t)
  /\ poisoned' = TRUE
  /\ depth' = Scope(t).depth - 1 /\ mark' = Marked(depth')
  /\ savepoints' = Closed({Scope(t).id})
  /\ UNCHANGED <<status, ending, guard, connection, opened, pc, heldBy, ghosts>>

EndRefused(t) ==
  /\ ScopeEnding(t) /\ ~poisoned /\ Blocked(t) /\ Leaves(t)
  /\ mark' = 0
  /\ depth' = IF HeldAbove(Scope(t).id, t) \/ depth < Scope(t).depth THEN depth
              ELSE Scope(t).depth - 1
  /\ UNCHANGED <<status, ending, poisoned, savepoints, guard, connection, opened, pc,
                 heldBy, ghosts>>

NestedReturns(t) ==
  /\ ScopeEnding(t) /\ ~poisoned /\ ~Blocked(t) /\ ~MarkedWithin(Scope(t).depth)
  /\ Goes(t, "releasing")
  /\ UNCHANGED <<unitState, guard, connection, opened, frames, heldBy, ghosts>>

NestedFails(t) ==
  /\ ScopeEnding(t) /\ ~poisoned /\ ~Blocked(t) /\ Goes(t, "rolling")
  /\ depth' = Scope(t).depth - 1
  /\ UNCHANGED <<status, ending, mark, poisoned, savepoints, guard, connection, opened,
                 frames, heldBy, ghosts>>

-------------------------------------------------------------------------------
(* The release and the rollback, each in a task of its own that inherited     *)
(* what t holds.                                                              *)

From(s) == {i \in DOMAIN levels : i >= s}
WritesFrom(s) == UNION {levels[i] : i \in From(s)}
Below(s) == Restrict(levels, DOMAIN levels \ From(s))

ReleaseBegins(t) == OperationBegins(t, "releasing", "release")
RollbackBegins(t) == OperationBegins(t, "rolling", "rollback")

ReleaseRuns(t) ==
  LET s == Scope(t).id
  IN  /\ pc[t] = "release" /\ guard' = Free /\ Goes(t, "released")
      /\ levels' = [Below(s) EXCEPT ![Max(DOMAIN Below(s))] = @ \cup WritesFrom(s)]
      /\ savepoints' = Closed(From(s))
      /\ UNCHANGED <<status, ending, mark, depth, poisoned, committed, opened, frames,
                     heldBy, ghosts>>

(* The flush a release runs fails, at the scope's depth: the session rolls    *)
(* the savepoint back and leaves it open.                                     *)
ReleaseFails(t) ==
  LET s == Scope(t).id
  IN  /\ pc[t] = "release" /\ guard' = Free /\ Goes(t, "unreleased")
      /\ mark' = Marked(depth)
      /\ levels' = Atop(Below(s), s)
      /\ savepoints' = Closed(From(s) \ {s})
      /\ UNCHANGED <<status, ending, depth, poisoned, committed, opened, frames,
                     heldBy, ghosts>>

RolledBack(t) ==
  LET s == Scope(t).id
  IN  /\ pc[t] = "rollback" /\ guard' = Free /\ Goes(t, "rolled")
      /\ levels' = Below(s) /\ savepoints' = Closed(From(s))
      /\ UNCHANGED <<status, ending, mark, depth, poisoned, committed, opened, frames,
                     heldBy, ghosts>>

(* Either is refused when the unit completed, or another task holds the       *)
(* innermost savepoint by the time it has the guard.                          *)
EndingRefused(t) ==
  /\ guard = Free /\ ~Usable(t)
  /\ \/ pc[t] = "releasing" /\ Goes(t, "unreleased")
     \/ pc[t] = "rolling" /\ Goes(t, "unrolled")
  /\ UNCHANGED <<unitState, guard, connection, opened, frames, heldBy, ghosts>>

-------------------------------------------------------------------------------
(* The scope's task resumes.                                                  *)

ScopeLeft(t) ==
  /\ Leaves(t) /\ Goes(t, "body") /\ savepoints' = Closed({Scope(t).id})
  /\ UNCHANGED <<status, ending, poisoned, guard, connection, opened, heldBy, ghosts>>

AfterRelease(t) ==
  /\ pc[t] = "released" /\ ScopeLeft(t)
  /\ depth' = Scope(t).depth - 1 /\ UNCHANGED mark

AfterFailedRelease(t) ==
  /\ pc[t] = "unreleased" /\ depth' = Scope(t).depth - 1
  /\ IF Completed THEN ScopeLeft(t) /\ UNCHANGED mark
     ELSE IF poisoned
     THEN /\ Leaves(t) /\ Goes(t, "body") /\ mark' = Marked(depth')
          /\ UNCHANGED <<status, ending, poisoned, savepoints, guard, connection, opened,
                         heldBy, ghosts>>
     ELSE /\ Goes(t, "rolling")
          /\ UNCHANGED <<status, ending, mark, poisoned, savepoints, guard, connection,
                         opened, frames, heldBy, ghosts>>

AfterRollback(t) ==
  /\ pc[t] = "rolled" /\ ScopeLeft(t)
  /\ mark' = Forgiven(Scope(t).depth) /\ UNCHANGED depth

AfterRefusedRollback(t) ==
  /\ pc[t] = "unrolled" /\ ScopeLeft(t)
  /\ mark' = (IF Completed THEN mark ELSE Marked(depth)) /\ UNCHANGED depth

-------------------------------------------------------------------------------
(* The boundary that owns the unit ends: it rolls back when its body failed,  *)
(* the unit is rollback-only or poisoned, or another task holds a savepoint.  *)

BoundaryEnds(way) ==
  /\ pc[Root] = "body" /\ frames[Root] = <<>> /\ ~Completed
  /\ status' = "COMPLETING" /\ ending' = way /\ Goes(Root, "completing")
  /\ UNCHANGED <<depth, savepoints, guard, connection, opened, frames, heldBy, ghosts>>

BoundaryReturns ==
  /\ BoundaryEnds(IF RollbackOnly \/ poisoned \/ HeldElsewhere THEN "rollback" ELSE "commit")
  /\ mark' = (IF ~RollbackOnly /\ ~poisoned /\ HeldElsewhere THEN 0 ELSE mark)
  /\ UNCHANGED poisoned

BoundaryFails ==
  /\ BoundaryEnds("rollback") /\ UNCHANGED mark
  /\ \/ UNCHANGED poisoned
     \/ poisoned' = TRUE

(* commit or rollback, then release, once the operation in flight is over.    *)
UnitEnds(how, writes) ==
  /\ status = "COMPLETING" /\ guard = Free
  /\ status' = how /\ committed' = writes
  /\ levels' = NoSavepoint /\ savepoints' = {}
  /\ Goes(Root, "done")
  /\ UNCHANGED <<ending, mark, depth, poisoned, guard, opened, frames, heldBy, ghosts>>

Everything == UNION {levels[i] : i \in DOMAIN levels}

Commits == ending = "commit" /\ UnitEnds("COMMITTED", Everything)
CommitInterrupted == ending = "commit" /\ \E w \in {{}, Everything} : UnitEnds("UNKNOWN", w)
RollsBack == UnitEnds("ROLLED_BACK", {})   \* or the commit fails

UowNext ==
  \/ BoundaryReturns \/ BoundaryFails \/ Commits \/ CommitInterrupted \/ RollsBack
  \/ \E t \in Tasks :
       \/ \E c \in Children : Starts(t, c)
       \/ TaskEnds(t) \/ WriteBegins(t) \/ WriteRuns(t) \/ StatementFails(t)
       \/ OperationCancelled(t) \/ ParticipantFails(t)
       \/ NestedBegins(t) \/ NestedOpens(t) \/ EndsPoisoned(t) \/ EndRefused(t)
       \/ NestedReturns(t) \/ NestedFails(t)
       \/ ReleaseBegins(t) \/ RollbackBegins(t) \/ ReleaseRuns(t) \/ ReleaseFails(t)
       \/ RolledBack(t) \/ EndingRefused(t)
       \/ AfterRelease(t) \/ AfterFailedRelease(t) \/ AfterRollback(t)
       \/ AfterRefusedRollback(t)

UowSpec == UowInit /\ [][UowNext]_uowVars

-------------------------------------------------------------------------------
(* Properties. *)

(* Neither poisoned nor marked outside every savepoint, which nothing takes   *)
(* back.                                                                      *)
MayCommit == ~poisoned /\ mark # 0

(* In a unit that may still commit, a savepoint's rollback undoes only the     *)
(* work of its own scope: a write that another task made, and was told had    *)
(* succeeded, is never undone with it.                                        *)
UndoneByOwnScope ==
  [][\A w \in Everything \ Everything' :
       status' = status /\ MayCommit => \E t \in Tasks : pc[t] # pc'[t] /\ Scope(t).id \in w.under]_uowVars

(* A commit never takes the work of a NESTED scope that has not ended: its    *)
(* task may still fail, and could no longer undo it.                          *)
OpenScopeNeverCommitted ==
  \A t \in Tasks, w \in committed :
    \A i \in DOMAIN frames[t] : pc[t] # "released" => frames[t][i].id \notin w.under

(* A participant that failed, outside every savepoint of its own, rolls the   *)
(* unit back, whatever else its tasks do.                                     *)
FailedParticipantRollsBack == unforgiven => status # "COMMITTED"

===============================================================================
