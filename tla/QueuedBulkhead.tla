---------------------------- MODULE QueuedBulkhead ----------------------------
(***************************************************************************)
(* The bulkhead with a bounded FIFO of waiting callers.  A waiting caller  *)
(* is a task that awaits, shielded and under a timeout, a future another   *)
(* caller's release sets: between the two the permit is already its own,   *)
(* though its task has not resumed, and may be timed out or cancelled.     *)
(* The module reads no clock: a wait may time out at any moment.           *)
(***************************************************************************)
EXTENDS Integers, Sequences, FiniteSets

CONSTANTS Callers,        \* the tasks that use the bulkhead
          MaxConcurrent,  \* max_concurrent
          MaxWaiters      \* max_waiters

ASSUME BulkheadAssumption ==
  IsFiniteSet(Callers) /\ MaxConcurrent \in Nat \ {0} /\ MaxWaiters \in Nat

VARIABLES
  active,    \* _active
  waiters,   \* _waiters, the callers in the order they came
  closed,    \* _closed
  caller     \* each caller: out, waiting (its future is pending), granted (set,
             \* not resumed), refused (closed, not resumed), holding

bulkheadVars == <<active, waiters, closed, caller>>

BulkheadTypeOK ==
  /\ active \in 0..MaxConcurrent
  /\ waiters \in Seq(Callers) /\ Len(waiters) <= MaxWaiters
  /\ closed \in BOOLEAN
  /\ caller \in [Callers -> {"out", "waiting", "granted", "refused", "holding"}]

BulkheadInit ==
  active = 0 /\ waiters = <<>> /\ closed = FALSE /\ caller = [c \in Callers |-> "out"]

Becomes(c, how) == caller' = [caller EXCEPT ![c] = how]

-------------------------------------------------------------------------------
(* acquire, up to its first await. *)

AcquireAtOnce(c) ==
  /\ caller[c] = "out" /\ ~closed
  /\ waiters = <<>> /\ active < MaxConcurrent
  /\ active' = active + 1 /\ Becomes(c, "holding")
  /\ UNCHANGED <<waiters, closed>>

AcquireWaits(c) ==
  /\ caller[c] = "out" /\ ~closed
  /\ waiters # <<>> \/ active >= MaxConcurrent
  /\ Len(waiters) < MaxWaiters
  /\ waiters' = Append(waiters, c) /\ Becomes(c, "waiting")
  /\ UNCHANGED <<active, closed>>

-------------------------------------------------------------------------------
(* release returns a permit and gives it to the callers that wait longest:    *)
(* as many as there is room for.  Every waiter in the queue has its future    *)
(* pending, for the caller that gives up leaves the queue.                    *)

Room == MaxConcurrent - (active - 1)
Woken == IF closed THEN 0 ELSE IF Len(waiters) < Room THEN Len(waiters) ELSE Room

Released(c, how) ==
  /\ active > 0
  /\ active' = active - 1 + Woken
  /\ waiters' = SubSeq(waiters, Woken + 1, Len(waiters))
  /\ caller' = [d \in Callers |->
                  IF d = c THEN how
                  ELSE IF \E i \in 1..Woken : waiters[i] = d THEN "granted" ELSE caller[d]]
  /\ UNCHANGED closed

(* The rest of acquire: the future was set, and its caller resumes. *)
Resumes(c) ==
  /\ caller[c] = "granted" /\ Becomes(c, "holding")
  /\ UNCHANGED <<active, waiters, closed>>

\* Mutant: the permit of a caller that gave up is lost.
KeepsPermit(c) ==
  caller[c] = "granted" /\ Becomes(c, "out") /\ UNCHANGED <<active, waiters, closed>>

\* Mutant: it is returned, and offered to nobody.
ReturnsQuietly(c) ==
  /\ caller[c] = "granted" /\ active' = active - 1 /\ Becomes(c, "out")
  /\ UNCHANGED <<waiters, closed>>

(* The wait of a caller is timed out or cancelled before it resumed: the      *)
(* permit it was given goes on to the next, or it leaves the queue.           *)
GivesUpGranted(c) == caller[c] = "granted" /\ Released(c, "out")

LeavesQueue(c) ==
  /\ caller[c] = "waiting" /\ Becomes(c, "out")
  /\ \E i \in 1..Len(waiters) :
       /\ waiters[i] = c
       /\ waiters' = [j \in 1..(Len(waiters) - 1) |-> waiters[IF j < i THEN j ELSE j + 1]]
  /\ UNCHANGED <<active, closed>>

(* The future was failed by close, and its caller resumes. *)
HearsRefusal(c) ==
  caller[c] = "refused" /\ Becomes(c, "out") /\ UNCHANGED <<active, waiters, closed>>

Release(c) == caller[c] = "holding" /\ Released(c, "out")

Close ==
  /\ ~closed /\ closed' = TRUE /\ waiters' = <<>>
  /\ caller' = [c \in Callers |-> IF caller[c] = "waiting" THEN "refused" ELSE caller[c]]
  /\ UNCHANGED active

BulkheadStep(c) ==
  \/ AcquireAtOnce(c) \/ AcquireWaits(c) \/ Resumes(c) \/ GivesUpGranted(c)
  \/ LeavesQueue(c) \/ HearsRefusal(c) \/ Release(c)

BulkheadNext == Close \/ \E c \in Callers : BulkheadStep(c)

BulkheadSpec == BulkheadInit /\ [][BulkheadNext]_bulkheadVars

-------------------------------------------------------------------------------
(* Properties. *)

(* No permit is lost and none is made up: those that are active are those     *)
(* held, and those given to a caller that has not resumed.                    *)
PermitsConserved == active = Cardinality({c \in Callers : caller[c] \in {"holding", "granted"}})

(* Nobody waits beside a free permit: the queue fills only while the bulkhead *)
(* is full, whatever timed out or was cancelled between the release that gave *)
(* a permit and the resumption of the caller it was given to.                 *)
NoIdlePermit ==
  \A c \in Callers : caller[c] = "waiting" =>
    /\ ~closed /\ active = MaxConcurrent
    /\ \E i \in 1..Len(waiters) : waiters[i] = c

===============================================================================
