------------------------------- MODULE TccEngine -------------------------------
(***************************************************************************)
(* One execution of a TCC: TccEngine.execute and the orchestrator that     *)
(* tries, confirms and cancels the participants, each phase attempt inside *)
(* track_commits, each CANCEL phase shielded from the caller.              *)
(***************************************************************************)
EXTENDS Naturals, Sequences, FiniteSets, SequencesExt

CONSTANTS Order,          \* the participants, in their order
          Optional,       \* those whose TRY may fail
          Cancellable,    \* those that have a cancel method
          TotalAttempts   \* retry + 1, of every phase method

Participants == ToSet(Order)

ASSUME TccAssumption ==
  /\ Order # <<>> /\ Order \in Seq(Participants) /\ IsInjective(Order)
  /\ Optional \subseteq Participants /\ Cancellable \subseteq Participants
  /\ TotalAttempts \in Nat \ {0}

VARIABLES
  phase,       \* what the engine does: try, confirm, cancel, finish
  place,       \* the index in Order of the participant that tries or confirms
  try,         \* the attempt of the phase method that runs
  tried,       \* tried_ids
  todo,        \* the participants the CANCEL phase has left, in that order
  after,       \* what follows the CANCEL phase: continue, fail, raise
  told,        \* the caller cancelled the TCC in its CANCEL phase, or as it finished
  outcome,     \* what the phases came to: success, failed, cancelled
  answer,      \* what execute returned, success or failed, or raised: error, cancelled
  reserved,    \* ghost: how many times each participant's TRY was committed
  confirmed,   \* ghost: how many times its CONFIRM was
  released,    \* ghost: how many times its CANCEL was
  cancelError, \* the participants whose CANCEL raised an exception
  skipped,     \* ghost: those a CANCEL phase broke off at or before
  tccRecord    \* status of the persisted execution

ghosts == <<reserved, confirmed, released>>
tccVars == <<phase, place, try, tried, todo, after, told, outcome, answer, ghosts,
             cancelError, skipped, tccRecord>>

TccTypeOK ==
  /\ phase \in {"new", "try", "confirm", "cancel", "finish", "ended"}
  /\ place \in 1..Len(Order) + 1 /\ try \in 1..TotalAttempts
  /\ tried \in Seq(Participants) /\ todo \in Seq(Participants)
  /\ after \in {"continue", "fail", "raise"} /\ told \in BOOLEAN
  /\ outcome \in {"none", "success", "failed", "cancelled"}
  /\ answer \in {"none", "success", "failed", "error", "cancelled"}
  /\ \A g \in {reserved, confirmed, released} : g \in [Participants -> Nat]
  /\ cancelError \subseteq Participants /\ skipped \subseteq Participants
  /\ tccRecord \in {"absent", "IN_FLIGHT", "COMPLETED", "FAILED"}

TccInit ==
  /\ phase = "new" /\ place = 1 /\ try = 1 /\ tried = <<>> /\ todo = <<>>
  /\ after = "continue" /\ told = FALSE /\ outcome = "none" /\ answer = "none"
  /\ reserved = [p \in Participants |-> 0] /\ confirmed = [p \in Participants |-> 0]
  /\ released = [p \in Participants |-> 0]
  /\ cancelError = {} /\ skipped = {} /\ tccRecord = "absent"

(* on_start and persist_state; or one of them raises, or is cancelled. *)
TccStarts ==
  /\ phase = "new" /\ phase' = "try" /\ tccRecord' = "IN_FLIGHT"
  /\ UNCHANGED <<place, try, tried, todo, after, told, outcome, ghosts, cancelError, skipped>>

TccRefused ==
  /\ phase = "new" /\ phase' = "ended"
  /\ outcome' \in {"failed", "cancelled"} /\ tccRecord' \in {"absent", "IN_FLIGHT"}
  /\ answer' = IF outcome' = "failed" THEN "error" ELSE "cancelled"
  /\ UNCHANGED <<place, try, tried, todo, after, told, ghosts, cancelError, skipped>>

-------------------------------------------------------------------------------
(* Moving from one participant, or one phase, to the next. *)

Concludes(how) == phase' = "finish" /\ outcome' = how

(* The next place, from n on, whose participant takes part in the phase; past *)
(* the last one the phase is over.                                            *)
ConfirmsFrom(n) ==
  LET later == {i \in n..Len(Order) : Contains(tried', Order[i])}
  IN  /\ try' = 1
      /\ IF later = {}
         THEN place' = Len(Order) + 1 /\ Concludes("success")
         ELSE /\ phase' = "confirm" /\ UNCHANGED outcome
              /\ \E i \in later : (\A j \in later : i <= j) /\ place' = i

TriesFrom(n) ==
  IF n > Len(Order) THEN ConfirmsFrom(1)
  ELSE phase' = "try" /\ place' = n /\ try' = 1 /\ UNCHANGED outcome

(* The CANCEL phase of ids, newest first. *)
CancelsThen(ids, next) ==
  /\ phase' = "cancel" /\ after' = next /\ try' = 1 /\ told' = FALSE
  /\ todo' = Reverse(ids)
  /\ UNCHANGED <<place, outcome>>

Current == Order[place]
Did(g, p, yes) == g' = [g EXCEPT ![p] = @ + (IF yes THEN 1 ELSE 0)]
Reserving(took) == Did(reserved, Current, took) /\ UNCHANGED <<confirmed, released>>
Confirming(took) == Did(confirmed, Current, took) /\ UNCHANGED <<reserved, released>>
Releasing(p, took) == Did(released, p, took) /\ UNCHANGED <<reserved, confirmed>>
Also(seen) == tried' = IF seen THEN Append(tried, Current) ELSE tried
\* Mutant: an attempt that may have committed is retried.
RetriesCommitted(seen) == try = TotalAttempts
LastTry(seen) == seen \/ try = TotalAttempts
Again == try' = try + 1 /\ UNCHANGED <<phase, place, todo, after, told, outcome>>
Kept == UNCHANGED <<cancelError, skipped, tccRecord>>

-------------------------------------------------------------------------------
(* The TRY phase.  took: the attempt's work was committed; seen: its tracker  *)
(* reports so, or cannot tell.                                                *)

TrySucceeds ==
  /\ phase = "try"
  /\ Reserving(TRUE) /\ Also(TRUE) /\ TriesFrom(place + 1)
  /\ UNCHANGED <<todo, after, told>> /\ Kept

TryRetried(took, seen) ==
  /\ phase = "try" /\ (took => seen) /\ ~LastTry(seen)
  /\ Reserving(took) /\ Again /\ UNCHANGED tried /\ Kept

TryFails(took, seen) ==
  /\ phase = "try" /\ (took => seen) /\ LastTry(seen) /\ Current \notin Optional
  /\ Reserving(took) /\ Also(seen) /\ CancelsThen(tried', "fail") /\ Kept

\* Mutant: what an optional participant reserved before it failed is kept.
KeepsOptional(took, seen) ==
  /\ phase = "try" /\ (took => seen) /\ LastTry(seen) /\ Current \in Optional
  /\ Reserving(took) /\ UNCHANGED tried /\ Kept
  /\ TriesFrom(place + 1) /\ UNCHANGED <<todo, after, told>>

\* Mutant: a mandatory participant may fail too.
AnyoneOptional(took, seen) ==
  /\ phase = "try" /\ (took => seen) /\ LastTry(seen)
  /\ Reserving(took) /\ UNCHANGED tried /\ Kept
  /\ IF seen THEN CancelsThen(<<Current>>, "continue")
     ELSE TriesFrom(place + 1) /\ UNCHANGED <<todo, after, told>>

OptionalTryFails(took, seen) ==
  /\ phase = "try" /\ (took => seen) /\ LastTry(seen) /\ Current \in Optional
  /\ Reserving(took) /\ UNCHANGED tried /\ Kept
  /\ IF seen THEN CancelsThen(<<Current>>, "continue")
     ELSE TriesFrom(place + 1) /\ UNCHANGED <<todo, after, told>>

(* The caller cancels, or the method ends in a CancelledError of its own; or  *)
(* it does so before a further attempt has done anything.                     *)
TryCancelled(took, seen) ==
  /\ phase = "try" /\ (took => seen)
  /\ Reserving(took) /\ Also(seen) /\ CancelsThen(tried', "raise") /\ Kept

-------------------------------------------------------------------------------
(* The CONFIRM phase. *)

ConfirmSucceeds ==
  /\ phase = "confirm"
  /\ Confirming(TRUE) /\ UNCHANGED tried /\ ConfirmsFrom(place + 1)
  /\ UNCHANGED <<todo, after, told>> /\ Kept

ConfirmRetried(took, seen) ==
  /\ phase = "confirm" /\ (took => seen) /\ ~LastTry(seen)
  /\ Confirming(took) /\ Again /\ UNCHANGED tried /\ Kept

ConfirmFails(took, seen) ==
  /\ phase = "confirm" /\ (took => seen) /\ LastTry(seen)
  /\ Confirming(took) /\ UNCHANGED tried /\ CancelsThen(tried, "fail") /\ Kept

ConfirmCancelled(took) ==
  /\ phase = "confirm"
  /\ Confirming(took) /\ UNCHANGED tried /\ CancelsThen(tried, "raise") /\ Kept

-------------------------------------------------------------------------------
(* The CANCEL phase, in a task of its own. *)

OnlyCancel == UNCHANGED <<phase, place, tried, after, told, outcome, tccRecord>>

Cancelling == phase = "cancel" /\ todo # <<>> /\ Head(todo) \in Cancellable

(* There is no cancel method. *)
CancelSkips ==
  /\ phase = "cancel" /\ todo # <<>> /\ Head(todo) \notin Cancellable
  /\ todo' = Tail(todo) /\ UNCHANGED <<try, ghosts, cancelError, skipped>> /\ OnlyCancel

CancelSucceeds ==
  /\ Cancelling
  /\ Releasing(Head(todo), TRUE) /\ todo' = Tail(todo) /\ try' = 1
  /\ UNCHANGED <<cancelError, skipped>> /\ OnlyCancel

CancelRetried(took, seen) ==
  /\ Cancelling /\ (took => seen) /\ ~LastTry(seen)
  /\ Releasing(Head(todo), took)
  /\ try' = try + 1 /\ UNCHANGED <<todo, cancelError, skipped>> /\ OnlyCancel

CancelFails(took, seen) ==
  /\ Cancelling /\ (took => seen) /\ LastTry(seen)
  /\ Releasing(Head(todo), took) /\ todo' = Tail(todo) /\ try' = 1
  /\ cancelError' = cancelError \cup {Head(todo)} /\ UNCHANGED skipped /\ OnlyCancel

(* The cancel method ends in a CancelledError of its own: it is no Exception, *)
(* and those after it are not cancelled.                                      *)
CancelBreaksOff(took) ==
  /\ Cancelling
  /\ Releasing(Head(todo), took) /\ todo' = <<>> /\ try' = 1
  /\ skipped' = skipped \cup ToSet(todo) /\ UNCHANGED cancelError /\ OnlyCancel

(* The caller cancels the TCC: the phase, or _finish, runs on, and its end is told. *)
CallerCancelsTcc ==
  /\ phase \in {"cancel", "finish"} /\ ~told /\ told' = TRUE
  /\ UNCHANGED <<phase, place, try, tried, todo, after, outcome, ghosts>> /\ Kept

CancelEnds ==
  /\ phase = "cancel" /\ todo = <<>> /\ UNCHANGED <<tried, ghosts>> /\ Kept
  /\ CASE after = "continue" /\ told -> CancelsThen(tried, "raise")
       [] after = "continue" /\ ~told -> TriesFrom(place + 1) /\ UNCHANGED <<todo, after, told>>
       [] OTHER -> /\ Concludes(IF after = "raise" \/ told THEN "cancelled" ELSE "failed")
                   /\ UNCHANGED <<place, try, todo, after, told>>

-------------------------------------------------------------------------------
(* on_completed and mark_completed, shielded, and what execute then returns or *)
(* raises: a cancellation, be it of _finish only, before an error of _finish,  *)
(* and either before the result.                                               *)

Marked == IF outcome = "success" THEN "COMPLETED" ELSE "FAILED"
CancelledByNow == outcome = "cancelled" \/ told
OnlyFinish == UNCHANGED <<place, try, tried, todo, after, told, outcome, ghosts, cancelError, skipped>>

\* Mutant: a cancelled execution is recorded as completed.
FinishesAsCompleted ==
  /\ phase = "finish" /\ phase' = "ended"
  /\ tccRecord' = IF outcome = "failed" THEN "FAILED" ELSE "COMPLETED"
  /\ answer' = IF CancelledByNow THEN "cancelled" ELSE outcome
  /\ OnlyFinish

TccFinishes ==
  /\ phase = "finish" /\ phase' = "ended"
  /\ tccRecord' = Marked
  /\ answer' = IF CancelledByNow THEN "cancelled" ELSE outcome
  /\ OnlyFinish

(* One of the two raises, a CancelledError of its own perhaps; the record may *)
(* be marked all the same.                                                    *)
TccFinishFails ==
  /\ phase = "finish" /\ phase' = "ended"
  /\ tccRecord' \in {tccRecord, Marked}
  /\ answer' \in IF CancelledByNow THEN {"cancelled"} ELSE {"error", "cancelled"}
  /\ OnlyFinish

TryMoves(took, seen) ==
  \/ TryRetried(took, seen) \/ TryFails(took, seen) \/ OptionalTryFails(took, seen)
  \/ TryCancelled(took, seen)

ConfirmMoves(took, seen) ==
  ConfirmRetried(took, seen) \/ ConfirmFails(took, seen) \/ ConfirmCancelled(took)

CancelMoves(took, seen) ==
  CancelRetried(took, seen) \/ CancelFails(took, seen) \/ CancelBreaksOff(took)

TccStep ==
  \/ TccStarts
  \/ TrySucceeds \/ ConfirmSucceeds \/ CancelSucceeds
  \/ \E took, seen \in BOOLEAN :
        TryMoves(took, seen) \/ ConfirmMoves(took, seen) \/ CancelMoves(took, seen)
  \/ CallerCancelsTcc \/ CancelSkips \/ CancelEnds

TccNext ==
  \/ TccStep /\ UNCHANGED answer
  \/ TccRefused \/ TccFinishes \/ TccFinishFails

TccSpec == TccInit /\ [][TccNext]_tccVars

-------------------------------------------------------------------------------
(* Properties. *)

(* A phase of a participant takes effect once at most, however its attempts   *)
(* failed, timed out or were cancelled around their commits, and whatever     *)
(* CANCEL phases follow one another (_invoke_with_retry_and_timeout).         *)
PhasesOnce ==
  \A p \in Participants : reserved[p] <= 1 /\ confirmed[p] <= 1 /\ released[p] <= 1

(* A reservation that its CANCEL, if it was called, must have released. *)
Releasable(p) == reserved[p] = 1 /\ p \in Cancellable \ (cancelError \cup skipped)

(* Every mandatory participant is confirmed; an optional one is confirmed, or *)
(* was never reserved, or was cancelled.                                      *)
AllConfirmed ==
  \A p \in Participants :
    IF Contains(tried, p)
    THEN reserved[p] = 1 /\ confirmed[p] = 1 /\ released[p] = 0
    ELSE p \in Optional /\ confirmed[p] = 0 /\ (Releasable(p) => released[p] = 1)

(* Each reservation that can be cancelled was, or its cancel failed; only a   *)
(* cancel that ends in a CancelledError of its own leaves some uncancelled.   *)
AllReleased == \A p \in Participants : Releasable(p) => released[p] = 1

(* A TCC ends with everything confirmed or everything released, whatever      *)
(* failed or was cancelled where.  What execute returns says which, and so    *)
(* does the record once marked; what it raises does not: a caller that        *)
(* cancels while a confirmed TCC finishes gets a CancelledError, and a        *)
(* failing on_completed or mark_completed its error, and everything stays     *)
(* confirmed.  The docstring of execute (tcc_engine.py:79) says of every      *)
(* CancelledError that the participants were cancelled and the failure        *)
(* recorded: the code does less, and the property says what it does.          *)
AllOrNothing ==
  phase = "ended" =>
    /\ answer = "success" \/ tccRecord = "COMPLETED" => AllConfirmed
    /\ answer = "failed" \/ tccRecord = "FAILED" => AllReleased
    /\ AllConfirmed \/ AllReleased

(* A participant confirms only once everyone mandatory has reserved, and only *)
(* while what was reserved still is: nobody confirms on a reservation that    *)
(* was released, and nobody reserves once one has confirmed.                  *)
ConfirmedTogether ==
  [][ /\ confirmed' # confirmed =>
           \A p \in Participants : IF Contains(tried, p) THEN reserved[p] = 1 /\ released[p] = 0
                                   ELSE p \in Optional
      /\ reserved' # reserved => \A p \in Participants : confirmed[p] = 0 ]_tccVars

===============================================================================
