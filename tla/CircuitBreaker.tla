---------------------------- MODULE CircuitBreaker ----------------------------
(***************************************************************************)
(* The circuit breaker and the calls the decorator guards with it.  Each   *)
(* method takes the lock, so it is one step; a call is in flight between   *)
(* its before_call and the report of its outcome, in whatever state the    *)
(* breaker has come to be by then.                                         *)
(***************************************************************************)
EXTENDS Naturals, Sequences, FiniteSets

CONSTANTS Calls,             \* the callers; each makes one call at a time
          FailureThreshold,  \* failure_threshold
          RecoveryTimeout,   \* recovery_timeout, in ticks
          RateWindow,        \* window_size
          RateFailures,      \* failures in a full window that trip the breaker
          HalfOpenMax        \* half_open_max_calls, 1 at least

ASSUME BreakerAssumption ==
  /\ IsFiniteSet(Calls)
  /\ FailureThreshold \in Nat \ {0} /\ HalfOpenMax \in Nat \ {0}
  /\ RecoveryTimeout \in Nat /\ RateWindow \in Nat \ {0} /\ RateFailures \in Nat

VARIABLES
  byRate,     \* whether failure_rate_threshold is set; the window is kept if it is
  breaker,    \* _state: CLOSED, OPEN, HALF_OPEN
  failures,   \* _failures, up to the threshold
  window,     \* _window
  age,        \* time since _opened_at, up to the timeout
  probes,     \* _half_open_calls
  successes,  \* _half_open_successes
  inFlight,   \* the calls admitted and not ended
  trials,     \* ghost: those of them admitted since the breaker was half open
  leaked,     \* ghost: trials that ended without a report
  late        \* ghost: successes of other calls, counted as of trials

breakerVars == <<byRate, breaker, failures, window, age, probes, successes, inFlight, trials,
                 leaked, late>>
ghostVars == <<trials, leaked, late>>

BreakerTypeOK ==
  /\ byRate \in BOOLEAN /\ breaker \in {"CLOSED", "OPEN", "HALF_OPEN"}
  /\ failures \in 0..FailureThreshold /\ age \in 0..RecoveryTimeout
  /\ window \in Seq(BOOLEAN) /\ Len(window) <= RateWindow
  /\ probes \in 0..HalfOpenMax /\ successes \in 0..HalfOpenMax
  /\ inFlight \subseteq Calls /\ trials \subseteq inFlight
  /\ leaked \in 0..HalfOpenMax /\ late \in 0..HalfOpenMax

BreakerInit ==
  /\ byRate \in BOOLEAN
  /\ breaker = "CLOSED" /\ failures = 0 /\ window = <<>> /\ age = 0
  /\ probes = 0 /\ successes = 0 /\ inFlight = {} /\ trials = {} /\ leaked = 0 /\ late = 0

-------------------------------------------------------------------------------
(* _maybe_half_open, then the decision of before_call. *)

Recovered == breaker = "OPEN" /\ age = RecoveryTimeout

HalfOpens == Recovered \/ breaker = "HALF_OPEN"

\* Mutant: the probe budget is checked one too late.
OneProbeMore == (IF Recovered THEN 0 ELSE probes) <= HalfOpenMax

ProbeBudget == (IF Recovered THEN 0 ELSE probes) < HalfOpenMax

Admitted(c) ==
  /\ c \notin inFlight /\ breaker = "CLOSED"
  /\ inFlight' = inFlight \cup {c}
  /\ UNCHANGED <<breaker, failures, window, age, probes, successes, ghostVars>>

AdmittedAsTrial(c) ==
  /\ c \notin inFlight /\ HalfOpens /\ ProbeBudget
  /\ breaker' = "HALF_OPEN" /\ inFlight' = inFlight \cup {c}
  /\ probes' = (IF Recovered THEN 0 ELSE probes) + 1
  /\ IF Recovered
     THEN successes' = 0 /\ trials' = {c} /\ leaked' = 0 /\ late' = 0
     ELSE trials' = trials \cup {c} /\ UNCHANGED <<successes, leaked, late>>
  /\ UNCHANGED <<failures, window, age>>

(* Reading the state alone moves an OPEN breaker past its timeout. *)
StateRead ==
  /\ Recovered /\ breaker' = "HALF_OPEN"
  /\ probes' = 0 /\ successes' = 0 /\ trials' = {} /\ leaked' = 0 /\ late' = 0
  /\ UNCHANGED <<failures, window, age, inFlight>>

-------------------------------------------------------------------------------
(* The outcome of a call: on_success, on_failure, or no report at all.        *)

Seen(ok) ==
  LET w == Append(window, ok)
  IN  IF ~byRate THEN <<>>
      ELSE IF Len(w) > RateWindow THEN Tail(w) ELSE w

Tripped(count, w) ==
  IF ~byRate THEN count >= FailureThreshold
  ELSE Len(w) = RateWindow
       /\ Cardinality({i \in DOMAIN w : ~w[i]}) >= RateFailures

CallEnds(c) == inFlight' = inFlight \ {c} /\ trials' = trials \ {c}

Succeeds(c) ==
  /\ c \in inFlight /\ CallEnds(c)
  /\ IF breaker = "HALF_OPEN"
     THEN IF successes + 1 >= HalfOpenMax
          THEN /\ breaker' = "CLOSED" /\ failures' = 0 /\ window' = <<>>
               /\ probes' = 0 /\ successes' = 0 /\ leaked' = 0 /\ late' = 0
          ELSE /\ successes' = successes + 1 /\ window' = Seen(TRUE)
               /\ late' = late + (IF c \in trials THEN 0 ELSE 1)
               /\ UNCHANGED <<breaker, failures, probes, leaked>>
     ELSE /\ failures' = 0 /\ window' = Seen(TRUE)
          /\ UNCHANGED <<breaker, probes, successes, leaked, late>>
  /\ UNCHANGED age

(* A failure reopens a half-open breaker, and stamps anew one that is open. *)
Fails(c) ==
  /\ c \in inFlight /\ CallEnds(c)
  /\ failures' = IF failures < FailureThreshold THEN failures + 1 ELSE failures
  /\ window' = Seen(FALSE)
  /\ IF breaker = "HALF_OPEN" \/ Tripped(failures + 1, window')
     THEN breaker' = "OPEN" /\ age' = 0
     ELSE UNCHANGED <<breaker, age>>
  /\ UNCHANGED <<probes, successes, leaked, late>>

(* It is cancelled, or raises an exception that is not expected. *)
Vanishes(c) ==
  /\ c \in inFlight /\ CallEnds(c)
  /\ leaked' = IF breaker = "HALF_OPEN" /\ c \in trials THEN leaked + 1 ELSE leaked
  /\ UNCHANGED <<breaker, failures, window, age, probes, successes, late>>

Ages ==
  /\ age < RecoveryTimeout /\ breaker = "OPEN" /\ age' = age + 1
  /\ UNCHANGED <<breaker, failures, window, probes, successes, inFlight, ghostVars>>

BreakerStep ==
  \/ Ages \/ StateRead
  \/ \E c \in Calls : \/ Admitted(c) \/ AdmittedAsTrial(c)
                      \/ Succeeds(c) \/ Fails(c) \/ Vanishes(c)

BreakerNext == BreakerStep /\ UNCHANGED byRate

BreakerSpec == BreakerInit /\ [][BreakerNext]_breakerVars

-------------------------------------------------------------------------------
(* Properties. *)

(* A half-open breaker that rejects every call is about to move: some trial   *)
(* is in flight, and its report closes or reopens it.  Only trials that were  *)
(* cancelled, or raised an exception the breaker does not expect, leave it    *)
(* rejecting calls with nothing in flight to end that; the success of a call  *)
(* of an earlier time, counted as of a trial, never does.                     *)
MovesOn ==
  breaker = "HALF_OPEN" =>
    /\ Cardinality(trials) <= HalfOpenMax
    /\ probes = HalfOpenMax /\ leaked = 0 => trials # {}

(* An open circuit closes on no fewer than half_open_max_calls successes      *)
(* reported since it was half open, of trials but for the late ones.          *)
ProbesAccounted ==
  breaker = "HALF_OPEN" =>
    probes + late = Cardinality(trials) + successes + leaked

===============================================================================
