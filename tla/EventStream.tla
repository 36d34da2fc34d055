------------------------------ MODULE EventStream ------------------------------
(***************************************************************************)
(* What a reader of the global stream of an event store may rely on, and   *)
(* what a projection that keeps one number as its place does rely on: the  *)
(* stream grows at its end only, it carries each aggregate's events once,  *)
(* in the order of their sequence, and a reader that is told there is no   *)
(* more has missed nothing.                                                *)
(***************************************************************************)
EXTENDS Naturals, FiniteSets, SequencesExt

VARIABLES
  stream,   \* the events a reader sees, in the order of their positions
  missed    \* the events committed when a reader was told there is no more, and not on it

InOrder(events) ==
  \A i \in DOMAIN events :
    events[i].sequence =
      1 + Cardinality({j \in 1..(i - 1) : events[j].aggregate = events[i].aggregate})

Grows == LET longer == stream' IN IsPrefix(stream, longer) /\ InOrder(longer)

StreamSpec == stream = <<>> /\ [][Grows]_stream /\ [](missed = {})

================================================================================
