------------------------------ MODULE LeaseLock ------------------------------
(***************************************************************************)
(* One lease of the lease table, and the jobs of several nodes that take   *)
(* it.  Every statement of the lock reads the clock first and runs later,  *)
(* in a unit of its own, so the `now` it compares with may be stale when   *)
(* it runs; a hung job is one whose next statement comes late.  An         *)
(* acquisition's locked_by is unique to it: the model names it by the      *)
(* fence it was given, and the row is written <<lock_until, fence>>, with  *)
(* fence 0 while there is no row.                                          *)
(***************************************************************************)
EXTENDS Naturals

CONSTANTS Jobs,      \* the tasks that take the lease
          Nodes,     \* the LeaseLock instances
          Home,      \* the instance each job uses
          Ttl,       \* ttl, the same at every acquisition of one name
          MaxClock,  \* bound on the clock
          MaxFence   \* bound on the acquisitions

ASSUME LeaseAssumption ==
  Home \in [Jobs -> Nodes] /\ Ttl \in Nat \ {0} /\ MaxClock \in Nat /\ MaxFence \in Nat

VARIABLES
  clock,      \* the instant, the same for every node
  until,      \* lock_until of the row
  fence,      \* its fence and locked_by
  held,       \* _held of each node; the fences tell its order
  statement,  \* the statement each job is about to run: what, with which now,
              \* on which acquisition
  trust       \* what each job was told: its acquisition, and until when

leaseVars == <<clock, until, fence, held, statement, trust>>

Entries == [job : Jobs, fence : Nat]
NoStatement == [kind |-> "none", now |-> 0, fence |-> 0]
NoLease == [fence |-> 0, until |-> 0]
Kinds == {"none", "try_acquire", "acquire", "holder", "extend", "release"}

LeaseTypeOK ==
  /\ clock \in Nat /\ until \in Nat /\ fence \in Nat
  /\ held \in [Nodes -> SUBSET Entries]
  /\ statement \in [Jobs -> [kind : Kinds, now : Nat, fence : Nat]]
  /\ trust \in [Jobs -> [fence : Nat, until : Nat]]

LeaseInit ==
  /\ clock = 0 /\ until = 0 /\ fence = 0
  /\ held = [n \in Nodes |-> {}]
  /\ statement = [t \in Jobs |-> NoStatement] /\ trust = [t \in Jobs |-> NoLease]

-------------------------------------------------------------------------------
(* The acquisition of the running task, else the latest. *)

IsLatest(e, entries) == e \in entries /\ \A f \in entries : f.fence <= e.fence

Latest(entries) == CHOOSE e \in entries : IsLatest(e, entries)

OwnEntries(t) == {e \in held[Home[t]] : e.job = t}

\* Mutant: a release ends the lease the instance took last.
LatestEntry(t) == Latest(held[Home[t]])

Entry(t) == IF OwnEntries(t) # {} THEN Latest(OwnEntries(t)) ELSE Latest(held[Home[t]])

Without(e, n) == [held EXCEPT ![n] = held[n] \ {e}]

Prepares(t, kind, f) ==
  statement' = [statement EXCEPT ![t] = [kind |-> kind, now |-> clock, fence |-> f]]

Returns(t) == statement' = [statement EXCEPT ![t] = NoStatement]

Trusts(t, f, end) == trust' = [trust EXCEPT ![t] = [fence |-> f, until |-> end]]

-------------------------------------------------------------------------------
(* try_acquire and acquire: one take; acquire then reads the lease back, and  *)
(* may poll, which is another acquire.                                        *)

TakePrepared(t) ==
  /\ statement[t] = NoStatement /\ trust[t].fence = 0
  /\ \E kind \in {"try_acquire", "acquire"} : Prepares(t, kind, 0)
  /\ UNCHANGED <<clock, until, fence, held, trust>>

Taking(t) == statement[t].kind \in {"try_acquire", "acquire"}

Ended(t) == until <= statement[t].now

Takes(t) ==
  /\ Taking(t) /\ Ended(t) /\ fence < MaxFence
  /\ until' = statement[t].now + Ttl /\ fence' = fence + 1
  /\ held' = [held EXCEPT ![Home[t]] = held[Home[t]] \cup {[job |-> t, fence |-> fence + 1]}]
  /\ IF statement[t].kind = "acquire"
     THEN Prepares(t, "holder", fence + 1) /\ UNCHANGED trust
     ELSE Returns(t) /\ Trusts(t, fence + 1, until')
  /\ UNCHANGED clock

TakeRefused(t) ==
  /\ Taking(t) /\ ~Ended(t) /\ Returns(t)
  /\ UNCHANGED <<clock, until, fence, held, trust>>

(* The statement committed, and its caller was cancelled before it heard. *)
TakesUnheard(t) ==
  /\ Taking(t) /\ Ended(t) /\ fence < MaxFence
  /\ until' = statement[t].now + Ttl /\ fence' = fence + 1 /\ Returns(t)
  /\ UNCHANGED <<clock, held, trust>>

(* The lease read back is its own, or is not kept. *)
Confirmed(t) ==
  /\ statement[t].kind = "holder" /\ Returns(t)
  /\ until > statement[t].now /\ fence = statement[t].fence
  /\ Trusts(t, fence, until)
  /\ UNCHANGED <<clock, until, fence, held>>

Forgotten(t) == Without([job |-> t, fence |-> statement[t].fence], Home[t])

NotKept(t) ==
  /\ statement[t].kind = "holder" /\ Returns(t)
  /\ until <= statement[t].now \/ fence # statement[t].fence
  /\ held' = Forgotten(t)
  /\ UNCHANGED <<clock, until, fence, trust>>

-------------------------------------------------------------------------------
(* extend and release, of a lease the job was given, whether or not it has    *)
(* ended meanwhile.                                                           *)

Mine(t) == fence = statement[t].fence /\ until > statement[t].now

ExtendPrepared(t) ==
  /\ statement[t] = NoStatement /\ trust[t].fence # 0
  /\ Prepares(t, "extend", Entry(t).fence)
  /\ UNCHANGED <<clock, until, fence, held, trust>>

Extends(t) ==
  /\ statement[t].kind = "extend" /\ Mine(t) /\ Returns(t)
  /\ until' = statement[t].now + Ttl
  /\ Trusts(t, statement[t].fence, until') \/ UNCHANGED trust  \* cancelled, it does not hear
  /\ UNCHANGED <<clock, fence, held>>

ExtendRefused(t) ==
  /\ statement[t].kind = "extend" /\ ~Mine(t) /\ Returns(t)
  /\ Trusts(t, trust[t].fence, 0)
  /\ UNCHANGED <<clock, until, fence, held>>

ReleasePrepared(t) ==
  /\ statement[t] = NoStatement /\ trust[t].fence # 0
  /\ held' = Without(Entry(t), Home[t]) /\ Prepares(t, "release", Entry(t).fence)
  /\ Trusts(t, 0, 0)
  /\ UNCHANGED <<clock, until, fence>>

Releases(t) ==
  /\ statement[t].kind = "release" /\ Returns(t)
  /\ until' = IF Mine(t) THEN statement[t].now ELSE until
  /\ UNCHANGED <<clock, fence, held, trust>>

(* The task is cancelled, or its connection fails, before the statement runs: *)
(* an acquisition being read back is forgotten.                               *)
Interrupted(t) ==
  /\ statement[t].kind # "none" /\ Returns(t)
  /\ held' = IF statement[t].kind = "holder" THEN Forgotten(t) ELSE held
  /\ UNCHANGED <<clock, until, fence, trust>>

(* A job ends and leaves its lease to stop, or to its ttl. *)
Abandons(t) ==
  /\ statement[t] = NoStatement /\ trust[t].fence # 0 /\ Trusts(t, 0, 0)
  /\ UNCHANGED <<clock, until, fence, held, statement>>

-------------------------------------------------------------------------------
Of(n) == {t \in Jobs : Home[t] = n}

(* stop: once the jobs have drained, release what is held, the latest first. *)
StopReleases(n) ==
  /\ \A t \in Of(n) : statement[t] = NoStatement /\ trust[t].fence = 0
  /\ \E e \in held[n] :
       /\ IsLatest(e, held[n]) /\ held' = Without(e, n)
       /\ until' = IF fence = e.fence /\ until > clock THEN clock ELSE until
  /\ UNCHANGED <<clock, fence, statement, trust>>

(* The node's process dies: the lease it holds ends at its ttl. *)
NodeCrash(n) ==
  /\ held' = [held EXCEPT ![n] = {}]
  /\ statement' = [t \in Jobs |-> IF Home[t] = n THEN NoStatement ELSE statement[t]]
  /\ trust' = [t \in Jobs |-> IF Home[t] = n THEN NoLease ELSE trust[t]]
  /\ UNCHANGED <<clock, until, fence>>

LeaseTick == clock < MaxClock /\ clock' = clock + 1 /\ UNCHANGED <<until, fence, held, statement, trust>>

LeaseNext ==
  \/ LeaseTick
  \/ \E n \in Nodes : StopReleases(n) \/ NodeCrash(n)
  \/ \E t \in Jobs : \/ TakePrepared(t) \/ Takes(t) \/ TakeRefused(t) \/ TakesUnheard(t)
                     \/ Confirmed(t) \/ NotKept(t)
                     \/ ExtendPrepared(t) \/ Extends(t) \/ ExtendRefused(t)
                     \/ ReleasePrepared(t) \/ Releases(t) \/ Interrupted(t) \/ Abandons(t)

LeaseSpec == LeaseInit /\ [][LeaseNext]_leaseVars

-------------------------------------------------------------------------------
(* Properties. *)

(* The job relies on its lease: it was told that it holds it until later than *)
(* now.                                                                       *)
Relies(t) == trust[t].fence # 0 /\ trust[t].until > clock

(* At most one job relies on the lease, and the row holds it for that job at  *)
(* least as long: not the late release of a hung job, nor a stop, nor a take  *)
(* or an extension decided on a stale now, ends or moves the lease that       *)
(* another acquisition was given.                                             *)
LeaseKept ==
  \A t \in Jobs : Relies(t) =>
    /\ fence = trust[t].fence /\ until >= trust[t].until
    /\ \A u \in Jobs \ {t} : ~Relies(u)

===============================================================================
