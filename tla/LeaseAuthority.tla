--------------------------- MODULE LeaseAuthority ---------------------------
(***************************************************************************)
(* The issuer registry of close-gate leases                                *)
(* (phase2/close_gate/lease.py) for one issued lease.                      *)
(*                                                                         *)
(* A lease owns four operating-system resources.  Threads use it through   *)
(* long "usage" callbacks, exclusive "io" callbacks and short rechecks of  *)
(* the held source handle; any thread may close it.  Everything happens    *)
(* under one condition variable, except the callbacks, the measurement of  *)
(* a recheck and the release of the resources, which run outside it.  An   *)
(* action here is one critical section of the condition (or of the         *)
(* registry's own lock), so every interleaving of the code is a behaviour. *)
(*                                                                         *)
(* A thread that waits on the condition is an action that is not enabled.  *)
(* A callback may nest an io session in a usage (the hash of a confirmed   *)
(* source does) and a recheck in either; it never closes its own lease (it *)
(* would wait for itself), the discipline of every caller in the package.  *)
(***************************************************************************)
EXTENDS Naturals, FiniteSets, Sequences

CONSTANTS
    Threads,        \* threads that share the lease
    MaxOps          \* bound: calls a thread makes on the lease

ASSUME ThreadsFinite == IsFiniteSet(Threads)
ASSUME MaxOpsNat == MaxOps \in Nat

\* What a lease owns, in the order _OwnedGateResources.close frees it.
Resources == <<"source_ownership", "source_handle", "path_lock", "project_lock">>

\* Where a thread is: between calls (outside the lease or in a callback of its
\* session), about to enter a critical section, waiting, or in a long step.
Entering == {"usage_enter", "io_enter", "recheck_enter", "close_enter"}
Rechecking == {"recheck", "publish", "leave"}
Closing == {"wait_usages", "wait_closer", "wait_rest", "release", "finish"}
Locations == {"idle", "pop"} \cup Entering \cup Rechecking \cup Closing

\* A tuple of CloseGateDiagnostic: empty or not; "unset" is Python's None.
Diagnostics == {"unset", "clean", "faulty"}

Outcomes == {"none", "refused", "ok", "failed", "cancelled", "closed"}

VARIABLES
    registered,         \* the registry still maps the token to the record
    lease_state,        \* record.state
    close_requested,    \* record.close_requested
    close_diagnostics,  \* record.close_diagnostics
    close_result,       \* lease._close_result
    active_rechecks,    \* record.active_rechecks
    active_usages,      \* record.active_usages
    io_active,          \* record.io_active
    released,           \* resources freed, in the order it happened
    failures,           \* diagnostics _OwnedGateResources.close has collected
    place,              \* where each thread is
    session,            \* the callbacks each thread is inside of
    outcome,            \* what the last call of each thread returned
    reported,           \* the diagnostics close returned to each thread
    ops,                \* calls each thread has made
    cancelled_tokens,   \* threads whose cancellation token is cancelled
    commit_sequence     \* CancellationToken._commit_sequence of each thread's token

record == <<registered, lease_state, close_requested, close_diagnostics, close_result>>
counters == <<active_rechecks, active_usages, io_active>>
resources == <<released, failures>>
tokens == <<cancelled_tokens, commit_sequence>>
threads == <<place, session, outcome, reported, ops>>
leaseVars == <<record, counters, resources, tokens, threads>>

LeaseTypeOK ==
    /\ registered \in BOOLEAN
    /\ lease_state \in {"open", "closing", "closed"}
    /\ close_requested \in BOOLEAN
    /\ close_diagnostics \in Diagnostics
    /\ close_result \in Diagnostics
    /\ active_rechecks \in Nat
    /\ active_usages \in Nat
    /\ io_active \in BOOLEAN
    /\ released \in Seq({Resources[i] : i \in 1 .. 4})
    /\ failures \in Diagnostics
    /\ place \in [Threads -> Locations]
    /\ session \in [Threads -> SUBSET {"usage", "io"}]
    /\ outcome \in [Threads -> Outcomes]
    /\ reported \in [Threads -> Diagnostics]
    /\ ops \in [Threads -> Nat]
    /\ cancelled_tokens \subseteq Threads
    /\ commit_sequence \in [Threads -> Nat]

----------------------------------------------------------------------------
(* _issue_close_gate_lease: the gate has committed and hands over all four *)
(* resources.                                                              *)

LeaseInit ==
    /\ registered = TRUE
    /\ lease_state = "open"
    /\ close_requested = FALSE
    /\ close_diagnostics = "clean"
    /\ close_result = "unset"
    /\ active_rechecks = 0
    /\ active_usages = 0
    /\ io_active = FALSE
    /\ released = <<>>
    /\ failures = "clean"
    /\ place = [t \in Threads |-> "idle"]
    /\ session = [t \in Threads |-> {}]
    /\ outcome = [t \in Threads |-> "none"]
    /\ reported = [t \in Threads |-> "unset"]
    /\ ops = [t \in Threads |-> 0]
    /\ cancelled_tokens = {}
    /\ commit_sequence = [t \in Threads |-> 0]

----------------------------------------------------------------------------
(* Helpers.                                                                *)

Moves(t, l) == place' = [place EXCEPT ![t] = l]

\* The call of t ends with result r.
Return(t, r) == Moves(t, "idle") /\ outcome' = [outcome EXCEPT ![t] = r]

\* begin_irreversible_commit: a permit, unless the token was cancelled before.
BeginCommit(t) ==
    /\ t \notin cancelled_tokens
    /\ commit_sequence' = [commit_sequence EXCEPT ![t] = @ + 1]
    /\ UNCHANGED cancelled_tokens

MayNest(t, call) ==
    CASE call = "usage_enter"   -> session[t] = {}
      [] call = "io_enter"      -> "io" \notin session[t]
      [] call = "recheck_enter" -> TRUE
      [] call = "close_enter"   -> session[t] = {}

----------------------------------------------------------------------------
(* Every call first looks its record up under the registry's lock; after   *)
(* that it keeps the record, even when a closer removes it meanwhile.      *)

LookUp(t, call) ==
    /\ place[t] = "idle"
    /\ ops[t] < MaxOps
    /\ MayNest(t, call)
    /\ registered
    /\ ops' = [ops EXCEPT ![t] = @ + 1]
    /\ Moves(t, call)
    /\ UNCHANGED <<record, counters, resources, tokens, session, outcome, reported>>

\* The record is gone: a use is refused, a recheck reports closed and a close
\* returns what the finished close left on the lease.
LookUpGone(t, call) ==
    /\ place[t] = "idle"
    /\ ops[t] < MaxOps
    /\ MayNest(t, call)
    /\ ~registered
    /\ ops' = [ops EXCEPT ![t] = @ + 1]
    /\ Return(t, IF call \in {"usage_enter", "io_enter"} THEN "refused" ELSE "closed")
    /\ reported' = IF call = "close_enter" THEN [reported EXCEPT ![t] = close_result]
                                           ELSE reported
    /\ UNCHANGED <<record, counters, resources, tokens, session>>

----------------------------------------------------------------------------
(* run_usage                                                               *)

UsageAvailable(t) ==
    /\ lease_state = "open"
    /\ ~close_requested
    /\ t \notin cancelled_tokens
    /\ released = <<>>

\* Mutant: the usage is not counted.
EnterUsage_Uncounted(t) ==
    /\ place[t] = "usage_enter"
    /\ UsageAvailable(t)
    /\ session' = [session EXCEPT ![t] = @ \cup {"usage"}]
    /\ Moves(t, "idle")
    /\ UNCHANGED <<record, counters, resources, tokens, outcome, reported, ops>>

EnterUsage(t) ==
    /\ place[t] = "usage_enter"
    /\ UsageAvailable(t)
    /\ active_usages' = active_usages + 1
    /\ session' = [session EXCEPT ![t] = @ \cup {"usage"}]
    /\ Moves(t, "idle")
    /\ UNCHANGED <<record, active_rechecks, io_active, resources, tokens,
                   outcome, reported, ops>>

RefuseUsage(t) ==
    /\ place[t] = "usage_enter"
    /\ ~UsageAvailable(t)
    /\ Return(t, "refused")
    /\ UNCHANGED <<record, counters, resources, tokens, session, reported, ops>>

LeaveUsage(t) ==
    /\ place[t] = "idle"
    /\ session[t] = {"usage"}
    /\ active_usages' = active_usages - 1
    /\ session' = [session EXCEPT ![t] = {}]
    /\ UNCHANGED <<record, active_rechecks, io_active, resources, tokens,
                   place, outcome, reported, ops>>

\* _LeaseUsageSession.commit; a commit that is refused changes nothing.
CommitUsage(t) ==
    /\ place[t] = "idle"
    /\ "usage" \in session[t]
    /\ ops[t] < MaxOps
    /\ lease_state = "open"
    /\ ~close_requested
    /\ active_usages > 0
    /\ BeginCommit(t)
    /\ ops' = [ops EXCEPT ![t] = @ + 1]
    /\ UNCHANGED <<record, counters, resources, place, session, outcome, reported>>

----------------------------------------------------------------------------
(* run_io                                                                  *)

\* Mutant: a second io session is let in.
IoAvailable_Shared(t) ==
    /\ lease_state = "open"
    /\ t \notin cancelled_tokens
    /\ Len(released) < 2

IoAvailable(t) ==
    /\ lease_state = "open"
    /\ t \notin cancelled_tokens
    /\ Len(released) < 2            \* the source handle is still held
    /\ ~io_active

EnterIo(t) ==
    /\ place[t] = "io_enter"
    /\ IoAvailable(t)
    /\ io_active' = TRUE
    /\ session' = [session EXCEPT ![t] = @ \cup {"io"}]
    /\ Moves(t, "idle")
    /\ UNCHANGED <<record, active_rechecks, active_usages, resources, tokens,
                   outcome, reported, ops>>

RefuseIo(t) ==
    /\ place[t] = "io_enter"
    /\ ~IoAvailable(t)
    /\ Return(t, "refused")
    /\ UNCHANGED <<record, counters, resources, tokens, session, reported, ops>>

LeaveIo(t) ==
    /\ place[t] = "idle"
    /\ "io" \in session[t]
    /\ io_active' = FALSE
    /\ session' = [session EXCEPT ![t] = @ \ {"io"}]
    /\ UNCHANGED <<record, active_rechecks, active_usages, resources, tokens,
                   place, outcome, reported, ops>>

\* _LeaseIoSession.commit: unlike a usage it may still commit after close was
\* requested, as long as the closer has not taken the state out of "open".
CommitIo(t) ==
    /\ place[t] = "idle"
    /\ "io" \in session[t]
    /\ ops[t] < MaxOps
    /\ lease_state = "open"
    /\ io_active
    /\ BeginCommit(t)
    /\ ops' = [ops EXCEPT ![t] = @ + 1]
    /\ UNCHANGED <<record, counters, resources, place, session, outcome, reported>>

----------------------------------------------------------------------------
(* recheck: counted, then measured outside the condition, then published   *)
(* under it, and in every case uncounted at the end.                       *)

\* Mutant: a recheck may begin until the close has finished.
BeginRecheck_WhileClosing(t) ==
    /\ place[t] = "recheck_enter"
    /\ lease_state # "closed"
    /\ active_rechecks' = active_rechecks + 1
    /\ Moves(t, "recheck")
    /\ UNCHANGED <<record, active_usages, io_active, resources, tokens,
                   session, outcome, reported, ops>>

BeginRecheck(t) ==
    /\ place[t] = "recheck_enter"
    /\ lease_state = "open"
    /\ active_rechecks' = active_rechecks + 1
    /\ Moves(t, "recheck")
    /\ UNCHANGED <<record, active_usages, io_active, resources, tokens,
                   session, outcome, reported, ops>>

RefuseRecheck(t) ==
    /\ place[t] = "recheck_enter"
    /\ lease_state # "open"
    /\ Return(t, "closed")
    /\ UNCHANGED <<record, counters, resources, tokens, session, reported, ops>>

\* The delete-pending query, the snapshot and its comparison with S2: they find
\* the token cancelled, the handle gone, some failure, or the source unchanged.
MeasureRecheck(t) ==
    /\ place[t] = "recheck"
    /\ \/ /\ t \in cancelled_tokens
          /\ outcome' = [outcome EXCEPT ![t] = "cancelled"]
          /\ Moves(t, "leave")
       \/ /\ t \notin cancelled_tokens
          /\ Len(released) >= 2
          /\ outcome' = [outcome EXCEPT ![t] = "closed"]
          /\ Moves(t, "leave")
       \/ /\ t \notin cancelled_tokens
          /\ Len(released) < 2
          /\ \/ outcome' = [outcome EXCEPT ![t] = "failed"] /\ Moves(t, "leave")
             \/ outcome' = outcome /\ Moves(t, "publish")
    /\ UNCHANGED <<record, counters, resources, tokens, session, reported, ops>>

PublishRecheck(t) ==
    /\ place[t] = "publish"
    /\ lease_state = "open"
    /\ BeginCommit(t)
    /\ outcome' = [outcome EXCEPT ![t] = "ok"]
    /\ Moves(t, "leave")
    /\ UNCHANGED <<record, counters, resources, session, reported, ops>>

WithholdRecheck(t) ==
    /\ place[t] = "publish"
    /\ lease_state # "open" \/ t \in cancelled_tokens
    /\ outcome' = [outcome EXCEPT ![t] = IF lease_state # "open" THEN "closed" ELSE "cancelled"]
    /\ Moves(t, "leave")
    /\ UNCHANGED <<record, counters, resources, tokens, session, reported, ops>>

LeaveRecheck(t) ==
    /\ place[t] = "leave"
    /\ active_rechecks' = active_rechecks - 1
    /\ Moves(t, "idle")
    /\ UNCHANGED <<record, active_usages, io_active, resources, tokens,
                   session, outcome, reported, ops>>

----------------------------------------------------------------------------
(* close                                                                   *)

\* Mutant: the closer does not wait for an io session.
Quiet_IgnoresIo == active_rechecks = 0 /\ active_usages = 0

Quiet == active_rechecks = 0 /\ ~io_active /\ active_usages = 0

\* The first closer, once no usage is active: it takes the state to "closing"
\* and, in the same critical section, goes on unless something is still active.
Drained(t) ==
    /\ active_usages = 0
    /\ lease_state' = "closing"
    /\ Moves(t, IF Quiet THEN "release" ELSE "wait_rest")

FirstCloser == lease_state = "open" /\ ~close_requested

CloseFirst(t) ==
    /\ place[t] = "close_enter"
    /\ FirstCloser
    /\ close_requested' = TRUE
    /\ \/ Drained(t)
       \/ active_usages > 0 /\ Moves(t, "wait_usages") /\ UNCHANGED lease_state
    /\ UNCHANGED <<registered, close_diagnostics, close_result, counters, resources,
                   tokens, session, outcome, reported, ops>>

CloseDrained(t) ==
    /\ place[t] = "wait_usages"
    /\ Drained(t)
    /\ UNCHANGED <<registered, close_requested, close_diagnostics, close_result, counters,
                   resources, tokens, session, outcome, reported, ops>>

CloseQuiet(t) ==
    /\ place[t] = "wait_rest"
    /\ Quiet
    /\ Moves(t, "release")
    /\ UNCHANGED <<record, counters, resources, tokens, session, outcome, reported, ops>>

\* Mutant: a later closer waits only while both conditions hold.
Superseded_Both == close_requested /\ lease_state = "open"

\* A later closer waits for the first one and returns its diagnostics.
Superseded == close_requested \/ lease_state = "closing"

CloseLater(t) ==
    /\ place[t] = "close_enter"
    /\ Superseded
    /\ Moves(t, "wait_closer")
    /\ UNCHANGED <<record, counters, resources, tokens, session, outcome, reported, ops>>

CloseReturn(t) ==
    /\ place[t] \in {"close_enter", "wait_closer"}
    /\ ~Superseded
    /\ place[t] = "close_enter" => ~FirstCloser
    /\ Return(t, "closed")
    /\ reported' = [reported EXCEPT ![t] = close_diagnostics]
    /\ UNCHANGED <<record, counters, resources, tokens, session, ops>>

\* _OwnedGateResources.close frees one resource after the other, outside the
\* condition; a failure is collected and the next resource is freed all the same.
ReleaseOne(t) ==
    /\ place[t] = "release"
    /\ Len(released) < 4
    /\ released' = Append(released, Resources[Len(released) + 1])
    /\ failures' \in {failures, "faulty"}
    /\ Moves(t, IF Len(released) = 3 THEN "finish" ELSE "release")
    /\ UNCHANGED <<record, counters, tokens, session, outcome, reported, ops>>

\* Mutant: the request is not reset, so later closers keep waiting.
FinishClose_KeepsRequest(t) ==
    /\ place[t] = "finish"
    /\ close_diagnostics' = failures
    /\ close_result' = failures
    /\ lease_state' = "closed"
    /\ Moves(t, "pop")
    /\ UNCHANGED <<registered, close_requested, counters, resources, tokens, session,
                   outcome, reported, ops>>

FinishClose(t) ==
    /\ place[t] = "finish"
    /\ close_diagnostics' = failures
    /\ close_result' = failures
    /\ lease_state' = "closed"
    /\ close_requested' = FALSE
    /\ Moves(t, "pop")
    /\ UNCHANGED <<registered, counters, resources, tokens, session, outcome, reported, ops>>

PopRecord(t) ==
    /\ place[t] = "pop"
    /\ registered' = FALSE
    /\ Return(t, "closed")
    /\ reported' = [reported EXCEPT ![t] = failures]
    /\ UNCHANGED <<lease_state, close_requested, close_diagnostics, close_result, counters,
                   resources, tokens, session, ops>>

----------------------------------------------------------------------------

\* CancellationToken.cancel: monotone, at any moment, by anybody.
CancelToken(t) ==
    /\ t \notin cancelled_tokens
    /\ cancelled_tokens' = cancelled_tokens \cup {t}
    /\ UNCHANGED <<record, counters, resources, threads, commit_sequence>>

\* What a thread that has begun a call, or is in a callback, goes on to do.
Continue(t) ==
    \/ EnterUsage(t) \/ RefuseUsage(t) \/ LeaveUsage(t)
    \/ EnterIo(t) \/ RefuseIo(t) \/ LeaveIo(t)
    \/ BeginRecheck(t) \/ RefuseRecheck(t) \/ MeasureRecheck(t)
    \/ PublishRecheck(t) \/ WithholdRecheck(t) \/ LeaveRecheck(t)
    \/ CloseFirst(t) \/ CloseDrained(t) \/ CloseQuiet(t)
    \/ CloseLater(t) \/ CloseReturn(t)
    \/ ReleaseOne(t) \/ FinishClose(t) \/ PopRecord(t)

LeaseStep(t) ==
    \/ \E call \in Entering : LookUp(t, call) \/ LookUpGone(t, call)
    \/ CommitUsage(t)
    \/ CommitIo(t)
    \/ CancelToken(t)
    \/ Continue(t)

\* Every thread has made its calls (the bound) and is outside the lease.
Done ==
    /\ \A t \in Threads : place[t] = "idle" /\ session[t] = {} /\ ops[t] = MaxOps
    /\ UNCHANGED leaseVars

LeaseNext == (\E t \in Threads : LeaseStep(t)) \/ Done

\* A thread keeps running and its callbacks end; nobody has to call or cancel.
Fairness == \A t \in Threads : WF_leaseVars(Continue(t))

LeaseSpec == LeaseInit /\ [][LeaseNext]_leaseVars
FairSpec == LeaseSpec /\ Fairness

----------------------------------------------------------------------------
(* Properties.                                                             *)

InUsage == {t \in Threads : "usage" \in session[t]}
InIo == {t \in Threads : "io" \in session[t]}
InRecheck == {t \in Threads : place[t] \in Rechecking}
Users == InUsage \cup InIo \cup InRecheck

\* While any thread is inside a usage, an io session or a recheck, the lease
\* still owns all four resources: close waits for every user (lease.py:664-671).
HeldWhileUsed == Users # {} => released = <<>>

\* Two threads never move the shared file position of the held source handle:
\* an io session is exclusive even when opened from different usages.
IoIsExclusive == \A s, t \in InIo : s = t

\* Every closer, the first, a waiting one and one that finds the record gone,
\* returns only after all four resources are freed, and all of them return the
\* diagnostics of that one release.
ClosersAgree ==
    \A t \in Threads : reported[t] # "unset" =>
        /\ Len(released) = 4
        /\ lease_state = "closed"
        /\ reported[t] = failures

\* The counters the closers wait for count exactly the threads inside.
CountersExact ==
    /\ active_usages = Cardinality(InUsage)
    /\ active_rechecks = Cardinality(InRecheck)
    /\ io_active <=> InIo # {}

\* A close that was called returns, whatever the users do in the meantime.
CloseReturns ==
    \A t \in Threads : place[t] \in Closing \cup {"close_enter", "pop"} ~> place[t] = "idle"

----------------------------------------------------------------------------
(* The inductive invariant behind HeldWhileUsed, ClosersAgree, IoIsExclusive *)
(* and CountersExact.                                                       *)

ActiveCloser == {"wait_usages", "wait_rest", "release", "finish"}

\* A thread enters a callback it is not yet in, so a counter counts threads.
EntryInv ==
    \A t \in Threads :
        /\ place[t] = "usage_enter" => session[t] = {}
        /\ place[t] = "io_enter" => "io" \notin session[t]

\* There is one active closer, and its place fixes the state of the record.
CloserInv ==
    /\ \A s, t \in Threads : place[s] \in ActiveCloser /\ place[t] \in ActiveCloser => s = t
    /\ \A t \in Threads :
        /\ place[t] \in ActiveCloser => close_requested
        /\ place[t] = "wait_usages" => lease_state = "open"
        /\ place[t] \in {"wait_rest", "release", "finish"} => lease_state = "closing"
        /\ place[t] \in {"release", "finish"} => Users = {}
        /\ place[t] = "finish" => Len(released) = 4
        /\ place[t] = "pop" => lease_state = "closed"
        /\ place[t] = "wait_closer" => close_requested \/ lease_state # "open"

ReleaseInv ==
    /\ released # <<>> => lease_state # "open" /\ Users = {}
    /\ lease_state = "closed" =>
          /\ Len(released) = 4
          /\ close_diagnostics = failures
          /\ close_result = failures
    /\ ~registered => lease_state = "closed"

LeaseInv ==
    /\ LeaseTypeOK
    /\ CountersExact
    /\ IoIsExclusive
    /\ EntryInv
    /\ CloserInv
    /\ ReleaseInv
    /\ ClosersAgree

----------------------------------------------------------------------------
(* What the lease promises its users, without counters and waiting.        *)

Phase ==
    IF released # <<>> THEN "freed" ELSE IF lease_state = "open" THEN "open" ELSE "draining"

Lifetime == INSTANCE LeaseLifetime WITH
    Users <- Threads, phase <- Phase, inside <- Users, grants <- commit_sequence

\* The lease implements the promise: it is freed once, after the last user has
\* left, nobody enters or is granted a commit once it drains, and it is freed in
\* the end when its callbacks end.
ImplementsLifetime == Lifetime!Spec
=============================================================================
