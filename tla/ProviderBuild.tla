---------------------------- MODULE ProviderBuild ----------------------------
(***************************************************************************)
(* One provider build, from its lease on the context slot to the READY row *)
(* that downstream ranking reads.                                          *)
(*   src/src/next_ads/ranking/provider_context.py     the slot             *)
(*   src/src/next_ads/ranking/provider_publication.py signals and READY    *)
(*   src/jobs/orchestration/prepare_score_provider_context.py              *)
(*   src/jobs/orchestration/publish_theme_affinity.py,                     *)
(*   src/jobs/nextads_candidates/build_theme_scores.py   the two drivers   *)
(*                                                                         *)
(* A run is a job run.  Its task executes several times, one execution     *)
(* after the other, each with a higher execution count; different runs     *)
(* interleave freely.  Each step below is one statement against a Delta    *)
(* table, or one read of the clock; an execution may die between any two.  *)
(***************************************************************************)
EXTENDS Naturals, Sequences, FiniteSets

CONSTANTS
    Runs,            \* orchestration runs
    Builds,          \* ProviderBuildIDs: everything that can change the output
    None,
    LeaseLength,     \* ticks from activation to expiry (8 hours)
    Concurrent,      \* runs overlap; FALSE under the jobs' max_concurrent_runs: 1
    TakesOver,       \* ALLOW_SERIAL_RUN_TAKEOVER
    ThemeAffinity,   \* the driver is that of theme affinity; FALSE for Markov
    MaxExecutions,   \* executions of a run's task: one and its retries
    MaxFaults,       \* bound on the executions that fail or die
    MaxTicks         \* bound on the clock when no execution starts

\* ProviderBuildAttemptID: the build, and the execution that first proposed it.
Attempts == [build : Builds, run : Runs, count : 1 .. MaxExecutions]

Statuses == {"ACTIVE", "FAILED", "CONSUMED"}

Slots == [run : Runs, attempt : Attempts, status : Statuses, count : Nat,
          activated : Nat, expires : Nat]

ASSUME ProviderAssumption ==
    /\ LeaseLength \in Nat \ {0}
    /\ Concurrent \in BOOLEAN
    /\ TakesOver \in BOOLEAN
    /\ ThemeAffinity \in BOOLEAN
    /\ MaxExecutions \in Nat /\ MaxFaults \in Nat /\ MaxTicks \in Nat
    /\ None \notin Slots \cup Attempts

VARIABLES
    now,        \* the clock
    faults,     \* executions that failed or died so far
    slot,       \* the row of the context table, or None
    signals,    \* the attempt that tags each commit of the signals table
    ready,      \* READY_FOR_NEXTADS rows: attempt and OutputDeltaVersion
    withdrawn,  \* the runs whose foundation context is FAILED
    pc,         \* the next step of each run's current execution
    count,      \* execution_count
    activated,  \* activated_at, captured before anything is read
    attempt,    \* ProviderBuildAttemptID of the context
    version     \* delta_version of the receipt

stored == <<slot, signals, ready, withdrawn>>
locals == <<pc, count, activated, attempt, version>>
vars == <<now, faults, stored, locals>>

PCs == {"idle", "lookup", "claim", "verify", "find", "compute", "commit",
        "publish", "consume", "confirm", "done"}

Init ==
    /\ now = 0
    /\ faults = 0
    /\ slot = None
    /\ signals = << >>
    /\ ready = {}
    /\ withdrawn = {}
    /\ pc = [r \in Runs |-> "idle"]
    /\ count = [r \in Runs |-> 0]
    /\ activated = [r \in Runs |-> 0]
    /\ attempt = [r \in Runs |-> None]
    /\ version = [r \in Runs |-> 0]

Goto(r, label) == pc' = [pc EXCEPT ![r] = label]

\* The execution is over; the task may be executed again.
End(r) ==
    /\ Goto(r, "idle")
    /\ activated' = [activated EXCEPT ![r] = 0]
    /\ attempt' = [attempt EXCEPT ![r] = None]
    /\ version' = [version EXCEPT ![r] = 0]
    /\ UNCHANGED count

Tick ==
    /\ now < MaxTicks
    /\ now' = now + 1
    /\ UNCHANGED <<faults, stored, locals>>

-----------------------------------------------------------------------------
(* prepare_score_provider_context.main and activate_provider_context.      *)

\* A run that is queued, has succeeded or has no retry left.
Inactive(r) == pc[r] = "done" \/ (pc[r] = "idle" /\ count[r] \in {0, MaxExecutions})

\* Mutant: an execution starts whatever the number of retries.
StartsUnlimited(r) ==
    /\ pc[r] = "idle"
    /\ count[r] <= MaxExecutions
    /\ Concurrent \/ \A s \in Runs \ {r} : Inactive(s)
    /\ count' = [count EXCEPT ![r] = @ + 1]

\* An execution of the task starts, where runs overlap or the others are over.
Starts(r) ==
    /\ pc[r] = "idle"
    /\ count[r] < MaxExecutions
    /\ Concurrent \/ \A s \in Runs \ {r} : Inactive(s)
    /\ count' = [count EXCEPT ![r] = @ + 1]

\* The inputs that are newest when an execution starts give its build.  No two
\* executions read the same instant (the clock counts microseconds).
Begin(r) ==
    /\ Starts(r)
    /\ r \notin withdrawn
    /\ now' = now + 1
    /\ activated' = [activated EXCEPT ![r] = now + 1]
    /\ \E b \in Builds :
          attempt' = [attempt EXCEPT ![r] = [build |-> b, run |-> r, count |-> count[r] + 1]]
    /\ Goto(r, "lookup")
    /\ UNCHANGED <<faults, stored, version>>

\* publish_scoring_foundation raises: the run's foundation context is not
\* ACTIVE, and the execution ends before it looks for anything.
Refuse(r) ==
    /\ Starts(r)
    /\ r \in withdrawn
    /\ UNCHANGED <<now, faults, stored, pc, activated, attempt, version>>

\* Whoever repairs the run prepares its foundation context again: the failed
\* attempt, whose output is complete, becomes ACTIVE.
Repair(r) ==
    /\ pc[r] = "idle" /\ r \in withdrawn
    /\ withdrawn' = withdrawn \ {r}
    /\ UNCHANGED <<now, faults, slot, signals, ready, locals>>

\* The except of theme affinity fails the foundation context of the run too.
Withdraws(r) == withdrawn' = IF ThemeAffinity THEN withdrawn \cup {r} ELSE withdrawn

\* Mutant: the lease that a lost cluster has left ACTIVE is not reused.
ReusableFailed(r) ==
    /\ slot # None
    /\ slot.status = "FAILED"
    /\ slot.count < count[r]
    /\ slot.run = r
    /\ slot.attempt.build = attempt[r].build

\* load_reusable_provider_context: an unfinished attempt of this run's earlier
\* execution, at the same build, keeps its identity.
Reusable(r) ==
    /\ slot # None
    /\ slot.status \in {"ACTIVE", "FAILED"}
    /\ slot.count < count[r]
    /\ slot.run = r
    /\ slot.attempt.build = attempt[r].build

LookUp(r) ==
    /\ pc[r] = "lookup"
    /\ attempt' = [attempt EXCEPT ![r] = IF Reusable(r) THEN slot.attempt ELSE @]
    /\ Goto(r, "claim")
    /\ UNCHANGED <<now, faults, stored, count, activated, version>>

Lease(r) ==
    [run |-> r, attempt |-> attempt[r], status |-> "ACTIVE", count |-> count[r],
     activated |-> activated[r], expires |-> activated[r] + LeaseLength]

\* Mutants: a live lease is taken by whoever comes; it is never taken.
TakeoverByAnyone(r) ==
    /\ TakesOver
    /\ slot.status = "ACTIVE"
    /\ slot.run # r
    /\ slot.expires > activated[r]
TakeoverByNobody(r) == FALSE

\* A live lease of an earlier run, when runs are known to follow one another.
SerialTakeover(r) ==
    /\ TakesOver
    /\ slot.status = "ACTIVE"
    /\ slot.run # r
    /\ slot.expires > activated[r]
    /\ slot.activated < activated[r]

Available(r) ==
    \/ slot = None
    \/ slot.expires <= activated[r]
    \/ slot.attempt = attempt[r]
    \/ /\ slot.run = r
       /\ slot.attempt.build = attempt[r].build
       /\ count[r] > slot.count
    \/ SerialTakeover(r)

Claim(r) ==
    /\ pc[r] = "claim"
    /\ slot' = IF Available(r) THEN Lease(r) ELSE slot
    /\ Goto(r, "verify")
    /\ UNCHANGED <<now, faults, signals, ready, withdrawn, count, activated, attempt, version>>

Owns(r) == slot # None /\ slot.run = r /\ slot.attempt = attempt[r]

\* load_active_provider_context at activated_at; an execution that is refused
\* raises before it has a context to release.
Verify(r) ==
    /\ pc[r] = "verify"
    /\ IF Owns(r) /\ slot.status = "ACTIVE" /\ slot.expires > activated[r]
       THEN Goto(r, "find") /\ UNCHANGED <<withdrawn, count, activated, attempt, version>>
       ELSE End(r) /\ Withdraws(r)
    /\ UNCHANGED <<now, faults, slot, signals, ready>>

-----------------------------------------------------------------------------
(* The signals commit and the READY row.                                   *)

\* find_delta_write_receipt
Commits(a) == {v \in DOMAIN signals : signals[v] = a}

Release(r, status) ==
    slot' = IF Owns(r) /\ slot.status = "ACTIVE"
            THEN [slot EXCEPT !.status = status, !.expires = now]
            ELSE slot

\* Mutant: a failure releases the lease like a success.
FailAsConsumed(r) ==
    /\ pc[r] \in {"find", "compute", "commit", "publish"}
    /\ faults < MaxFaults
    /\ faults' = faults + 1
    /\ Release(r, "CONSUMED")
    /\ Withdraws(r)
    /\ End(r)
    /\ UNCHANGED <<now, signals, ready>>

\* The driver's `except`: the lease becomes FAILED if it is still its own.  An
\* error while it is prepared leaves no context to release.
Fail(r) ==
    /\ pc[r] \in {"lookup", "claim", "verify", "find", "compute", "commit", "publish"}
    /\ faults < MaxFaults
    /\ faults' = faults + 1
    /\ IF pc[r] \in {"lookup", "claim", "verify"} THEN slot' = slot ELSE Release(r, "FAILED")
    /\ Withdraws(r)
    /\ End(r)
    /\ UNCHANGED <<now, signals, ready>>

\* Mutant: the receipt of an earlier execution is not looked for.
FoundNothing(r, otherwise) == Goto(r, otherwise) /\ UNCHANGED version

\* A receipt found is published without computing anything; two raise.
Found(r, otherwise) ==
    \/ /\ Commits(attempt[r]) = {}
       /\ Goto(r, otherwise)
       /\ UNCHANGED version
    \/ \E v \in DOMAIN signals :
          /\ Commits(attempt[r]) = {v}
          /\ version' = [version EXCEPT ![r] = v]
          /\ Goto(r, "publish")

Find(r) ==
    /\ pc[r] = "find"
    /\ Found(r, "compute")
    /\ UNCHANGED <<now, faults, stored, count, activated, attempt>>

\* The scorer has run for hours; stage_provider_signals looks again.
Compute(r) ==
    /\ pc[r] = "compute"
    /\ Found(r, "commit")
    /\ UNCHANGED <<now, faults, stored, count, activated, attempt>>

Commit(r) ==
    /\ pc[r] = "commit"
    /\ signals' = Append(signals, attempt[r])
    /\ version' = [version EXCEPT ![r] = Len(signals) + 1]
    /\ Goto(r, "publish")
    /\ UNCHANGED <<now, faults, slot, ready, withdrawn, count, activated, attempt>>

\* register_ready_provider_build replaces the READY row of the attempt.
Publish(r) ==
    /\ pc[r] = "publish"
    /\ ready' = {row \in ready : row.attempt # attempt[r]}
                \cup {[attempt |-> attempt[r], version |-> version[r]]}
    /\ Goto(r, "consume")
    /\ UNCHANGED <<now, faults, slot, signals, withdrawn, count, activated, attempt, version>>

-----------------------------------------------------------------------------
(* transition_provider_context to CONSUMED: update, then read back.        *)

Consume(r) ==
    /\ pc[r] = "consume"
    /\ Release(r, "CONSUMED")
    /\ Goto(r, "confirm")
    /\ UNCHANGED <<now, faults, signals, ready, withdrawn, count, activated, attempt, version>>

\* The row must read back as consumed, or the task fails and may be executed
\* again; theme affinity logs the mismatch and lets the task succeed.
Confirm(r) ==
    /\ pc[r] = "confirm"
    /\ IF ThemeAffinity \/ (Owns(r) /\ slot.status = "CONSUMED")
       THEN Goto(r, "done") /\ UNCHANGED <<count, activated, attempt, version>>
       ELSE End(r)
    /\ UNCHANGED <<now, faults, stored>>

\* Cancellation, a timeout or a lost cluster.
Crash(r) ==
    /\ pc[r] \notin {"idle", "done"}
    /\ faults < MaxFaults
    /\ faults' = faults + 1
    /\ End(r)
    /\ UNCHANGED <<now, stored>>

-----------------------------------------------------------------------------
Step(r) ==
    \/ Begin(r) \/ Refuse(r) \/ LookUp(r) \/ Claim(r) \/ Verify(r)
    \/ Find(r) \/ Compute(r) \/ Commit(r) \/ Publish(r)
    \/ Consume(r) \/ Confirm(r)

Next == Tick \/ \E r \in Runs : Step(r) \/ Fail(r) \/ Crash(r) \/ Repair(r)

Spec == Init /\ [][Next]_vars

\* A job that is scheduled runs, and its task is retried.
FairSpec == Spec /\ \A r \in Runs : WF_vars(Step(r))

-----------------------------------------------------------------------------
(* Correctness.                                                            *)

\* Types of the tables' rows and the executions' local state.
TypeOK ==
    /\ now \in Nat
    /\ faults \in 0 .. MaxFaults
    /\ slot \in Slots \cup {None}
    /\ signals \in Seq(Attempts)
    /\ ready \subseteq [attempt : Attempts, version : Nat]
    /\ withdrawn \subseteq Runs
    /\ pc \in [Runs -> PCs]
    /\ count \in [Runs -> 0 .. MaxExecutions]
    /\ activated \in [Runs -> Nat]
    /\ attempt \in [Runs -> Attempts \cup {None}]
    /\ version \in [Runs -> Nat]

\* Whatever executions die and whoever takes the slot, the signals table takes
\* one commit of an attempt, so find_delta_write_receipt never meets two, and a
\* READY row names its own attempt's commit and never another.
O == INSTANCE OncePublished WITH commits <- signals
PublishesOnce == O!Once

\* A context is CONSUMED only when its attempt has a READY row to rank with
\* (test_only_ready_provider_publication_consumes_provider_context).
ConsumedIsReady ==
    slot # None /\ slot.status = "CONSUMED" =>
        \E row \in ready : row.attempt = slot.attempt

\* The slot follows the executions in the order they were prepared: an older
\* one never takes it back, an attempt that was consumed is not opened again
\* though the reuse lookup and the MERGE are separate reads, and a lease that
\* is running passes to another run only by serial takeover.
SlotMovesForward ==
    [][slot # None /\ slot' # slot =>
          /\ slot'.activated >= slot.activated
          /\ slot.status = "CONSUMED" => slot'.attempt # slot.attempt
          /\ slot.status = "ACTIVE" /\ slot.expires > now /\ slot'.run # slot.run
                => TakesOver]_vars

\* Runs that follow one another redo no finished work: an execution commits a
\* build again only when its run's earlier commit is published already
\* (docs/architecture/theme_affinity_operational_flow.md:78).  Overlapping runs
\* and a build whose inputs have moved on leave another attempt in the slot.
OneAtATime == ~Concurrent /\ \A b, c \in Builds : b = c
FinishedWorkIsReused ==
    OneAtATime =>
        \A v, w \in DOMAIN signals :
            v < w /\ signals[v].run = signals[w].run =>
                \E row \in ready : row.attempt = signals[v]

\* A run fails to publish only when every one of its executions has died: no
\* execution is lost to the lease that a dead one of its own run, or of the run
\* before, has left in the slot.
Published(r) == \E row \in ready : row.attempt.run = r
EveryRunPublishes ==
    <>[](Cardinality({r \in Runs : ~Published(r)}) * MaxExecutions <= faults)
=============================================================================
