------------------------ MODULE AssignmentPublication ------------------------
(***************************************************************************)
(* Publication of one route's assignments                                  *)
(* (src/src/next_ads/decisioning/assignment_publication.py,                *)
(* publish_bulk_assignment_build, called by                                *)
(* src/jobs/nextads_assignment/bulk_build.py).                             *)
(*                                                                         *)
(* A run of the page-build job publishes the assignments of one date: its  *)
(* scope events, then the history table's partition for the date, then the *)
(* latest table that delivery reads.  Each is one Delta transaction.  The  *)
(* task may die between two of them and is executed again; an execution    *)
(* that finds a history commit tagged with its own attempt only restores   *)
(* the latest table from it.  Some inputs are read unpinned, so computing  *)
(* twice may give two results.                                             *)
(***************************************************************************)
EXTENDS Naturals, Sequences

CONSTANTS
    Runs,              \* build_run_ids, one for each run of the job
    DateOf,            \* the run_date of each
    Contents,          \* assignments that a computation can result in
    None,
    RepeatsIdentity,   \* a caller may pass the identity of an earlier execution;
                       \* FALSE for the job: it passes task.run_id and
                       \* task.execution_count, new in every execution
    MaxExecutions,     \* executions of a run's task: one and its retries
    MaxFaults          \* bound on the executions that fail or die

ASSUME PublicationAssumption ==
    /\ None \notin Contents
    /\ RepeatsIdentity \in BOOLEAN
    /\ MaxExecutions \in Nat /\ MaxFaults \in Nat

Attempts == [run : Runs, count : 1 .. MaxExecutions]
Snapshots == [attempt : Attempts, content : Contents]

VARIABLES
    events,     \* attempts whose scope events are in the event table
    history,    \* commits of the history table, by version
    latest,     \* the snapshot in the latest table, or None
    faults,     \* executions that failed or died so far
    pc,         \* the next step of each run's current execution
    used,       \* executions of each run so far
    attempt,    \* attempt_id of the execution
    content,    \* what it has computed
    version     \* history_version of the receipt it has found

stored == <<events, history, latest>>
locals == <<pc, used, attempt, content, version>>
vars == <<stored, faults, locals>>

PCs == {"idle", "find", "republish", "compute", "events", "history", "latest", "done"}

Init ==
    /\ events = {}
    /\ history = << >>
    /\ latest = None
    /\ faults = 0
    /\ pc = [r \in Runs |-> "idle"]
    /\ used = [r \in Runs |-> 0]
    /\ attempt = [r \in Runs |-> None]
    /\ content = [r \in Runs |-> None]
    /\ version = [r \in Runs |-> 0]

Goto(r, label) == pc' = [pc EXCEPT ![r] = label]

\* The snapshot the execution writes.
Snapshot(r) == [attempt |-> attempt[r], content |-> content[r]]

\* Mutant: the execution is numbered one ahead.
BeginAhead(r) ==
    /\ pc[r] = "idle"
    /\ used[r] < MaxExecutions
    /\ \A s \in Runs : pc[s] \in {"idle", "done"}
    /\ used' = [used EXCEPT ![r] = @ + 1]
    /\ attempt' = [attempt EXCEPT ![r] = [run |-> r, count |-> used[r] + 2]]
    /\ Goto(r, "find")
    /\ UNCHANGED <<stored, faults, content, version>>

\* The job has max_concurrent_runs: 1, but a run that failed may be repaired
\* after later runs.
Begin(r) ==
    /\ pc[r] = "idle"
    /\ used[r] < MaxExecutions
    /\ \A s \in Runs : pc[s] \in {"idle", "done"}
    /\ used' = [used EXCEPT ![r] = @ + 1]
    /\ \E k \in IF RepeatsIdentity THEN 1 .. used[r] + 1 ELSE {used[r] + 1} :
          attempt' = [attempt EXCEPT ![r] = [run |-> r, count |-> k]]
    /\ Goto(r, "find")
    /\ UNCHANGED <<stored, faults, content, version>>

Receipts(a) == {v \in DOMAIN history : history[v].attempt = a}

\* Mutant: the history receipt is not looked for.
FindNothing(r) ==
    /\ pc[r] = "find"
    /\ Goto(r, "compute")
    /\ UNCHANGED <<stored, faults, used, attempt, content, version>>

FindHistory(r) ==
    /\ pc[r] = "find"
    /\ \/ /\ Receipts(attempt[r]) = {}
          /\ Goto(r, "compute")
          /\ UNCHANGED version
       \/ \E v \in DOMAIN history :
             /\ Receipts(attempt[r]) = {v}
             /\ version' = [version EXCEPT ![r] = v]
             /\ Goto(r, "republish")
    /\ UNCHANGED <<stored, faults, used, attempt, content>>

\* read_delta_version of the history commit, at the build's date.
Republish(r) ==
    /\ pc[r] = "republish"
    /\ latest' = history[version[r]]
    /\ Goto(r, "done")
    /\ UNCHANGED <<events, history, faults, used, attempt, content, version>>

\* The frame is computed and its scopes and final keys are validated.
Compute(r) ==
    /\ pc[r] = "compute"
    /\ \E c \in Contents : content' = [content EXCEPT ![r] = c]
    /\ Goto(r, "events")
    /\ UNCHANGED <<stored, faults, used, attempt, version>>

\* Mutant: the history transaction is left out.
WriteEventsOnly(r) ==
    /\ pc[r] = "events"
    /\ events' = events \cup {attempt[r]}
    /\ Goto(r, "latest")
    /\ UNCHANGED <<history, latest, faults, used, attempt, content, version>>

\* The events of this build, task run and execution are replaced.
WriteEvents(r) ==
    /\ pc[r] = "events"
    /\ events' = events \cup {attempt[r]}
    /\ Goto(r, "history")
    /\ UNCHANGED <<history, latest, faults, used, attempt, content, version>>

\* Mutant: the history transaction ends the publication.
WriteHistoryOnly(r) ==
    /\ pc[r] = "history"
    /\ history' = Append(history, Snapshot(r))
    /\ Goto(r, "done")
    /\ UNCHANGED <<events, latest, faults, used, attempt, content, version>>

WriteHistory(r) ==
    /\ pc[r] = "history"
    /\ history' = Append(history, Snapshot(r))
    /\ Goto(r, "latest")
    /\ UNCHANGED <<events, latest, faults, used, attempt, content, version>>

\* Mutant: a latest table that has a snapshot keeps it.
WriteLatestOnce(r) ==
    /\ pc[r] = "latest"
    /\ latest' = IF latest = None THEN Snapshot(r) ELSE latest
    /\ Goto(r, "done")
    /\ UNCHANGED <<events, history, faults, used, attempt, content, version>>

WriteLatest(r) ==
    /\ pc[r] = "latest"
    /\ latest' = Snapshot(r)
    /\ Goto(r, "done")
    /\ UNCHANGED <<events, history, faults, used, attempt, content, version>>

\* A validation or a write raises, or the task dies.
Stop(r) ==
    /\ pc[r] \notin {"idle", "done"}
    /\ faults < MaxFaults
    /\ faults' = faults + 1
    /\ Goto(r, "idle")
    /\ attempt' = [attempt EXCEPT ![r] = None]
    /\ content' = [content EXCEPT ![r] = None]
    /\ version' = [version EXCEPT ![r] = 0]
    /\ UNCHANGED <<stored, used>>

Step(r) ==
    \/ Begin(r) \/ FindHistory(r) \/ Republish(r) \/ Compute(r)
    \/ WriteEvents(r) \/ WriteHistory(r) \/ WriteLatest(r)

Next == \E r \in Runs : Step(r) \/ Stop(r)

Spec == Init /\ [][Next]_vars

\* Runs are scheduled and their task is retried.
FairSpec == Spec /\ \A r \in Runs : WF_vars(Step(r))

-----------------------------------------------------------------------------
(* Correctness.                                                            *)

\* Types of the tables and of the executions' local state.
TypeOK ==
    /\ events \subseteq Attempts
    /\ history \in Seq(Snapshots)
    /\ latest \in Snapshots \cup {None}
    /\ faults \in 0 .. MaxFaults
    /\ pc \in [Runs -> PCs]
    /\ used \in [Runs -> 0 .. MaxExecutions]
    /\ attempt \in [Runs -> Attempts \cup {None}]
    /\ content \in [Runs -> Contents \cup {None}]
    /\ version \in [Runs -> Nat]

\* Live is advanced last: what delivery reads is one whole computation that is
\* in the history with its scope events, and never a part of two.
LatestIsRecorded ==
    latest # None =>
        /\ \E v \in DOMAIN history : history[v] = latest
        /\ latest.attempt \in events

\* The rows the history table holds for a date now: its last commit's.
Current(d) ==
    LET onDate == {v \in DOMAIN history : DateOf[history[v].attempt.run] = d}
    IN  history[CHOOSE v \in onDate : \A w \in onDate : w <= v]

\* An execution that succeeds under an identity of its own leaves the latest
\* table equal to what the history table holds for its date, also after
\* executions that died half-way, or that repeated the identity of others.
SuccessAgreesWithHistory ==
    [][\A r \in Runs :
          pc[r] # "done" /\ pc'[r] = "done" /\ attempt[r].count = used[r]
              => latest' = Current(DateOf[r])']_vars

\* An execution that repeats an attempt commits no second history under it, so
\* the receipt lookup that it repeats never meets two.
OneHistoryPerAttempt ==
    \A v, w \in DOMAIN history : history[v].attempt = history[w].attempt => v = w

\* Every run reaches delivery when its task is retried more often than it dies.
EveryRunGoesLive ==
    \A r \in Runs : <>(latest # None /\ latest.attempt.run = r)

\* "a repair can publish it from the exact history version without
\* recalculating assignments"
\* (docs/CICD/nextads_databricks_runtime_map.md:146).
RepairRecalculatesNothing ==
    \A v, w \in DOMAIN history :
        history[v].attempt.run = history[w].attempt.run => v = w
=============================================================================
