---------------------------- MODULE SnapshotWrites ----------------------------
(***************************************************************************)
(* The history table and the latest table of one dataset                   *)
(*   src/src/next_ads/common/snapshot_writes.py  publish_history_and_latest*)
(*   src/src/next_ads/common/delta_writes.py     the statements, retries   *)
(*                                                                         *)
(* A task publishes the rows of one scope (a route) and one date.  The     *)
(* history keeps every date; latest keeps the date that was published      *)
(* last.  Each statement is one Delta transaction: it starts, and then it  *)
(* commits, or it meets a concurrent commit and is tried again.  Every     *)
(* caller names a history table.  A key's content is the execution that    *)
(* computed it, and 0 where the table has no rows of the key.  A frame may *)
(* have no rows: its keys are valid (delta_writes.py:306), and the cells   *)
(* publish such a snapshot on purpose (assign_customer_cells.py:436).      *)
(***************************************************************************)
EXTENDS Naturals

CONSTANTS
    Scopes,          \* the routes that share the two tables
    Dates,
    Plans,           \* what may be published: see plan
    MaxAttempts,     \* DeltaRetryPolicy.max_attempts
    MaxExecutions,   \* executions of a task: one and its retries
    MaxFaults        \* bound on the executions that die

Keys == Scopes \X Dates
Tasks == Keys      \* the task that publishes a key, where the plan has it
ScopeOf(k) == k[1]
DateOf(k) == k[2]

ASSUME SnapshotAssumption ==
    /\ Plans \subseteq [tasks : SUBSET Tasks, scoped : BOOLEAN, serial : BOOLEAN]
    /\ \A p \in Plans : ~p.scoped => \A t, u \in p.tasks : ScopeOf(t) = ScopeOf(u)
    /\ MaxAttempts \in Nat \ {0} /\ MaxExecutions \in Nat /\ MaxFaults \in Nat

VARIABLES
    plan,       \* the dataset's tasks; whether it publishes with a scope (if
                \* not, its one scope is all the rows); whether tasks overlap
    history,    \* the rows of the history table
    latest,     \* the rows of the latest table
    commits,    \* transactions of each table so far
    faults,     \* executions that died so far
    pc,         \* the statement each task's execution is at
    used,       \* executions of each task so far
    frame,      \* what the execution publishes: its number, or 0 with no rows
    tries,      \* attempts at the statement so far
    start       \* the table's commits when the attempt started, or 0 between them

tables == <<plan, history, latest, commits>>
vars == <<tables, faults, pc, used, frame, tries, start>>

Statements == {"history", "delete", "replace", "table"}
PCs == Statements \cup {"idle", "done"}

Target(statement) == IF statement = "history" THEN "history" ELSE "latest"

Init ==
    /\ plan \in Plans
    /\ history = [k \in Keys |-> 0]
    /\ latest = [k \in Keys |-> 0]
    /\ commits = [t \in {"history", "latest"} |-> 1]
    /\ faults = 0
    /\ pc = [t \in Tasks |-> "idle"]
    /\ used = [t \in Tasks |-> 0]
    /\ frame = [t \in Tasks |-> 0]
    /\ tries = [t \in Tasks |-> 0]
    /\ start = [t \in Tasks |-> 0]

Goto(t, label) ==
    /\ pc' = [pc EXCEPT ![t] = label]
    /\ tries' = [tries EXCEPT ![t] = 0]
    /\ start' = [start EXCEPT ![t] = 0]

\* Mutant: the latest table is written without the history.
BeginAtLatest(t) ==
    /\ t \in plan.tasks /\ pc[t] = "idle"
    /\ used[t] < MaxExecutions
    /\ plan.serial => \A u \in Tasks : pc[u] \in {"idle", "done"}
    /\ used' = [used EXCEPT ![t] = @ + 1]
    /\ \E n \in {0, used[t] + 1} : frame' = [frame EXCEPT ![t] = n]
    /\ Goto(t, IF plan.scoped THEN "delete" ELSE "table")
    /\ UNCHANGED <<tables, faults>>

\* The frame is computed, dated and its keys are validated.
Begin(t) ==
    /\ t \in plan.tasks /\ pc[t] = "idle"
    /\ used[t] < MaxExecutions
    /\ plan.serial => \A u \in Tasks : pc[u] \in {"idle", "done"}
    /\ used' = [used EXCEPT ![t] = @ + 1]
    /\ \E n \in {0, used[t] + 1} : frame' = [frame EXCEPT ![t] = n]
    /\ Goto(t, "history")
    /\ UNCHANGED <<tables, faults>>

\* An attempt at the statement reads the table's last version.
Start(t) ==
    /\ pc[t] \in Statements
    /\ start[t] = 0
    /\ start' = [start EXCEPT ![t] = commits[Target(pc[t])]]
    /\ tries' = [tries EXCEPT ![t] = @ + 1]
    /\ UNCHANGED <<tables, faults, pc, used, frame>>

\* Mutant: only the date selects the rows that are replaced.
ReplacedByDate(t, rows) ==
    [k \in Keys |-> IF k = t THEN frame[t] ELSE IF DateOf(k) = DateOf(t) THEN 0 ELSE rows[k]]

\* INSERT ... REPLACE WHERE the scope and the date are the task's.
Replaced(t, rows) == [rows EXCEPT ![t] = frame[t]]

\* Mutant: rows of other scopes are deleted, not of other dates.
UndatedScope(t) == [k \in Keys |-> IF ScopeOf(k) = ScopeOf(t) THEN latest[k] ELSE 0]

\* DELETE FROM latest WHERE the date is not the task's.
Undated(t) == [k \in Keys |-> IF DateOf(k) = DateOf(t) THEN latest[k] ELSE 0]

\* INSERT ... REPLACE WHERE TRUE.
Table(t) == [k \in Keys |-> IF k = t THEN frame[t] ELSE 0]

\* After the history, latest takes one statement, or two when it is shared.
AfterHistory(t) == Goto(t, IF plan.scoped THEN "delete" ELSE "table")

\* The attempt commits.  Delta serialises its transactions, so what it does is
\* what it would do had it started now.
Execute(t) ==
    /\ pc[t] \in Statements
    /\ start[t] # 0
    /\ commits' = [commits EXCEPT ![Target(pc[t])] = @ + 1]
    /\ \/ /\ pc[t] = "history"
          /\ history' = Replaced(t, history)
          /\ AfterHistory(t)
          /\ UNCHANGED latest
       \/ /\ pc[t] = "delete"
          /\ latest' = Undated(t)
          /\ Goto(t, "replace")
          /\ UNCHANGED history
       \/ /\ pc[t] = "replace"
          /\ latest' = Replaced(t, latest)
          /\ Goto(t, "done")
          /\ UNCHANGED history
       \/ /\ pc[t] = "table"
          /\ latest' = Table(t)
          /\ Goto(t, "done")
          /\ UNCHANGED history
    /\ UNCHANGED <<plan, faults, used, frame>>

\* Mutant: the policy's attempts are not counted down to its bound.
ConflictForgets(t) ==
    /\ pc[t] \in Statements
    /\ start[t] # 0
    /\ commits[Target(pc[t])] > start[t]
    /\ start' = [start EXCEPT ![t] = 0]
    /\ UNCHANGED <<tables, faults, used, frame, pc, tries>>

\* Mutant: the first conflict fails the task.
ConflictAtOnce(t) ==
    /\ pc[t] \in Statements
    /\ start[t] # 0
    /\ commits[Target(pc[t])] > start[t]
    /\ Goto(t, "idle")
    /\ UNCHANGED <<tables, faults, used, frame>>

\* Mutant: a conflict is logged and the publication is taken for done.
ConflictSwallowed(t) ==
    /\ pc[t] \in Statements
    /\ start[t] # 0
    /\ commits[Target(pc[t])] > start[t]
    /\ Goto(t, "done")
    /\ UNCHANGED <<tables, faults, used, frame>>

\* DeltaConcurrentModificationException: the statement is tried again, and the
\* last attempt fails the task.
Conflict(t) ==
    /\ pc[t] \in Statements
    /\ start[t] # 0
    /\ commits[Target(pc[t])] > start[t]
    /\ IF tries[t] = MaxAttempts
       THEN Goto(t, "idle")
       ELSE start' = [start EXCEPT ![t] = 0] /\ UNCHANGED <<pc, tries>>
    /\ UNCHANGED <<tables, faults, used, frame>>

\* The task dies, or a statement fails in another way.
Die(t) ==
    /\ pc[t] \in Statements
    /\ faults < MaxFaults
    /\ faults' = faults + 1
    /\ Goto(t, "idle")
    /\ UNCHANGED <<tables, used, frame>>

Step(t) == Begin(t) \/ Start(t) \/ Execute(t) \/ Conflict(t)

Next == \E t \in Tasks : Step(t) \/ Die(t)

Spec == Init /\ [][Next]_vars

\* Tasks are scheduled and retried.
FairSpec == Spec /\ \A t \in Tasks : WF_vars(Step(t))

-----------------------------------------------------------------------------
(* Correctness.                                                            *)

\* Types of the tables and of the executions' local state.
TypeOK ==
    /\ plan \in Plans
    /\ history \in [Keys -> 0 .. MaxExecutions]
    /\ latest \in [Keys -> 0 .. MaxExecutions]
    /\ commits \in [{"history", "latest"} -> Nat \ {0}]
    /\ faults \in 0 .. MaxFaults
    /\ pc \in [Tasks -> PCs]
    /\ used \in [Tasks -> 0 .. MaxExecutions]
    /\ frame \in [Tasks -> 0 .. MaxExecutions]
    /\ tries \in [Tasks -> 0 .. MaxAttempts]
    /\ start \in [Tasks -> Nat]

\* What is served was recorded first: latest never runs ahead of the history.
LatestFollowsHistory == \A k \in Keys : latest[k] <= history[k]

\* Tasks that follow one another leave the rows of one date in latest, whatever
\* they leave half-done and whichever date is published late
\* (docs/architecture/nextads_job_table_flow.md:156).
OneDate ==
    plan.serial => \A k, l \in Keys : latest[k] # 0 /\ latest[l] # 0 => DateOf(k) = DateOf(l)

\* Routes that publish one date do not take each other's rows: rows leave latest
\* only when another date is published, also when the writers overlap.
RowsLeaveByDate ==
    [][\A k \in Keys :
          latest[k] # 0 /\ latest'[k] = 0 =>
              \E t \in Tasks : DateOf(t) # DateOf(k) /\ pc[t] # pc'[t]]_vars

\* What a task reports as published is served, and is what the history holds,
\* until a task of another date begins: also when the routes of its date
\* overlap it, die in its midst and are tried again.
PublishedIsServed ==
    \A t \in plan.tasks :
        pc[t] = "done" /\ (\A u \in plan.tasks : DateOf(u) = DateOf(t) \/ used[u] = 0) =>
            latest[t] = frame[t] /\ history[t] = frame[t]

\* Every task publishes when its executions are more than die, however its
\* statements conflict with the other tasks'.
EveryTaskPublishes == \A t \in Tasks : <>(t \in plan.tasks => pc[t] = "done")

\* "Atomically replace structured equality/date scope by column name and remove
\* all otherrecords not in scope columns"
\* (src/src/next_ads/common/delta_writes.py:701): a table that serves rows is
\* not without any while the date changes to one that has rows.
NeverEmptied ==
    [][/\ \E k \in Keys : latest[k] # 0
       /\ \A t \in Tasks : pc[t] # pc'[t] => frame[t] # 0
       => \E k \in Keys : latest'[k] # 0]_vars
=============================================================================
