------------------------ MODULE SnapshotWritesProofs ------------------------
(***************************************************************************)
(* Theorems about the history and latest tables of a dataset, for any      *)
(* scopes and dates, any plan of tasks, any number of attempts, executions *)
(* and deaths.                                                             *)
(***************************************************************************)
EXTENDS SnapshotWrites, TLAPS

\* Only the plan's tasks run and write; each is at a statement of its dataset.
Planned ==
    \A t \in Tasks :
        /\ used[t] # 0 => t \in plan.tasks
        /\ pc[t] # "idle" => used[t] # 0
        /\ pc[t] = "table" => ~plan.scoped
        /\ pc[t] \in {"delete", "replace"} => plan.scoped

\* The history holds what an execution publishes once latest may take it, and
\* latest has no rows of a key before its task is done.
Recorded ==
    \A t \in Tasks :
        /\ pc[t] \in {"delete", "replace", "table", "done"} => history[t] = frame[t]
        /\ pc[t] = "done" => latest[t] \in {0, frame[t]}
        /\ pc[t] # "done" => latest[t] = 0

\* Tasks that follow one another are never at work together.
Alone ==
    plan.serial => \A t, u \in Tasks : pc[t] \in Statements /\ pc[u] \in Statements => t = u

\* Between the two statements of a replacement only its own date is left.
Cleared ==
    plan.serial => \A t, k \in Tasks :
        pc[t] = "replace" /\ latest[k] # 0 => DateOf(k) = DateOf(t)

\* Between attempts at a statement there is one left.
Counted == \A t \in Tasks : start[t] = 0 => tries[t] < MaxAttempts

IInv ==
    /\ TypeOK /\ Counted /\ Planned /\ Recorded /\ Alone /\ Cleared /\ OneDate
    /\ PublishedIsServed

-----------------------------------------------------------------------------
\* Nothing is published and nobody is at work.
LEMMA InitHolds == Init => IInv
  BY SnapshotAssumption
  DEF Init, IInv, TypeOK, Counted, Planned, Recorded, Alone, Cleared, OneDate, PublishedIsServed,
      Keys, Tasks, PCs, Statements

\* Every step keeps the types.
LEMMA TypeStep == TypeOK /\ Counted /\ [Next]_vars => TypeOK'
<1>. SUFFICES ASSUME TypeOK, Counted, [Next]_vars PROVE TypeOK'
  OBVIOUS
<1>. USE SnapshotAssumption
<1>1. ASSUME NEW t \in Tasks, Begin(t) PROVE TypeOK'
  <2>1. used[t] + 1 \in 0 .. MaxExecutions
    BY <1>1 DEF TypeOK, Begin
  <2>2. frame' \in [Tasks -> 0 .. MaxExecutions]
    BY <1>1, <2>1 DEF TypeOK, Begin
  <2>. QED  BY <1>1, <2>1, <2>2 DEF TypeOK, Begin, Goto, tables, PCs, Statements
<1>2. ASSUME NEW t \in Tasks, Start(t) PROVE TypeOK'
  <2>1. start' \in [Tasks -> Nat]
    BY <1>2 DEF TypeOK, Start, Target
  <2>2. tries[t] + 1 \in 0 .. MaxAttempts
    BY <1>2 DEF TypeOK, Start, Counted
  <2>. QED  BY <1>2, <2>1, <2>2 DEF TypeOK, Start, tables
<1>3. ASSUME NEW t \in Tasks, Execute(t) PROVE TypeOK'
  <2>1. /\ history' \in [Keys -> 0 .. MaxExecutions]
        /\ latest' \in [Keys -> 0 .. MaxExecutions]
    BY <1>3 DEF TypeOK, Execute, Replaced, Undated, Table, Tasks
  <2>2. commits' \in [{"history", "latest"} -> Nat \ {0}]
    BY <1>3 DEF TypeOK, Execute, Target
  <2>. QED  BY <1>3, <2>1, <2>2 DEF TypeOK, Execute, AfterHistory, Goto, PCs, Statements
<1>4. ASSUME NEW t \in Tasks, Conflict(t) PROVE TypeOK'
  BY <1>4 DEF TypeOK, Conflict, Goto, tables, PCs, Statements
<1>5. ASSUME NEW t \in Tasks, Die(t) PROVE TypeOK'
  BY <1>5 DEF TypeOK, Die, Goto, tables, PCs, Statements
<1>6. CASE UNCHANGED vars
  BY <1>6 DEF TypeOK, vars, tables
<1>. QED  BY <1>1, <1>2, <1>3, <1>4, <1>5, <1>6 DEF Next, Step

-----------------------------------------------------------------------------
\* An attempt starts at a version that is there, and after the last one the
\* task goes back.
LEMMA CountStep ==
    ASSUME IInv, TypeOK', NEW t \in Tasks, Step(t) \/ Die(t) PROVE Counted'
<1>. USE SnapshotAssumption DEF IInv, TypeOK, Counted
<1>1. CASE Begin(t)
  BY <1>1 DEF Begin, Goto
<1>2. CASE Start(t)
  <2>1. commits[Target(pc[t])] # 0
    BY DEF Target
  <2>. QED  BY <1>2, <2>1 DEF Start
<1>3. CASE Execute(t)
  BY <1>3 DEF Execute, AfterHistory, Goto
<1>4. CASE Conflict(t)
  BY <1>4 DEF Conflict, Goto
<1>5. CASE Die(t)
  BY <1>5 DEF Die, Goto
<1>. QED  BY <1>1, <1>2, <1>3, <1>4, <1>5 DEF Step

\* The tasks of a plan are tasks.
LEMMA PlanTyped == TypeOK => plan.tasks \subseteq Tasks
  BY SnapshotAssumption DEF TypeOK

\* A task that begins is one of the plan, and alone where tasks follow one
\* another.
LEMMA BeginKeeps ==
    ASSUME IInv, TypeOK', Counted', NEW t \in Tasks, Begin(t) PROVE IInv'
<1>. DEFINE busy(u) == pc[u] \in Statements
<1>1. /\ t \in plan.tasks /\ pc[t] = "idle"
      /\ plan' = plan /\ history' = history /\ latest' = latest
      /\ pc' = [pc EXCEPT ![t] = "history"] /\ used' = [used EXCEPT ![t] = @ + 1]
      /\ \A u \in Tasks \ {t} : frame'[u] = frame[u]
  BY DEF IInv, TypeOK, Begin, Goto, tables
<1>2. plan.serial => \A u \in Tasks : ~busy(u)
  BY DEF Begin, Statements
<1>3. Planned'
  BY <1>1 DEF IInv, TypeOK, Planned, Statements
<1>4. Recorded'
  BY <1>1 DEF IInv, TypeOK, Recorded
<1>5. Alone'
  BY <1>1, <1>2 DEF IInv, TypeOK, Alone
<1>6. Cleared' /\ OneDate'
  BY <1>1 DEF IInv, TypeOK, Cleared, OneDate
<1>7. PublishedIsServed'
  <2>. SUFFICES ASSUME NEW s \in plan.tasks, pc'[s] = "done",
                      \A u \in plan.tasks : DateOf(u) = DateOf(s) \/ used'[u] = 0
               PROVE  latest[s] = frame'[s] /\ history[s] = frame'[s]
    BY <1>1 DEF PublishedIsServed
  <2>1. plan.tasks \subseteq Tasks
    BY PlanTyped DEF IInv
  <2>2. s # t /\ pc[s] = "done"
    BY <1>1, <2>1 DEF IInv, TypeOK
  <2>3. \A u \in plan.tasks : used'[u] = 0 => used[u] = 0
    BY <1>1, <2>1 DEF IInv, TypeOK
  <2>. QED  BY <1>1, <2>1, <2>2, <2>3 DEF IInv, PublishedIsServed
<1>. QED  BY <1>3, <1>4, <1>5, <1>6, <1>7 DEF IInv

\* An attempt that starts or meets a conflict, and a task that dies, leave the
\* tables as they are and at most send the task back.
LEMMA QuietKeeps ==
    ASSUME IInv, TypeOK', Counted', NEW t \in Tasks, Start(t) \/ Conflict(t) \/ Die(t) PROVE IInv'
<1>1. /\ plan' = plan /\ history' = history /\ latest' = latest
      /\ used' = used /\ frame' = frame /\ pc[t] \in Statements
      /\ pc' = pc \/ pc' = [pc EXCEPT ![t] = "idle"]
  BY DEF Start, Conflict, Die, Goto, tables
<1>2. Planned' /\ Recorded'
  BY <1>1 DEF IInv, TypeOK, Planned, Recorded, Statements
<1>3. Alone' /\ Cleared' /\ OneDate'
  BY <1>1 DEF IInv, TypeOK, Alone, Cleared, OneDate, Statements
<1>4. PublishedIsServed'
  BY <1>1, PlanTyped DEF IInv, TypeOK, PublishedIsServed
<1>. QED  BY <1>2, <1>3, <1>4 DEF IInv

\* What a statement does to the table, and where its task goes.
LEMMA ExecuteCases ==
    ASSUME NEW t \in Tasks, Execute(t)
    PROVE  /\ plan' = plan /\ used' = used /\ frame' = frame
           /\ \/ /\ pc[t] = "history" /\ history' = Replaced(t, history) /\ latest' = latest
                 /\ pc' = [pc EXCEPT ![t] = IF plan.scoped THEN "delete" ELSE "table"]
              \/ /\ pc[t] = "delete" /\ history' = history /\ latest' = Undated(t)
                 /\ pc' = [pc EXCEPT ![t] = "replace"]
              \/ /\ pc[t] = "replace" /\ history' = history /\ latest' = Replaced(t, latest)
                 /\ pc' = [pc EXCEPT ![t] = "done"]
              \/ /\ pc[t] = "table" /\ history' = history /\ latest' = Table(t)
                 /\ pc' = [pc EXCEPT ![t] = "done"]
  BY DEF Execute, AfterHistory, Goto

\* A statement that commits leaves alone what other tasks of its date have
\* published, and what every other has, unless it deletes.
LEMMA ServedKeeps ==
    ASSUME IInv, TypeOK', NEW t \in Tasks, Execute(t) PROVE PublishedIsServed'
<1>. SUFFICES ASSUME NEW s \in plan.tasks, pc'[s] = "done",
                    \A u \in plan.tasks : DateOf(u) = DateOf(s) \/ used[u] = 0
             PROVE  latest'[s] = frame[s] /\ history'[s] = frame[s]
  BY ExecuteCases DEF PublishedIsServed
<1>1. s \in Tasks /\ s \in Keys /\ t \in Keys
  BY PlanTyped DEF IInv, Tasks
<1>2. t \in plan.tasks /\ DateOf(t) = DateOf(s)
  <2>1. pc[t] # "idle"
    BY DEF Execute, Statements
  <2>. QED  BY <2>1 DEF IInv, Planned
<1>3. CASE s = t
  <2>1. pc[t] \in {"replace", "table"} /\ history' = history
    BY <1>1, <1>3, ExecuteCases DEF IInv, TypeOK
  <2>2. latest'[t] = frame[t]
    BY <1>1, <2>1, ExecuteCases DEF Replaced, Table, IInv, TypeOK
  <2>. QED  BY <1>1, <1>3, <2>1, <2>2 DEF IInv, Recorded
<1>4. CASE s # t
  <2>1. pc[s] = "done"
    BY <1>1, <1>4, ExecuteCases DEF IInv, TypeOK
  <2>2. latest[s] = frame[s] /\ history[s] = frame[s]
    BY <2>1 DEF IInv, PublishedIsServed
  <2>3. pc[t] # "table"
    <3>. SUFFICES ASSUME pc[t] = "table" PROVE FALSE
      OBVIOUS
    <3>1. ScopeOf(s) = ScopeOf(t)
      BY <1>2, SnapshotAssumption DEF IInv, TypeOK, Planned
    <3>. QED  BY <1>1, <1>2, <1>4, <3>1 DEF Keys, ScopeOf, DateOf
  <2>4. history'[s] = history[s] /\ latest'[s] = latest[s]
    BY <1>1, <1>2, <1>4, <2>3, ExecuteCases DEF Replaced, Undated, IInv, TypeOK
  <2>. QED  BY <2>2, <2>4
<1>. QED  BY <1>3, <1>4

\* A statement that commits writes what the history holds, and leaves rows of
\* its own date alone once the others are deleted.
LEMMA ExecuteKeeps ==
    ASSUME IInv, TypeOK', Counted', NEW t \in Tasks, Execute(t) PROVE IInv'
<1>. USE ExecuteCases DEF Tasks
<1>0. PublishedIsServed'
  BY ServedKeeps
<1>1. Planned'
  BY DEF IInv, TypeOK, Planned
<1>2. Alone'
  BY DEF IInv, TypeOK, Alone, Statements
<1>3. CASE pc[t] = "history"
  <2>1. Recorded'
    BY <1>3 DEF IInv, TypeOK, Recorded, Replaced
  <2>2. Cleared' /\ OneDate'
    BY <1>3 DEF IInv, TypeOK, Cleared, OneDate
  <2>. QED  BY <1>0, <1>1, <1>2, <2>1, <2>2 DEF IInv
<1>4. CASE pc[t] = "delete"
  <2>1. Recorded'
    BY <1>4 DEF IInv, TypeOK, Recorded, Undated
  <2>2. Cleared' /\ OneDate'
    BY <1>4, <1>2 DEF IInv, TypeOK, Cleared, OneDate, Undated, Alone, Statements
  <2>. QED  BY <1>0, <1>1, <1>2, <2>1, <2>2 DEF IInv
<1>5. CASE pc[t] = "replace"
  <2>1. Recorded'
    BY <1>5 DEF IInv, TypeOK, Recorded, Replaced
  <2>2. Cleared' /\ OneDate'
    BY <1>5, <1>2 DEF IInv, TypeOK, Cleared, OneDate, Replaced, Alone, Statements
  <2>. QED  BY <1>0, <1>1, <1>2, <2>1, <2>2 DEF IInv
<1>6. CASE pc[t] = "table"
  <2>1. Recorded'
    BY <1>6 DEF IInv, TypeOK, Recorded, Table
  <2>2. Cleared' /\ OneDate'
    BY <1>6, <1>2 DEF IInv, TypeOK, Cleared, OneDate, Table, Alone, Statements
  <2>. QED  BY <1>0, <1>1, <1>2, <2>1, <2>2 DEF IInv
<1>. QED  BY <1>3, <1>4, <1>5, <1>6

\* Every step keeps the invariant.
LEMMA StepKeeps == IInv /\ [Next]_vars => IInv'
<1>. SUFFICES ASSUME IInv, [Next]_vars PROVE IInv'
  OBVIOUS
<1>1. TypeOK'
  BY TypeStep DEF IInv
<1>2. CASE UNCHANGED vars
  BY <1>2 DEF vars, tables, IInv, TypeOK, Counted, Planned, Recorded, Alone, Cleared,
    OneDate, PublishedIsServed
<1>. QED  BY <1>1, <1>2, CountStep, BeginKeeps, QuietKeeps, ExecuteKeeps DEF Next, Step

\* The inductive invariant of publish_history_and_latest, for any plan of tasks.
THEOREM Invariance == Spec => []IInv
<1>. QED  BY InitHolds, StepKeeps, PTL DEF Spec

-----------------------------------------------------------------------------
\* Types, for any scopes, dates and bounds on attempts, executions and faults.
THEOREM SnapshotTypes == Spec => []TypeOK
<1>1. IInv => TypeOK
  BY DEF IInv
<1>. QED  BY <1>1, Invariance, PTL

\* Whatever dies or conflicts, latest holds nothing newer than the history: the
\* history is written first.
THEOREM HistoryFirst == Spec => []LatestFollowsHistory
<1>1. IInv => LatestFollowsHistory
  BY DEF IInv, TypeOK, Recorded, LatestFollowsHistory, Tasks
<1>. QED  BY <1>1, Invariance, PTL

\* Tasks that follow one another leave one date in latest, whichever of them dies.
THEOREM DatesFollow == Spec => []OneDate
<1>1. IInv => OneDate
  BY DEF IInv
<1>. QED  BY <1>1, Invariance, PTL

\* What is reported as published is served, and is what the history holds, until
\* a task of another date begins: also where the routes of a date overlap, and for
\* frames with no rows.
THEOREM ServedAsPublished == Spec => []PublishedIsServed
<1>1. IInv => PublishedIsServed
  BY DEF IInv
<1>. QED  BY <1>1, Invariance, PTL

\* What a step does to rows that are served: those it removes are of another
\* date than its own.
LEMMA StepIsGentle ==
    ASSUME IInv, [Next]_vars, NEW k \in Keys, latest[k] # 0, latest'[k] = 0
    PROVE  \E t \in Tasks : DateOf(t) # DateOf(k) /\ pc[t] # pc'[t]
<1>1. PICK t \in Tasks : Execute(t)
  BY DEF Next, Step, Begin, Start, Conflict, Die, tables, vars
<1>2. pc'[t] # pc[t] /\ t \in Keys /\ pc[t] # "idle" /\ pc[t] # "done"
  BY <1>1, ExecuteCases DEF IInv, TypeOK, Tasks
<1>3. k # t /\ k \in plan.tasks /\ t \in plan.tasks
  BY <1>2 DEF IInv, Recorded, Planned, Tasks
<1>4. pc[t] = "delete" \/ pc[t] = "table"
  BY <1>1, <1>2, <1>3, ExecuteCases DEF Replaced, IInv, TypeOK
<1>5. DateOf(k) # DateOf(t)
  <2>1. CASE pc[t] = "delete"
    BY <1>1, <2>1, ExecuteCases DEF Undated
  <2>2. CASE pc[t] = "table"
    <3>1. ScopeOf(k) = ScopeOf(t)
      BY <1>3, <2>2, SnapshotAssumption DEF IInv, TypeOK, Planned
    <3>. QED  BY <1>2, <1>3, <3>1 DEF Keys, ScopeOf, DateOf
  <2>. QED  BY <1>4, <2>1, <2>2
<1>. QED  BY <1>2, <1>5

\* Rows leave latest only by a step of a task that publishes another date, also when
\* writers overlap and their statements are tried again.
THEOREM RowsStay == Spec => RowsLeaveByDate
<1>1. IInv /\ [Next]_vars =>
          [\A k \in Keys :
              latest[k] # 0 /\ latest'[k] = 0 =>
                  \E t \in Tasks : DateOf(t) # DateOf(k) /\ pc[t] # pc'[t]]_vars
  BY StepIsGentle
<1>. QED  BY <1>1, Invariance, PTL DEF Spec, RowsLeaveByDate
=============================================================================
