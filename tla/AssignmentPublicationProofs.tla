--------------------- MODULE AssignmentPublicationProofs ---------------------
(***************************************************************************)
(* Theorems about AssignmentPublication, for every number of runs, dates,  *)
(* contents, retries and faults, whether or not identities are repeated.   *)
(***************************************************************************)
EXTENDS AssignmentPublication, SequenceTheorems, TLAPS

-----------------------------------------------------------------------------
(* The inductive invariant.                                                *)

\* Whatever is in the history table has its scope events.
HistoryHasEvents == \A v \in DOMAIN history : history[v].attempt \in events

\* An execution has its run's attempt; until it has committed its history there
\* is none under that attempt; a receipt it has found is that of its attempt.
RunSound(r) ==
    /\ pc[r] \notin {"idle", "done"} => attempt[r] \in Attempts /\ attempt[r].run = r
    /\ pc[r] \in {"compute", "events", "history"} =>
          \A v \in DOMAIN history : history[v].attempt # attempt[r]
    /\ pc[r] \in {"events", "history", "latest"} => content[r] \in Contents
    /\ pc[r] \in {"history", "latest"} => attempt[r] \in events
    /\ pc[r] = "latest" => \E v \in DOMAIN history : history[v] = Snapshot(r)
    /\ pc[r] = "republish" => version[r] \in DOMAIN history

Tables == HistoryHasEvents /\ LatestIsRecorded /\ OneHistoryPerAttempt

IInv == TypeOK /\ Tables /\ \A r \in Runs : RunSound(r)

-----------------------------------------------------------------------------
(* What a step of one run leaves to the others.                            *)

OnlyLocalsOf(r) ==
    \A s \in Runs \ {r} :
        /\ pc'[s] = pc[s] /\ attempt'[s] = attempt[s]
        /\ content'[s] = content[s] /\ version'[s] = version[s]

OnBehalfOf(r) ==
    /\ events \subseteq events'
    /\ \/ history' = history
       \/ \E h \in Snapshots : h.attempt.run = r /\ history' = Append(history, h)

\* What an append leaves and adds.
LEMMA Appended ==
    ASSUME NEW h \in Snapshots, history \in Seq(Snapshots),
           history' = Append(history, h)
    PROVE  /\ history' \in Seq(Snapshots)
           /\ DOMAIN history \subseteq DOMAIN history'
           /\ \A v \in DOMAIN history : history'[v] = history[v]
           /\ Len(history) + 1 \in DOMAIN history' /\ history'[Len(history) + 1] = h
           /\ \A v \in DOMAIN history' : v \in DOMAIN history \/ v = Len(history) + 1
<1>1. /\ DOMAIN history' = 1 .. Len(history) + 1
      /\ DOMAIN history = 1 .. Len(history) /\ Len(history) \in Nat
      /\ \A v \in DOMAIN history : history'[v] = history[v]
      /\ history'[Len(history) + 1] = h
      /\ history' \in Seq(Snapshots)
  BY AppendProperties
<1> QED
  BY <1>1

\* A step of one run leaves what the invariant says of the others.
LEMMA Others ==
    ASSUME NEW r \in Runs, IInv, OnlyLocalsOf(r), OnBehalfOf(r),
           NEW s \in Runs, s # r
    PROVE  RunSound(s)'
<1>0. /\ pc'[s] = pc[s] /\ attempt'[s] = attempt[s]
      /\ content'[s] = content[s] /\ version'[s] = version[s]
      /\ Snapshot(s)' = Snapshot(s) /\ events \subseteq events'
  BY DEF OnlyLocalsOf, OnBehalfOf, Snapshot
<1>1. RunSound(s) /\ history \in Seq(Snapshots)
  BY DEF IInv, TypeOK
<1>2. CASE history' = history
  BY <1>0, <1>1, <1>2 DEF RunSound
<1>3. CASE \E h \in Snapshots : h.attempt.run = r /\ history' = Append(history, h)
  <2>1. PICK h \in Snapshots : h.attempt.run = r /\ history' = Append(history, h)
    BY <1>3
  <2>2. /\ DOMAIN history \subseteq DOMAIN history'
        /\ \A v \in DOMAIN history : history'[v] = history[v]
        /\ Len(history) + 1 \in DOMAIN history' /\ history'[Len(history) + 1] = h
        /\ \A v \in DOMAIN history' : v \in DOMAIN history \/ v = Len(history) + 1
    BY <1>1, <2>1, Appended
  <2>3. pc[s] \in {"compute", "events", "history"} => h.attempt # attempt[s]
    BY <1>1, <2>1 DEF RunSound
  <2> QED
    BY <1>0, <1>1, <2>2, <2>3 DEF RunSound
<1> QED
  BY <1>2, <1>3 DEF OnBehalfOf

\* What an action has to show: types, the tables, and its own run.
LEMMA StepSound ==
    ASSUME NEW r \in Runs, IInv, OnlyLocalsOf(r), OnBehalfOf(r),
           TypeOK', Tables', RunSound(r)'
    PROVE  IInv'
<1>1. \A s \in Runs : RunSound(s)'
  BY Others
<1> QED
  BY <1>1 DEF IInv

\* Steps that write no table keep what holds of the tables.
LEMMA TablesStay == ASSUME Tables, UNCHANGED stored PROVE Tables'
BY DEF Tables, stored, HistoryHasEvents, LatestIsRecorded, OneHistoryPerAttempt

-----------------------------------------------------------------------------
(* One lemma for each action.                                              *)

\* Empty tables satisfy the invariant.
LEMMA InitSound == Init => IInv
<1> SUFFICES ASSUME Init PROVE IInv
  OBVIOUS
<1>1. TypeOK
  BY PublicationAssumption DEF Init, TypeOK, PCs
<1>2. Tables
  BY DEF Init, Tables, HistoryHasEvents, LatestIsRecorded, OneHistoryPerAttempt
<1>3. \A r \in Runs : RunSound(r)
  BY DEF Init, RunSound
<1> QED
  BY <1>1, <1>2, <1>3 DEF IInv

\* An execution begins with an attempt of its own.
LEMMA BeginSound == \A r \in Runs : IInv /\ Begin(r) => IInv'
<1> SUFFICES ASSUME NEW r \in Runs, IInv, Begin(r) PROVE IInv'
  OBVIOUS
<1>0. TypeOK /\ Tables
  BY DEF IInv
<1>1. used[r] \in 0 .. MaxExecutions /\ used[r] + 1 \in 1 .. MaxExecutions
  BY <1>0, PublicationAssumption DEF TypeOK, Begin
<1>2. PICK k \in 1 .. MaxExecutions :
        attempt' = [attempt EXCEPT ![r] = [run |-> r, count |-> k]]
  <2>1. \A k \in IF RepeatsIdentity THEN 1 .. used[r] + 1 ELSE {used[r] + 1} :
            k \in 1 .. MaxExecutions
    BY <1>1, PublicationAssumption
  <2>2. \E k \in IF RepeatsIdentity THEN 1 .. used[r] + 1 ELSE {used[r] + 1} :
            attempt' = [attempt EXCEPT ![r] = [run |-> r, count |-> k]]
    BY DEF Begin
  <2> QED
    BY <2>1, <2>2, Zenon
<1>3. [run |-> r, count |-> k] \in Attempts
  BY <1>2 DEF Attempts
<1>4. /\ pc' = [pc EXCEPT ![r] = "find"] /\ used' = [used EXCEPT ![r] = used[r] + 1]
      /\ UNCHANGED <<stored, faults, content, version>>
  BY DEF Begin, Goto
<1>5. OnlyLocalsOf(r) /\ OnBehalfOf(r)
  BY <1>0, <1>2, <1>4 DEF TypeOK, OnlyLocalsOf, OnBehalfOf, stored
<1>6. TypeOK'
  <2>1. attempt' \in [Runs -> Attempts \cup {None}]
    BY <1>0, <1>2, <1>3 DEF TypeOK
  <2>2. used' \in [Runs -> 0 .. MaxExecutions]
    BY <1>0, <1>1, <1>4, PublicationAssumption DEF TypeOK
  <2>3. pc' \in [Runs -> PCs]
    BY <1>0, <1>4 DEF TypeOK, PCs
  <2> QED
    BY <1>0, <1>4, <2>1, <2>2, <2>3 DEF TypeOK, stored
<1>7. Tables'
  BY <1>0, <1>4, TablesStay
<1>8. RunSound(r)'
  <2>1. pc'[r] = "find" /\ attempt'[r] = [run |-> r, count |-> k]
    BY <1>0, <1>2, <1>4 DEF TypeOK
  <2> QED
    BY <1>3, <2>1 DEF RunSound
<1> QED
  BY <1>5, <1>6, <1>7, <1>8, StepSound

\* The receipt lookup finds a commit of its attempt, or none is there.
LEMMA FindSound == \A r \in Runs : IInv /\ FindHistory(r) => IInv'
<1> SUFFICES ASSUME NEW r \in Runs, IInv, FindHistory(r) PROVE IInv'
  OBVIOUS
<1>0. TypeOK /\ Tables /\ RunSound(r)
  BY DEF IInv
<1>1. pc[r] = "find" /\ UNCHANGED <<stored, faults, used, attempt, content>>
  BY DEF FindHistory
<1>2. CASE Receipts(attempt[r]) = {} /\ Goto(r, "compute") /\ UNCHANGED version
  <2>1. OnlyLocalsOf(r) /\ OnBehalfOf(r)
    BY <1>0, <1>1, <1>2 DEF TypeOK, OnlyLocalsOf, OnBehalfOf, stored, Goto
  <2>2. TypeOK'
    BY <1>0, <1>1, <1>2 DEF TypeOK, stored, Goto, PCs
  <2>3. \A v \in DOMAIN history : history[v].attempt # attempt[r]
    BY <1>2 DEF Receipts
  <2>4. RunSound(r)'
    BY <1>0, <1>1, <1>2, <2>3 DEF RunSound, TypeOK, stored, Goto
  <2> QED
    BY <1>0, <1>1, <2>1, <2>2, <2>4, StepSound, TablesStay
<1>3. CASE \E v \in DOMAIN history :
              /\ Receipts(attempt[r]) = {v}
              /\ version' = [version EXCEPT ![r] = v]
              /\ Goto(r, "republish")
  <2>1. PICK v \in DOMAIN history :
              /\ version' = [version EXCEPT ![r] = v]
              /\ Goto(r, "republish")
    BY <1>3
  <2>2. v \in Nat
    BY <1>0 DEF TypeOK
  <2>3. OnlyLocalsOf(r) /\ OnBehalfOf(r)
    BY <1>0, <1>1, <2>1 DEF TypeOK, OnlyLocalsOf, OnBehalfOf, stored, Goto
  <2>4. TypeOK'
    BY <1>0, <1>1, <2>1, <2>2 DEF TypeOK, stored, Goto, PCs
  <2>5. RunSound(r)'
    BY <1>0, <1>1, <2>1 DEF RunSound, TypeOK, stored, Goto
  <2> QED
    BY <1>0, <1>1, <2>3, <2>4, <2>5, StepSound, TablesStay
<1> QED
  BY <1>2, <1>3 DEF FindHistory

\* The computed frame is no commit yet.
LEMMA ComputeSound == \A r \in Runs : IInv /\ Compute(r) => IInv'
<1> SUFFICES ASSUME NEW r \in Runs, IInv, Compute(r) PROVE IInv'
  OBVIOUS
<1>0. TypeOK /\ Tables /\ RunSound(r)
  BY DEF IInv
<1>1. PICK c \in Contents : content' = [content EXCEPT ![r] = c]
  BY DEF Compute
<1>2. /\ pc[r] = "compute" /\ pc' = [pc EXCEPT ![r] = "events"]
      /\ UNCHANGED <<stored, faults, used, attempt, version>>
  BY DEF Compute, Goto
<1>3. OnlyLocalsOf(r) /\ OnBehalfOf(r)
  BY <1>0, <1>1, <1>2 DEF TypeOK, OnlyLocalsOf, OnBehalfOf, stored
<1>4. TypeOK'
  BY <1>0, <1>1, <1>2 DEF TypeOK, stored, PCs
<1>5. RunSound(r)'
  BY <1>0, <1>1, <1>2 DEF RunSound, TypeOK, stored
<1> QED
  BY <1>0, <1>2, <1>3, <1>4, <1>5, StepSound, TablesStay

\* A repair publishes the commit it has found, and no other.
LEMMA RepublishSound == \A r \in Runs : IInv /\ Republish(r) => IInv'
<1> SUFFICES ASSUME NEW r \in Runs, IInv, Republish(r) PROVE IInv'
  OBVIOUS
<1>0. TypeOK /\ Tables /\ RunSound(r)
  BY DEF IInv
<1>1. /\ pc[r] = "republish" /\ pc' = [pc EXCEPT ![r] = "done"]
      /\ latest' = history[version[r]]
      /\ UNCHANGED <<events, history, faults, used, attempt, content, version>>
  BY DEF Republish, Goto
<1>2. version[r] \in DOMAIN history
  BY <1>0, <1>1 DEF RunSound
<1>3. history[version[r]] \in Snapshots
  BY <1>0, <1>2 DEF TypeOK
<1>4. OnlyLocalsOf(r) /\ OnBehalfOf(r)
  BY <1>0, <1>1 DEF TypeOK, OnlyLocalsOf, OnBehalfOf
<1>5. TypeOK'
  BY <1>0, <1>1, <1>3 DEF TypeOK, PCs
<1>6. Tables'
  BY <1>0, <1>1, <1>2
  DEF Tables, HistoryHasEvents, LatestIsRecorded, OneHistoryPerAttempt
<1>7. RunSound(r)'
  BY <1>0, <1>1 DEF RunSound, TypeOK
<1> QED
  BY <1>4, <1>5, <1>6, <1>7, StepSound

\* The scope events are written before the history.
LEMMA EventsSound == \A r \in Runs : IInv /\ WriteEvents(r) => IInv'
<1> SUFFICES ASSUME NEW r \in Runs, IInv, WriteEvents(r) PROVE IInv'
  OBVIOUS
<1>0. TypeOK /\ Tables /\ RunSound(r)
  BY DEF IInv
<1>1. /\ pc[r] = "events" /\ pc' = [pc EXCEPT ![r] = "history"]
      /\ events' = events \cup {attempt[r]}
      /\ UNCHANGED <<history, latest, faults, used, attempt, content, version>>
  BY DEF WriteEvents, Goto
<1>2. attempt[r] \in Attempts
  BY <1>0, <1>1 DEF RunSound
<1>3. OnlyLocalsOf(r) /\ OnBehalfOf(r)
  BY <1>0, <1>1 DEF TypeOK, OnlyLocalsOf, OnBehalfOf
<1>4. TypeOK'
  BY <1>0, <1>1, <1>2 DEF TypeOK, PCs
<1>5. Tables'
  BY <1>0, <1>1 DEF Tables, HistoryHasEvents, LatestIsRecorded, OneHistoryPerAttempt
<1>6. RunSound(r)'
  BY <1>0, <1>1 DEF RunSound, TypeOK
<1> QED
  BY <1>3, <1>4, <1>5, <1>6, StepSound

\* The history commit has its events, and is the first of its attempt.
LEMMA HistorySound == \A r \in Runs : IInv /\ WriteHistory(r) => IInv'
<1> SUFFICES ASSUME NEW r \in Runs, IInv, WriteHistory(r) PROVE IInv'
  OBVIOUS
<1> DEFINE h == Snapshot(r)
<1>0. TypeOK /\ Tables /\ RunSound(r)
  BY DEF IInv
<1>1. /\ pc[r] = "history" /\ pc' = [pc EXCEPT ![r] = "latest"]
      /\ history' = Append(history, h)
      /\ UNCHANGED <<events, latest, faults, used, attempt, content, version>>
  BY DEF WriteHistory, Goto
<1>2. /\ h \in Snapshots /\ h.attempt = attempt[r] /\ attempt[r].run = r
      /\ attempt[r] \in events
      /\ \A v \in DOMAIN history : history[v].attempt # attempt[r]
  BY <1>0, <1>1 DEF RunSound, Snapshot, Snapshots
<1>3. Snapshot(r)' = h
  BY <1>1 DEF Snapshot
<1> HIDE DEF h
<1>4. /\ history' \in Seq(Snapshots)
      /\ DOMAIN history \subseteq DOMAIN history'
      /\ \A v \in DOMAIN history : history'[v] = history[v]
      /\ Len(history) + 1 \in DOMAIN history' /\ history'[Len(history) + 1] = h
      /\ \A v \in DOMAIN history' : v \in DOMAIN history \/ v = Len(history) + 1
  BY <1>0, <1>1, <1>2, Appended DEF TypeOK
<1>5. OnlyLocalsOf(r) /\ OnBehalfOf(r)
  BY <1>0, <1>1, <1>2 DEF TypeOK, OnlyLocalsOf, OnBehalfOf
<1>6. TypeOK'
  BY <1>0, <1>1, <1>4 DEF TypeOK, PCs
<1>7. Tables'
  <2>1. HistoryHasEvents'
    BY <1>0, <1>1, <1>2, <1>4 DEF Tables, HistoryHasEvents
  <2>2. LatestIsRecorded'
    BY <1>0, <1>1, <1>4 DEF Tables, LatestIsRecorded
  <2>3. OneHistoryPerAttempt'
    BY <1>0, <1>2, <1>4 DEF Tables, OneHistoryPerAttempt
  <2> QED
    BY <2>1, <2>2, <2>3 DEF Tables
<1>8. RunSound(r)'
  BY <1>0, <1>1, <1>2, <1>3, <1>4 DEF RunSound, TypeOK
<1> QED
  BY <1>5, <1>6, <1>7, <1>8, StepSound

\* Latest takes over a commit that history holds.
LEMMA LatestSound == \A r \in Runs : IInv /\ WriteLatest(r) => IInv'
<1> SUFFICES ASSUME NEW r \in Runs, IInv, WriteLatest(r) PROVE IInv'
  OBVIOUS
<1>0. TypeOK /\ Tables /\ RunSound(r)
  BY DEF IInv
<1>1. /\ pc[r] = "latest" /\ pc' = [pc EXCEPT ![r] = "done"]
      /\ latest' = Snapshot(r)
      /\ UNCHANGED <<events, history, faults, used, attempt, content, version>>
  BY DEF WriteLatest, Goto
<1>2. /\ Snapshot(r) \in Snapshots /\ Snapshot(r).attempt = attempt[r]
      /\ attempt[r] \in events /\ \E v \in DOMAIN history : history[v] = Snapshot(r)
  BY <1>0, <1>1 DEF RunSound, Snapshot, Snapshots
<1>3. OnlyLocalsOf(r) /\ OnBehalfOf(r)
  BY <1>0, <1>1 DEF TypeOK, OnlyLocalsOf, OnBehalfOf
<1>4. TypeOK'
  BY <1>0, <1>1, <1>2 DEF TypeOK, PCs
<1>5. Tables'
  BY <1>0, <1>1, <1>2
  DEF Tables, HistoryHasEvents, LatestIsRecorded, OneHistoryPerAttempt
<1>6. RunSound(r)'
  BY <1>0, <1>1 DEF RunSound, TypeOK
<1> QED
  BY <1>3, <1>4, <1>5, <1>6, StepSound

\* An execution that fails or dies leaves the tables as they are.
LEMMA StopSound == \A r \in Runs : IInv /\ Stop(r) => IInv'
<1> SUFFICES ASSUME NEW r \in Runs, IInv, Stop(r) PROVE IInv'
  OBVIOUS
<1>0. TypeOK /\ Tables
  BY DEF IInv
<1>1. /\ pc' = [pc EXCEPT ![r] = "idle"]
      /\ attempt' = [attempt EXCEPT ![r] = None]
      /\ content' = [content EXCEPT ![r] = None]
      /\ version' = [version EXCEPT ![r] = 0]
      /\ faults' \in 0 .. MaxFaults
      /\ UNCHANGED <<stored, used>>
  BY <1>0, PublicationAssumption DEF Stop, Goto, TypeOK
<1>2. OnlyLocalsOf(r) /\ OnBehalfOf(r)
  BY <1>0, <1>1 DEF TypeOK, OnlyLocalsOf, OnBehalfOf, stored
<1>3. TypeOK'
  BY <1>0, <1>1 DEF TypeOK, stored, PCs
<1>4. RunSound(r)'
  BY <1>0, <1>1 DEF RunSound, TypeOK
<1> QED
  BY <1>0, <1>1, <1>2, <1>3, <1>4, StepSound, TablesStay

\* Every step, and stuttering, keeps the invariant.
LEMMA NextSound == IInv /\ [Next]_vars => IInv'
<1> SUFFICES ASSUME IInv, [Next]_vars PROVE IInv'
  OBVIOUS
<1>1. CASE UNCHANGED vars
  <2> USE <1>1 DEF vars, stored, locals
  <2>1. TypeOK'
    BY DEF IInv, TypeOK
  <2>2. Tables'
    BY TablesStay DEF IInv
  <2>3. \A r \in Runs : RunSound(r)'
    BY DEF IInv, RunSound, Snapshot
  <2> QED
    BY <2>1, <2>2, <2>3 DEF IInv
<1>2. ASSUME NEW r \in Runs, Step(r) \/ Stop(r) PROVE IInv'
  BY <1>2, BeginSound, FindSound, RepublishSound, ComputeSound, EventsSound,
     HistorySound, LatestSound, StopSound DEF Step
<1> QED
  BY <1>1, <1>2 DEF Next

\* The inductive invariant of publish_bulk_assignment_build.
LEMMA Invariance == Spec => []IInv
<1> QED
  BY InitSound, NextSound, PTL DEF Spec

-----------------------------------------------------------------------------
(* The theorems.                                                           *)

\* The tables and the executions' state keep their types.
THEOREM TypeCorrect == Spec => []TypeOK
<1>1. IInv => TypeOK
  BY DEF IInv
<1> QED
  BY <1>1, Invariance, PTL

\* The latest table is one recorded computation, with its scope events.
THEOREM Recorded == Spec => []LatestIsRecorded
<1>1. IInv => LatestIsRecorded
  BY DEF IInv, Tables
<1> QED
  BY <1>1, Invariance, PTL

\* The history table takes one commit of an attempt.
THEOREM OneHistory == Spec => []OneHistoryPerAttempt
<1>1. IInv => OneHistoryPerAttempt
  BY DEF IInv, Tables
<1> QED
  BY <1>1, Invariance, PTL

-----------------------------------------------------------------------------
(* Success leaves latest and history agreeing.  This takes one more invariant: *)
(* executions do not overlap, so the last history commit is the last           *)
(* execution's, and an identity that is an execution's own is new.             *)

Busy(r) == pc[r] \notin {"idle", "done"}

\* One execution is at work at a time.
OneBusy == \A r, s \in Runs : Busy(r) /\ Busy(s) => r = s

\* Committed identities are those of executions so far; one that is about to
\* commit its history has committed none.
Counted(r) ==
    /\ \A v \in DOMAIN history :
           history[v].attempt.run = r =>
               /\ history[v].attempt.count <= used[r]
               /\ pc[r] \in {"find", "compute", "events", "history", "republish"}
                     => history[v].attempt.count < used[r]
    /\ Busy(r) => attempt[r].count <= used[r]
    /\ pc[r] = "republish" => history[version[r]].attempt = attempt[r]

\* What an execution has committed last is the last commit of the table.
CommittedLast(r) ==
    pc[r] = "latest" => Len(history) \in DOMAIN history /\ history[Len(history)] = Snapshot(r)

SerialInv == OneBusy /\ \A r \in Runs : Counted(r) /\ CommittedLast(r)

LInv == IInv /\ SerialInv

\* No execution has begun.
LEMMA SerialInit == Init => SerialInv
  BY DEF Init, SerialInv, OneBusy, Counted, CommittedLast, Busy

\* An execution begins when no other is at work, under an identity of its run
\* that is at most its own.
LEMMA SerialBegin ==
    ASSUME LInv, IInv', NEW r \in Runs, Begin(r) PROVE SerialInv'
<1>0. TypeOK
  BY DEF LInv, IInv
<1>1. PICK k \in IF RepeatsIdentity THEN 1 .. used[r] + 1 ELSE {used[r] + 1} :
          attempt' = [attempt EXCEPT ![r] = [run |-> r, count |-> k]]
  BY DEF Begin
<1>2. k <= used[r] + 1 /\ used[r] \in Nat
  BY <1>0, <1>1, PublicationAssumption DEF TypeOK
<1>3. /\ pc' = [pc EXCEPT ![r] = "find"] /\ used' = [used EXCEPT ![r] = @ + 1]
      /\ history' = history /\ \A s \in Runs : ~Busy(s)
  BY DEF Begin, Goto, stored, Busy
<1>4. OneBusy'
  BY <1>0, <1>3 DEF TypeOK, OneBusy, Busy
<1>5. ASSUME NEW s \in Runs PROVE Counted(s)' /\ CommittedLast(s)'
  <2>1. Counted(s) /\ \A v \in DOMAIN history : history[v].attempt.count \in Nat
    <3>1. \A v \in DOMAIN history : history[v] \in Snapshots
      BY <1>0 DEF TypeOK
    <3>2. \A h \in Snapshots : h.attempt.count \in Nat
      BY PublicationAssumption DEF Snapshots, Attempts
    <3>. QED  BY <3>1, <3>2 DEF LInv, SerialInv
  <2>2. CASE s = r
    <3>1. pc'[r] = "find" /\ attempt'[r].count = k /\ used'[r] = used[r] + 1
      BY <1>0, <1>1, <1>3 DEF TypeOK
    <3>. QED  BY <1>2, <1>3, <2>1, <2>2, <3>1 DEF Counted, CommittedLast, Busy
  <2>3. CASE s # r
    <3>1. ~Busy(s) /\ pc'[s] = pc[s] /\ used'[s] = used[s]
      BY <1>0, <1>3, <2>3 DEF TypeOK
    <3>. QED  BY <1>3, <2>1, <3>1 DEF Counted, CommittedLast, Busy
  <2>. QED  BY <2>2, <2>3
<1>. QED  BY <1>4, <1>5 DEF SerialInv

\* A step that does not commit a history leaves the order of executions alone.
LEMMA SerialQuiet ==
    ASSUME LInv, IInv', NEW r \in Runs,
           \/ FindHistory(r) \/ Compute(r) \/ WriteEvents(r)
           \/ Republish(r) \/ WriteLatest(r) \/ Stop(r)
    PROVE  SerialInv'
<1>0. TypeOK
  BY DEF LInv, IInv
<1>1. /\ history' = history /\ used' = used /\ Busy(r)
      /\ \E label \in PCs : pc' = [pc EXCEPT ![r] = label]
  <2>. USE DEF Goto, stored, Busy, PCs
  <2>1. CASE FindHistory(r)
    BY <2>1 DEF FindHistory
  <2>2. CASE Compute(r)
    BY <2>2 DEF Compute
  <2>3. CASE WriteEvents(r)
    BY <2>3 DEF WriteEvents
  <2>4. CASE Republish(r) \/ WriteLatest(r)
    BY <2>4 DEF Republish, WriteLatest
  <2>5. CASE Stop(r)
    BY <2>5 DEF Stop
  <2>. QED  BY <2>1, <2>2, <2>3, <2>4, <2>5
<1>2. \A s \in Runs \ {r} : ~Busy(s) /\ pc'[s] = pc[s]
  BY <1>0, <1>1 DEF LInv, SerialInv, OneBusy, TypeOK
<1>3. OneBusy'
  BY <1>2 DEF OneBusy, Busy
<1>4. Counted(r)' /\ CommittedLast(r)'
  <2>1. Counted(r)
    BY DEF LInv, SerialInv
  <2>2. CASE FindHistory(r)
    <3>1. /\ attempt' = attempt /\ pc[r] = "find"
          /\ \/ pc'[r] = "compute"
             \/ pc'[r] = "republish" /\ version'[r] \in Receipts(attempt[r])
      BY <1>0, <2>2 DEF FindHistory, Goto, TypeOK
    <3>. QED  BY <1>1, <2>1, <3>1 DEF Counted, CommittedLast, Busy, Receipts
  <2>3. CASE Compute(r)
    BY <1>0, <1>1, <2>1, <2>3 DEF Compute, Goto, TypeOK, Counted, CommittedLast, Busy
  <2>4. CASE WriteEvents(r)
    BY <1>0, <1>1, <2>1, <2>4 DEF WriteEvents, Goto, TypeOK, Counted, CommittedLast, Busy
  <2>5. CASE Republish(r) \/ WriteLatest(r) \/ Stop(r)
    <3>1. pc'[r] \in {"idle", "done"}
      BY <1>0, <2>5 DEF Republish, WriteLatest, Stop, Goto, TypeOK
    <3>. QED  BY <1>1, <2>1, <3>1 DEF Counted, CommittedLast, Busy
  <2>. QED  BY <2>2, <2>3, <2>4, <2>5
<1>5. ASSUME NEW s \in Runs \ {r} PROVE Counted(s)' /\ CommittedLast(s)'
  BY <1>1, <1>2 DEF LInv, SerialInv, Counted, CommittedLast, Busy
<1>. QED  BY <1>3, <1>4, <1>5 DEF SerialInv

\* A history commit is the last, and its identity is counted.
LEMMA SerialHistory ==
    ASSUME LInv, IInv', NEW r \in Runs, WriteHistory(r) PROVE SerialInv'
<1>. DEFINE h == Snapshot(r)
<1>0. TypeOK /\ RunSound(r) /\ Counted(r)
  BY DEF LInv, IInv, SerialInv
<1>1. /\ pc[r] = "history" /\ pc' = [pc EXCEPT ![r] = "latest"]
      /\ history' = Append(history, h)
      /\ UNCHANGED <<used, attempt, content, version>>
  BY DEF WriteHistory, Goto
<1>2. /\ h \in Snapshots /\ h.attempt = attempt[r] /\ attempt[r].run = r
      /\ Snapshot(r)' = h
  BY <1>0, <1>1 DEF RunSound, Snapshot, Snapshots
<1>3. attempt[r].count <= used[r]
  BY <1>0, <1>1 DEF Counted, Busy
<1>. HIDE DEF h
<1>4. /\ DOMAIN history \subseteq DOMAIN history'
      /\ \A v \in DOMAIN history : history'[v] = history[v]
      /\ Len(history) + 1 \in DOMAIN history' /\ history'[Len(history) + 1] = h
      /\ \A v \in DOMAIN history' : v \in DOMAIN history \/ v = Len(history) + 1
      /\ Len(history') = Len(history) + 1
  BY <1>0, <1>1, <1>2, Appended, AppendProperties DEF TypeOK
<1>5. \A s \in Runs \ {r} : ~Busy(s) /\ pc'[s] = pc[s]
  BY <1>0, <1>1 DEF LInv, SerialInv, OneBusy, TypeOK, Busy
<1>6. OneBusy'
  BY <1>5 DEF OneBusy, Busy
<1>7. pc'[r] = "latest"
  BY <1>0, <1>1 DEF TypeOK
<1>8. Counted(r)' /\ CommittedLast(r)'
  BY <1>0, <1>1, <1>2, <1>3, <1>4, <1>7 DEF Counted, CommittedLast, Busy
<1>9. ASSUME NEW s \in Runs \ {r} PROVE Counted(s)' /\ CommittedLast(s)'
  <2>1. Counted(s) /\ h.attempt.run # s
    BY <1>2 DEF LInv, SerialInv
  <2>. QED  BY <1>1, <1>4, <1>5, <2>1 DEF Counted, CommittedLast, Busy
<1>. QED  BY <1>6, <1>8, <1>9 DEF SerialInv

\* Every step keeps the invariant of runs that follow one another.
LEMMA SerialStep == LInv /\ [Next]_vars => LInv'
<1>. SUFFICES ASSUME LInv, [Next]_vars PROVE LInv'
  OBVIOUS
<1>1. IInv'
  BY NextSound DEF LInv
<1>2. CASE UNCHANGED vars
  BY <1>1, <1>2
  DEF LInv, SerialInv, OneBusy, Counted, CommittedLast, Busy, Snapshot, vars, stored, locals
<1>. QED
  BY <1>1, <1>2, SerialBegin, SerialQuiet, SerialHistory DEF LInv, Next, Step

\* The invariant of runs that follow one another.
LEMMA SerialInvariance == Spec => []LInv
<1>. QED  BY InitSound, SerialInit, SerialStep, PTL DEF Spec, LInv

\* The last commit of a table is the one that counts for its date.
LEMMA LastIsCurrent ==
    ASSUME history \in Seq(Snapshots), Len(history) \in DOMAIN history
    PROVE  Current(DateOf[history[Len(history)].attempt.run]) = history[Len(history)]
<1>. DEFINE d == DateOf[history[Len(history)].attempt.run]
            onDate == {v \in DOMAIN history : DateOf[history[v].attempt.run] = d}
<1>1. /\ Len(history) \in onDate /\ \A w \in onDate : w \in Nat /\ w <= Len(history)
      /\ Len(history) \in Nat
  OBVIOUS
<1>2. (CHOOSE v \in onDate : \A w \in onDate : w <= v) = Len(history)
  <2>. HIDE DEF onDate
  <2>. QED  BY <1>1
<1>. QED  BY <1>2 DEF Current

\* An execution of its own identity that succeeds has just written the last
\* history commit to latest.
LEMMA SuccessStep ==
    ASSUME LInv, [Next]_vars, NEW r \in Runs,
           pc[r] # "done", pc'[r] = "done", attempt[r].count = used[r]
    PROVE  latest' = Current(DateOf[r])'
<1>0. TypeOK /\ RunSound(r) /\ Counted(r) /\ CommittedLast(r)
  BY DEF LInv, IInv, SerialInv
<1>1. Republish(r) \/ WriteLatest(r)
  BY <1>0 DEF Next, Step, vars, locals, Begin, FindHistory, Compute, WriteEvents,
              WriteHistory, Republish, WriteLatest, Stop, Goto, TypeOK
<1>2. ~Republish(r)
  <2>1. ASSUME Republish(r) PROVE FALSE
    <3>1. pc[r] = "republish" /\ version[r] \in DOMAIN history
      BY <1>0, <2>1 DEF Republish, RunSound
    <3>2. /\ history[version[r]].attempt = attempt[r] /\ attempt[r].run = r
          /\ history[version[r]].attempt.count < used[r]
      BY <1>0, <3>1 DEF Counted, RunSound
    <3>3. used[r] \in Nat
      BY <1>0, PublicationAssumption DEF TypeOK
    <3>. QED  BY <3>2, <3>3
  <2>. QED  BY <2>1
<1>3. /\ pc[r] = "latest" /\ latest' = Snapshot(r) /\ history' = history
  BY <1>1, <1>2 DEF WriteLatest
<1>4. /\ Len(history) \in DOMAIN history /\ history[Len(history)] = Snapshot(r)
      /\ Snapshot(r).attempt.run = r
  BY <1>0, <1>3 DEF CommittedLast, RunSound, Snapshot
<1>5. Current(DateOf[r]) = Snapshot(r)
  BY <1>0, <1>4, LastIsCurrent DEF TypeOK
<1>6. Current(DateOf[r])' = Current(DateOf[r])
  BY <1>3 DEF Current
<1>. QED  BY <1>3, <1>5, <1>6

\* After a success under an identity of its own, latest and history agree,
\* whatever other executions left half-done or repeated.
THEOREM SuccessAgrees == Spec => SuccessAgreesWithHistory
<1>1. LInv /\ [Next]_vars =>
          [\A r \in Runs :
              pc[r] # "done" /\ pc'[r] = "done" /\ attempt[r].count = used[r]
                  => latest' = Current(DateOf[r])']_vars
  BY SuccessStep
<1>. QED  BY <1>1, SerialInvariance, PTL DEF Spec, SuccessAgreesWithHistory
=============================================================================
