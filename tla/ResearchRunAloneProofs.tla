----------------------- MODULE ResearchRunAloneProofs -----------------------
(***************************************************************************)
(* More about ResearchRun, for executions whose lease does not lapse while *)
(* they are at work (Overlap = FALSE): nothing is created twice, and the   *)
(* model that a COMPLETE claim stands for stays.                           *)
(***************************************************************************)
EXTENDS ResearchRunProofs

-----------------------------------------------------------------------------
(* The inductive invariant, over that of ResearchRunProofs.                *)

\* An execution at work which has not given its lease away, and which is not
\* in the handler that marks the parent run.
Loose == {"awaiting", "stored", "disown"}
Working(r) == ex[r].pc \notin Resting \cup {"claim"} \cup Loose

\* It knows the claim, and holds it as long as it is not COMPLETE.
Alone(r) ==
    Working(r) =>
        /\ ex[r].mine = entry
        /\ entry.checkpoint # COMPLETE =>
              entry.token = ex[r].tok /\ entry.owner = r /\ ~lapsed

\* What a search has found is still there when the write comes.
Guarded == {"append", "newparent", "newdecision", "child", "newchild", "train", "store",
            "search", "register", "persist"}

Found(r, a) ==
    /\ ex[r].pc = "append" => lake.frames[a] = 0
    /\ ex[r].pc = "newparent" => Len(mlflow.parents[a]) = 0
    /\ ex[r].pc = "newdecision" => Decided(a) = {}
    /\ ex[r].pc \in {"child", "newchild", "train", "store"} =>
          lake.receipts[a][Candidate(r)] = None
    /\ ex[r].pc = "newchild" => mlflow.children[a][Candidate(r)] = <<>>
    /\ ex[r].pc = "train" =>
          ex[r].hand = 1 /\ mlflow.children[a][Candidate(r)] = <<None>>
    /\ ex[r].pc = "store" => mlflow.children[a][Candidate(r)] = <<ex[r].eval.tags>>
    /\ ex[r].pc \in {"search", "register"} => lake.models[a][Pick(r)] = 0
    /\ ex[r].pc = "register" => mlflow.versions[a][Pick(r)] = 0
    /\ ex[r].pc = "persist" =>
          lake.models[a][Pick(r)] = 0 \/ ex[r].hand = lake.models[a][Pick(r)]

StillFound(r) ==
    \A a \in Tokens : ex[r].mine # None /\ ex[r].mine.attempt = a => Found(r, a)

Neat == NothingTwice /\ \A r \in Runs : Alone(r) /\ StillFound(r)

\* The step that SelectedModelStays allows.
ModelStays ==
    entry # None /\ entry.checkpoint = COMPLETE =>
        /\ lake'.models = lake.models
        /\ mlflow'.versions = mlflow.versions

\* What every step is shown to do.
Orderly == Neat' /\ ModelStays
-----------------------------------------------------------------------------
(* One execution at work.                                                  *)

\* An execution at work is awake, and what it knows is the claim.
LEMMA AtWorkAlone ==
    ASSUME IInv, Neat, NEW r \in Runs, Working(r)
    PROVE  /\ Awake(r) /\ ex[r].pc # "disown" /\ ex[r].mine = entry
           /\ entry \in Rows /\ entry # None /\ Attempt(r) \in Tokens
           /\ Stage(r) = entry.checkpoint /\ entry.checkpoint \in 0 .. 6
           /\ entry.checkpoint # COMPLETE =>
                 entry.token = ex[r].tok /\ entry.owner = r /\ ~lapsed
<1>1. Awake(r) /\ ex[r].pc # "disown"
  BY DEF Working, Awake, Loose
<1>2. Alone(r)
  BY DEF Neat
<1> QED
  BY <1>1, <1>2, AtWork DEF Alone, Stage

\* Until the claim is COMPLETE nobody else is at work.
LEMMA NobodyElse ==
    ASSUME IInv, Neat, NEW r \in Runs, NEW s \in Runs \ {r}, Working(r), Working(s)
    PROVE  entry.checkpoint = COMPLETE
<1> SUFFICES ASSUME entry.checkpoint # COMPLETE PROVE FALSE
  OBVIOUS
<1>1. entry.token = ex[r].tok /\ entry.token = ex[s].tok
  BY AtWorkAlone
<1>2. Holds(r) /\ ex[r].tok # 0
  BY AtWorkAlone, AtWork
<1> QED
  BY <1>1, <1>2 DEF Holds

-----------------------------------------------------------------------------
(* Steps that create nothing.                                              *)

\* Neither the stores nor the runs and versions in MLflow grow.
Kept ==
    /\ input' = input
    /\ lake'.frames = lake.frames /\ lake'.receipts = lake.receipts
    /\ lake'.decisions = lake.decisions /\ lake'.models = lake.models
    /\ mlflow'.children = mlflow.children /\ mlflow'.versions = mlflow.versions
    /\ \A a \in Tokens : Len(mlflow'.parents[a]) = Len(mlflow.parents[a])

\* Then nothing is there twice that was not.
LEMMA KeptTwice ==
    ASSUME Neat, Kept
    PROVE  NothingTwice'
<1>1. \A a \in Tokens : Decided(a)' = Decided(a)
  BY DEF Kept, Decided
<1> QED
  BY <1>1 DEF Neat, NothingTwice, Kept

\* The choice of an execution depends on its row and on the receipts.
LEMMA SamePick ==
    ASSUME NEW r \in Runs, NEW a \in Tokens, Attempt(r) = a, ex'[r].mine = ex[r].mine,
           input' = input, lake'.receipts = lake.receipts
    PROVE  Pick(r)' = Pick(r)
<1>1. ReadyOnes(a)' = ReadyOnes(a)
  BY DEF ReadyOnes
<1>2. Recommended(a)' = Recommended(a)
  BY <1>1, Zenon DEF Recommended
<1>3. Attempt(r)' = a
  BY DEF Attempt
<1>4. Pick(r) = IF r \in Reviewers THEN input.choice[r] ELSE Recommended(a)
  BY PickIs
<1>5. Pick(r)' = IF r \in Reviewers THEN input'.choice[r] ELSE Recommended(a)'
  BY <1>3, PickWillBe
<1> QED
  BY <1>2, <1>4, <1>5

\* So does the candidate it evaluates on those that are left.
LEMMA SameCandidate ==
    ASSUME NEW r \in Runs, ex'[r].left = ex[r].left
    PROVE  Candidate(r)' = Candidate(r)
BY DEF Candidate

\* Those who do not move still find what they found.
LEMMA KeptFound ==
    ASSUME Neat, Kept, NEW s \in Runs, ex'[s] = ex[s]
    PROVE  StillFound(s)'
<1> SUFFICES ASSUME NEW a \in Tokens, ex[s].mine # None, ex[s].mine.attempt = a
             PROVE  Found(s, a)'
  BY DEF StillFound
<1>1. Found(s, a)
  BY DEF Neat, StillFound
<1>2. Pick(s)' = Pick(s)
  BY SamePick DEF Attempt, Kept
<1>3. Candidate(s)' = Candidate(s)
  BY SameCandidate
<1>4. Decided(a)' = Decided(a)
  BY DEF Kept, Decided
<1> QED
  BY <1>1, <1>2, <1>3, <1>4 DEF Found, Kept

\* At other steps there is nothing to find.
LEMMA NothingFound ==
    ASSUME NEW r \in Runs, ex'[r].pc \notin Guarded
    PROVE  StillFound(r)'
BY DEF StillFound, Found, Guarded

\* The claim stays, and an execution does no more than go on with its work.
GoesOn(r) ==
    /\ UNCHANGED ledgerVars /\ Same(r)
    /\ Working(r)' => Working(r) /\ ex'[r].tok = ex[r].tok /\ ex'[r].mine = ex[r].mine

\* Then everybody knows the claim as before.
LEMMA StillAlone ==
    ASSUME Neat, NEW r \in Runs, GoesOn(r)
    PROVE  \A s \in Runs : Alone(s)'
<1>1. ASSUME NEW s \in Runs \ {r} PROVE Alone(s)'
  BY <1>1 DEF Neat, Alone, Working, GoesOn, Same, ledgerVars
<1>2. Alone(r)'
  BY DEF Neat, Alone, Working, GoesOn, ledgerVars
<1> QED
  BY <1>1, <1>2

\* A step that creates nothing and leaves the claim alone: it remains to see to
\* what the execution has found.
LEMMA LookOK ==
    ASSUME Neat, NEW r \in Runs, Kept, GoesOn(r), StillFound(r)'
    PROVE  Orderly
<1>1. \A s \in Runs \ {r} : StillFound(s)'
  BY KeptFound DEF GoesOn, Same
<1> QED
  BY <1>1, KeptTwice, StillAlone DEF Neat, Orderly, ModelStays, Kept

\* The execution goes on to a step that needs nothing.
LEMMA GoOK ==
    ASSUME IInv, Neat, NEW r \in Runs, Kept, UNCHANGED ledgerVars, Working(r),
           NEW step \in Steps, step \notin Guarded, Go(r, step)
    PROVE  Orderly
<1>1. Same(r) /\ Keeps(r) /\ ex'[r].pc = step
  BY GoMoves DEF IInv
<1> QED
  BY <1>1, LookOK, NothingFound DEF GoesOn, Keeps

\* It is over, or goes on to mark the parent run.
LEMMA StopMoves ==
    ASSUME IInv, NEW r \in Runs, End(r) \/ Return(r) \/ Raise(r)
    PROVE  Same(r) /\ ex'[r].pc \in Resting \cup {"disown"}
BY EndMoves, RaiseMoves DEF IInv, Stopped, Disowns

\* An execution that stops leaves all to the others.
LEMMA StopsOK ==
    ASSUME IInv, Neat, NEW r \in Runs, Kept, UNCHANGED ledgerVars,
           End(r) \/ Return(r) \/ Raise(r)
    PROVE  Orderly
<1>1. Same(r) /\ ex'[r].pc \in Resting \cup {"disown"}
  BY StopMoves
<1>2. GoesOn(r) /\ ex'[r].pc \notin Guarded
  BY <1>1 DEF GoesOn, Working, Loose, Resting, Guarded
<1> QED
  BY <1>2, LookOK, NothingFound

\* A step that touches neither the stores nor MLflow.
LEMMA ReadsKeep ==
    ASSUME lake' = lake, mlflow' = mlflow, input' = input
    PROVE  Kept
BY DEF Kept

\* A step that writes the status of a parent run.
LEMMA MarkKeeps ==
    ASSUME IInv, lake' = lake, input' = input, NEW a \in Tokens, NEW n,
           NEW status \in Statuses, mlflow' = [mlflow EXCEPT !.parents[a][n] = status]
    PROVE  Kept
<1>1. \A b \in Tokens : Len(mlflow'.parents[b]) = Len(mlflow.parents[b])
  BY Marked DEF IInv
<1>2. mlflow'.children = mlflow.children /\ mlflow'.versions = mlflow.versions
  BY DEF IInv, Typed, Trackers
<1> QED
  BY <1>1, <1>2 DEF Kept
\* The build of an attempt is stored.
LEMMA BuildKeeps ==
    ASSUME IInv, mlflow' = mlflow, input' = input, NEW a, NEW row,
           lake' = [lake EXCEPT !.builds[a] = row]
    PROVE  Kept
BY DEF IInv, Typed, Lakes, Kept

\* The execution goes on to a write, having found what the write needs.
LEMMA FoundOK ==
    ASSUME IInv, Neat, NEW r \in Runs, Kept, UNCHANGED ledgerVars, Working(r), Same(r),
           Keeps(r), \A a \in Tokens : Attempt(r) = a => Found(r, a)'
    PROVE  Orderly
<1>1. StillFound(r)'
  BY DEF StillFound, Keeps, Attempt
<1> QED
  BY <1>1, LookOK DEF GoesOn, Keeps

-----------------------------------------------------------------------------
(* The reads, and the writes that create nothing.                          *)

\* Steps that go on to one that needs nothing, or stop.
LEMMA EasyReads ==
    ASSUME IInv, Neat, NEW r \in Runs,
           ReadFrame(r) \/ Awaiting(r) \/ Reviewed(r) \/ ReadTest(r)
    PROVE  Orderly
<1>1. Kept /\ UNCHANGED ledgerVars
  BY ReadsKeep DEF ReadFrame, Awaiting, Reviewed, ReadTest, At, Reads, ledgerVars
<1>2. CASE End(r) \/ Return(r) \/ Raise(r)
  BY <1>1, <1>2, StopsOK
<1>3. CASE Working(r) /\ (Go(r, "parent") \/ Go(r, "enter") \/ Go(r, "model"))
  BY <1>1, <1>3, GoOK DEF Steps, Inside, Guarded
<1>4. ex[r].pc \in {"readframe", "test"} => Working(r)
  BY DEF Working, Resting, Loose
<1> QED
  BY <1>2, <1>3, <1>4 DEF ReadFrame, Awaiting, Reviewed, ReadTest, At

\* A claim that is met COMPLETE is loaded again.
LEMMA ReloadAlone ==
    ASSUME IInv, Neat, NEW r \in Runs, Reload(r)
    PROVE  Orderly
<1>1. Kept /\ UNCHANGED ledgerVars
  BY ReadsKeep DEF Reload, At, Reads, ledgerVars
<1>2. CASE End(r)
  BY <1>1, <1>2, StopsOK
<1>3. CASE ex' = [ex EXCEPT ![r].pc = "reuse", ![r].old = CHOOSE a \in Selectable : TRUE]
  <2> DEFINE found == CHOOSE a \in Selectable : TRUE
  <2>1. ex' = [ex EXCEPT ![r].pc = "reuse", ![r].old = found] /\ Typed
    BY <1>3 DEF IInv
  <2> HIDE DEF found
  <2>2. Same(r)
    BY <2>1 DEF Same, Typed
  <2>3. ex'[r].pc = "reuse" /\ ex'[r].tok = ex[r].tok /\ ex'[r].mine = ex[r].mine
    BY <2>1, ExFields DEF Typed, Executions
  <2>4. Working(r)
    BY DEF Reload, At, Working, Resting, Loose
  <2>5. GoesOn(r) /\ ex'[r].pc \notin Guarded
    BY <1>1, <2>2, <2>3, <2>4 DEF GoesOn, Guarded
  <2> QED
    BY <1>1, <2>5, LookOK, NothingFound
<1> QED
  BY <1>2, <1>3 DEF Reload

\* The result of an earlier execution is taken up, its parent run set right.
LEMMA ReuseAlone ==
    ASSUME IInv, Neat, NEW r \in Runs, Reuse(r)
    PROVE  Orderly
<1>1. /\ UNCHANGED ledgerVars /\ lake' = lake /\ input' = input /\ Working(r) /\ Awake(r)
      /\ ex[r].pc = "reuse"
  BY DEF Reuse, At, OnlyMlflow, ledgerVars, Working, Awake, Resting, Loose
<1>2. ex[r].old \in Tokens
  BY <1>1, AtWork DEF Casting, Selectable
<1>3. Kept
  <2>1. CASE mlflow' = mlflow
    BY <1>1, <2>1, ReadsKeep
  <2>2. CASE mlflow' = [mlflow EXCEPT
                            !.parents[ex[r].old][lake.builds[ex[r].old].parent] = "FINISHED"]
    BY <1>1, <1>2, <2>2, MarkKeeps DEF Statuses
  <2> QED
    BY <2>1, <2>2 DEF Reuse
<1>4. CASE End(r)
  BY <1>1, <1>3, <1>4, StopsOK
<1>5. CASE Go(r, "settle")
  BY <1>1, <1>3, <1>5, GoOK DEF Steps, Guarded
<1> QED
  BY <1>4, <1>5 DEF Reuse

\* Steps that write the status of the parent run.
LEMMA MarksAlone ==
    ASSUME IInv, Neat, NEW r \in Runs,
           Enter(r) \/ Recommend(r) \/ Finalize(r) \/ LogParent(r) \/ Disown(r)
    PROVE  Orderly
<1>1. /\ UNCHANGED ledgerVars /\ lake' = lake /\ input' = input /\ Awake(r)
      /\ ex[r].pc # "disown" => Working(r)
  BY DEF Enter, Recommend, Finalize, LogParent, Disown, At, OnlyMlflow, ledgerVars, Awake,
     Working, Resting, Loose
<1>2. PICK status \in Statuses :
          mlflow' = [mlflow EXCEPT !.parents[Attempt(r)][ex[r].mine.refs.parent] = status]
  <2>1. \E status \in Statuses : Marks(r, status)
    BY DEF Enter, Recommend, Finalize, LogParent, Disown, Statuses
  <2> QED
    BY <2>1 DEF Marks
<1>3. Kept
  BY <1>1, <1>2, AtWork, MarkKeeps
<1>4. CASE Enter(r)
  <2> DEFINE new == [ex[r] EXCEPT !.pc = "receipt", !.left = Candidates]
  <2>1. ex[r] \in Executions /\ ex \in [Runs -> Executions]
    BY ExFields DEF IInv, Typed
  <2>2. ex' = [ex EXCEPT ![r] = new]
    BY <1>4, <2>1 DEF Enter, Executions
  <2>3. new.pc = "receipt" /\ new.tok = ex[r].tok /\ new.mine = ex[r].mine
    BY <2>1 DEF Executions
  <2> HIDE DEF new
  <2>4. Same(r) /\ ex'[r] = new
    BY <2>1, <2>2 DEF Same
  <2>5. GoesOn(r) /\ ex'[r].pc \notin Guarded
    BY <1>1, <1>4, <2>3, <2>4 DEF GoesOn, Guarded, Enter, At
  <2> QED
    BY <1>3, <2>5, LookOK, NothingFound
<1>5. CASE Recommend(r) \/ LogParent(r)
  <2>1. PICK step \in {"failbuild", "decide", "release", "reviewed", "closing"} : Go(r, step)
    BY <1>5, Zenon DEF Recommend, LogParent
  <2>2. Working(r) /\ step \in Steps /\ step \notin Guarded
    BY <1>1, <1>5 DEF Recommend, LogParent, At, Steps, Inside, Guarded
  <2> QED
    BY <1>1, <1>3, <2>1, <2>2, GoOK
<1>6. CASE Finalize(r) \/ Disown(r)
  BY <1>1, <1>3, <1>6, StopsOK DEF Finalize, Disown
<1> QED
  BY <1>4, <1>5, <1>6

\* Steps that store a build.
LEMMA BuildsAlone ==
    ASSUME IInv, Neat, NEW r \in Runs, FailBuild(r) \/ StoreAwaiting(r) \/ StoreReady(r)
    PROVE  Orderly
<1>1. PICK status \in {"FAILED", "AWAITING", "READY"},
           step \in {"failclaim", "stored", "complete"} :
          /\ StoreBuild(r, status, step)
          /\ step # "stored" => Working(r)
  BY DEF FailBuild, StoreAwaiting, StoreReady, At, Working, Resting, Loose
<1>2. UNCHANGED ledgerVars /\ input' = input /\ mlflow' = mlflow
  BY DEF FailBuild, StoreAwaiting, StoreReady, At, OnlyLake, ledgerVars
<1>3. CASE lake' = lake /\ Raise(r)
  BY <1>2, <1>3, ReadsKeep, StopsOK
<1>4. ASSUME NEW a, NEW row, lake' = [lake EXCEPT !.builds[a] = row], Go(r, step)
      PROVE  Orderly
  <2>1. Kept
    BY <1>2, <1>4, BuildKeeps
  <2>2. CASE step # "stored"
    BY <1>1, <1>2, <1>4, <2>1, <2>2, GoOK DEF Steps, Inside, Guarded
  <2>3. CASE step = "stored"
    <3>1. Same(r) /\ ex'[r].pc = "stored"
      BY <1>4, <2>3, GoMoves DEF IInv, Steps, Inside
    <3>2. GoesOn(r) /\ ex'[r].pc \notin Guarded
      BY <1>2, <3>1 DEF GoesOn, Working, Loose, Guarded
    <3> QED
      BY <2>1, <3>2, LookOK, NothingFound
  <2> QED
    BY <2>2, <2>3
<1> QED
  BY <1>1, <1>3, <1>4 DEF StoreBuild

\* Faults.
LEMMA FaultAlone ==
    ASSUME IInv, Neat, NEW r \in Runs, Error(r) \/ Crash(r)
    PROVE  Orderly
<1>1. Kept /\ UNCHANGED ledgerVars
  BY ReadsKeep DEF Error, Crash, Reads, ledgerVars
<1> QED
  BY <1>1, StopsOK DEF Error, Crash

\* A new execution has nothing yet.
LEMMA BeginAlone ==
    ASSUME IInv, Neat, NEW r \in Runs, Begin(r)
    PROVE  Orderly
<1>1. Kept /\ UNCHANGED ledgerVars
  BY ReadsKeep DEF Begin, Reads, ledgerVars
<1>2. Same(r) /\ ex'[r].pc \in {"idle", "claim"}
  BY Drawn
<1>3. GoesOn(r) /\ ex'[r].pc \notin Guarded
  BY <1>1, <1>2 DEF GoesOn, Working, Resting, Guarded
<1> QED
  BY <1>1, <1>3, LookOK, NothingFound

-----------------------------------------------------------------------------
(* The searches before a write.                                            *)

\* The frame and the parent run.
LEMMA FindFrameAlone ==
    ASSUME IInv, Neat, NEW r \in Runs, FindFrame(r) \/ FindParent(r)
    PROVE  Orderly
<1>1. Kept /\ UNCHANGED ledgerVars /\ Working(r) /\ lake' = lake /\ mlflow' = mlflow
  BY ReadsKeep DEF FindFrame, FindParent, At, Reads, ledgerVars, Working, Resting, Loose
<1>2. CASE End(r)
  BY <1>1, <1>2, StopsOK
<1>3. ASSUME NEW step \in {"bind", "bindparent"}, GoWith(r, 1, step) PROVE Orderly
  <2>1. Same(r) /\ Keeps(r) /\ ex'[r].pc = step
    BY <1>3, GoWithMoves DEF IInv, Steps
  <2> QED
    BY <1>1, <2>1, LookOK, NothingFound DEF GoesOn, Keeps, Guarded
<1>4. ASSUME NEW step \in {"append", "newparent"}, Go(r, step),
             step = "append" => lake.frames[Attempt(r)] = 0,
             step = "newparent" => Len(mlflow.parents[Attempt(r)]) = 0
      PROVE  Orderly
  <2>1. Same(r) /\ Keeps(r) /\ ex'[r].pc = step
    BY <1>4, GoMoves DEF IInv, Steps
  <2>2. \A a \in Tokens : Attempt(r) = a => Found(r, a)'
    BY <1>1, <1>4, <2>1 DEF Found
  <2> QED
    BY <1>1, <2>1, <2>2, FoundOK
<1> QED
  BY <1>2, <1>3, <1>4 DEF FindFrame, FindParent

\* The decision.
LEMMA DecideAlone ==
    ASSUME IInv, Neat, NEW r \in Runs, Decide(r)
    PROVE  Orderly
<1>1. Kept /\ UNCHANGED ledgerVars /\ Working(r) /\ lake' = lake
  BY ReadsKeep DEF Decide, At, Reads, ledgerVars, Working, Resting, Loose
<1>2. CASE Raise(r)
  BY <1>1, <1>2, StopsOK
<1>3. CASE Go(r, "lock") \/ Go(r, "test")
  BY <1>1, <1>3, GoOK DEF Steps, Inside, Guarded
<1>4. CASE Go(r, "newdecision") /\ Decided(Attempt(r)) = {}
  <2>1. Same(r) /\ Keeps(r) /\ ex'[r].pc = "newdecision"
    BY <1>4, GoMoves DEF IInv, Steps, Inside
  <2>2. \A a \in Tokens : Decided(a)' = Decided(a)
    BY <1>1 DEF Decided
  <2>3. \A a \in Tokens : Attempt(r) = a => Found(r, a)'
    BY <1>4, <2>1, <2>2 DEF Found
  <2> QED
    BY <1>1, <2>1, <2>3, FoundOK
<1> QED
  BY <1>2, <1>3, <1>4 DEF Decide
\* A sequence of one element.
LEMMA OneElement ==
    ASSUME NEW S, NEW s \in Seq(S), Len(s) = 1
    PROVE  s = <<s[1]>> /\ s[1] \in S
<1>1. s[1] \in S /\ s \in [1 .. 1 -> S]
  <2>1. s \in [1 .. Len(s) -> S]
    BY LenProperties
  <2> QED
    BY <2>1
<1>2. <<s[1]>> \in [1 .. 1 -> S] /\ <<s[1]>>[1] = s[1]
  BY <1>1
<1>3. \A i \in 1 .. 1 : s[i] = <<s[1]>>[i]
  BY <1>2
<1> QED
  BY <1>1, <1>2, <1>3

\* The receipt of a candidate, or its child run.
LEMMA FindReceiptAlone ==
    ASSUME IInv, Neat, NEW r \in Runs, FindReceipt(r)
    PROVE  Orderly
<1>1. /\ Kept /\ UNCHANGED ledgerVars /\ Working(r) /\ lake' = lake /\ Awake(r) /\ Typed
      /\ ex[r].pc = "receipt"
  BY ReadsKeep DEF FindReceipt, At, Reads, ledgerVars, Working, Awake, Resting, Loose, IInv
<1>2. CASE Raise(r)
  BY <1>1, <1>2, StopsOK
<1>3. CASE NextCandidate(r)
  <2>1. ex[r].left # {}
    BY <1>1, AtWork DEF Casting, Evaluating
  <2>2. Same(r) /\ Keeps(r) /\ ex'[r].pc \in {"receipt", "candidates", "recommend"}
    BY <1>1, <1>3, <2>1, NextCandidateMoves
  <2> QED
    BY <1>1, <2>2, LookOK, NothingFound DEF GoesOn, Keeps, Guarded
<1>4. CASE Go(r, "child") /\ lake.receipts[Attempt(r)][Candidate(r)] = None
  <2>1. /\ Same(r) /\ Keeps(r) /\ ex'[r].pc = "child" /\ ex'[r].left = ex[r].left
    BY <1>1, <1>4, GoMoves DEF Steps, Inside
  <2>2. Candidate(r)' = Candidate(r)
    BY <2>1, SameCandidate
  <2>3. \A a \in Tokens : Attempt(r) = a => Found(r, a)'
    BY <1>1, <1>4, <2>1, <2>2 DEF Found
  <2> QED
    BY <1>1, <2>1, <2>3, FoundOK
<1> QED
  BY <1>2, <1>3, <1>4 DEF FindReceipt

\* What an execution that evaluates a candidate has found.
LEMMA FoundHere ==
    ASSUME IInv, Neat, NEW r \in Runs, Working(r)
    PROVE  Found(r, Attempt(r)) /\ Attempt(r) \in Tokens
BY AtWorkAlone DEF Neat, StillFound, Attempt

\* The candidate in hand is one.
LEMMA CandidateHere ==
    ASSUME IInv, NEW r \in Runs, ex[r].pc \in Evaluating
    PROVE  Candidate(r) \in Candidates /\ ex[r].left # {}
<1>1. Awake(r)
  BY DEF Awake, Evaluating, Resting
<1>2. ex[r].left # {} /\ ex[r].left \subseteq Candidates
  BY <1>1, AtWork, ExFields DEF Casting
<1> QED
  BY <1>2, CandidateLeft

\* The child run of a candidate.
LEMMA FindChildAlone ==
    ASSUME IInv, Neat, NEW r \in Runs, FindChild(r)
    PROVE  Orderly
<1> DEFINE a == Attempt(r)
           c == Candidate(r)
           runs == mlflow.children[a][c]
<1>1. /\ Kept /\ UNCHANGED ledgerVars /\ Working(r) /\ lake' = lake /\ mlflow' = mlflow
      /\ Typed /\ ex[r].pc = "child"
  BY ReadsKeep DEF FindChild, At, Reads, ledgerVars, Working, Resting, Loose, IInv
<1>2. /\ a \in Tokens /\ c \in Candidates /\ lake.receipts[a][c] = None
  BY <1>1, FoundHere, CandidateHere DEF Found, Evaluating
<1>3. runs \in Seq(TagSet \cup {None})
  BY <1>1, <1>2 DEF Typed, Trackers
<1>4. Len(runs) = 1 => runs = <<runs[1]>>
  BY <1>3, OneElement
<1>5. CASE Raise(r)
  BY <1>1, <1>5, StopsOK
<1>6. CASE Len(runs) = 0 /\ Go(r, "newchild")
  <2>1. /\ Same(r) /\ Keeps(r) /\ ex'[r].pc = "newchild" /\ ex'[r].left = ex[r].left
    BY <1>1, <1>6, GoMoves DEF Steps, Inside
  <2>2. Candidate(r)' = c
    BY <2>1, SameCandidate
  <2>3. runs = <<>>
    BY <1>3, <1>6
  <2>4. \A b \in Tokens : Attempt(r) = b => Found(r, b)'
    BY <1>1, <1>2, <2>1, <2>2, <2>3 DEF Found
  <2> QED
    BY <1>1, <2>1, <2>4, FoundOK
<1>7. CASE Len(runs) = 1 /\ runs[1] = None /\ GoWith(r, 1, "train")
  <2>1. /\ Same(r) /\ Keeps(r) /\ ex'[r].pc = "train" /\ ex'[r].left = ex[r].left
        /\ ex'[r].hand = 1
    BY <1>1, <1>7, GoWithMoves DEF Steps, Inside
  <2>2. Candidate(r)' = c
    BY <2>1, SameCandidate
  <2>3. runs = <<None>>
    BY <1>4, <1>7
  <2>4. \A b \in Tokens : Attempt(r) = b => Found(r, b)'
    BY <1>1, <1>2, <2>1, <2>2, <2>3 DEF Found
  <2> QED
    BY <1>1, <2>1, <2>4, FoundOK
<1>8. CASE /\ Len(runs) = 1
           /\ ex' = [ex EXCEPT ![r].pc = "store", ![r].hand = 1,
                               ![r].eval = [tags |-> runs[1], recovered |-> TRUE]]
  <2> DEFINE found == [tags |-> runs[1], recovered |-> TRUE]
             new == [ex[r] EXCEPT !.pc = "store", !.hand = 1, !.eval = found]
  <2>1. ex[r] \in Executions /\ ex \in [Runs -> Executions] /\ found.tags = runs[1]
    BY <1>1, ExFields DEF Typed
  <2>2. ex' = [ex EXCEPT ![r].pc = "store", ![r].hand = 1, ![r].eval = found]
    BY <1>8
  <2> HIDE DEF found
  <2>3. ex' = [ex EXCEPT ![r] = new]
    BY <2>1, <2>2 DEF Executions
  <2>4. /\ new.pc = "store" /\ new.eval = found /\ new.left = ex[r].left
        /\ new.tok = ex[r].tok /\ new.mine = ex[r].mine /\ new.old = ex[r].old
    BY <2>1 DEF Executions
  <2> HIDE DEF new
  <2>5. Same(r) /\ ex'[r] = new
    BY <2>1, <2>3 DEF Same
  <2>6. Candidate(r)' = c
    BY <2>4, <2>5, SameCandidate
  <2>7. runs = <<found.tags>>
    BY <1>4, <1>8, <2>1
  <2> HIDE DEF runs
  <2>8. mlflow'.children[a][c] = <<ex'[r].eval.tags>>
    BY <1>1, <2>4, <2>5, <2>7 DEF runs
  <2>9. \A b \in Tokens : Attempt(r) = b => Found(r, b)'
    BY <1>1, <1>2, <2>4, <2>5, <2>6, <2>8 DEF Found
  <2> QED
    BY <1>1, <2>4, <2>5, <2>9, FoundOK DEF Keeps
<1> QED
  BY <1>5, <1>6, <1>7, <1>8 DEF FindChild

\* The model, and the version of a model that was not recorded.
LEMMA FindModelAlone ==
    ASSUME IInv, Neat, NEW r \in Runs, FindModel(r) \/ FindVersion(r)
    PROVE  Orderly
<1> DEFINE a == Attempt(r)
           c == Pick(r)
           v == lake.models[a][c]
<1>1. /\ Kept /\ UNCHANGED ledgerVars /\ Working(r) /\ lake' = lake /\ mlflow' = mlflow
      /\ Typed /\ input' = input
  BY ReadsKeep
     DEF FindModel, FindVersion, At, Reads, ledgerVars, Working, Resting, Loose, IInv
<1>2. a \in Tokens /\ Found(r, a) /\ c \in Candidates
  <2>1. Awake(r) /\ ex[r].pc \in Registering
    BY DEF FindModel, FindVersion, At, Awake, Resting, Registering
  <2>2. Firm(a)
    BY <2>1, AtWork DEF Selecting
  <2> QED
    BY <1>1, <2>2, FoundHere, FirmPick
<1>3. v \in Nat
  BY <1>1, <1>2 DEF Typed, Lakes
<1> HIDE DEF a, c, v
<1>4. CASE Raise(r)
  BY <1>1, <1>4, StopsOK
<1>5. ASSUME NEW n \in Nat, GoWith(r, n, "persist"), v = 0 \/ n = v
      PROVE  Orderly
  <2>1. /\ Same(r) /\ Keeps(r) /\ ex'[r].pc = "persist" /\ ex'[r].hand = n
    BY <1>1, <1>5, GoWithMoves DEF Steps, Inside
  <2>2. Pick(r)' = c
    BY <1>1, <1>2, <2>1, SamePick DEF a, c, Keeps
  <2>3. \A b \in Tokens : Attempt(r) = b => Found(r, b)'
    BY <1>1, <1>5, <2>1, <2>2 DEF Found, v, a
  <2> QED
    BY <1>1, <2>1, <2>3, FoundOK DEF a
<1>6. ASSUME NEW step \in {"search", "register"}, Go(r, step), v = 0,
             step = "register" => mlflow.versions[a][c] = 0
      PROVE  Orderly
  <2>1. /\ Same(r) /\ Keeps(r) /\ ex'[r].pc = step
    BY <1>1, <1>6, GoMoves DEF Steps, Inside
  <2>2. Pick(r)' = c
    BY <1>1, <1>2, <2>1, SamePick DEF a, c, Keeps
  <2>3. \A b \in Tokens : Attempt(r) = b => Found(r, b)'
    BY <1>1, <1>6, <2>1, <2>2 DEF Found, v, a
  <2> QED
    BY <1>1, <2>1, <2>3, FoundOK DEF a
<1>7. CASE FindModel(r)
  BY <1>3, <1>5, <1>6, <1>7 DEF FindModel, a, c, v
<1>8. CASE FindVersion(r)
  <2>1. v = 0
    BY <1>2, <1>8 DEF FindVersion, At, Found, c, v
  <2> QED
    BY <1>4, <1>5, <1>6, <1>8, <2>1 DEF FindVersion, a, c
<1> QED
  BY <1>7, <1>8
-----------------------------------------------------------------------------
(* The claim moves.                                                        *)

\* The holder of the claim writes it, and goes on with what it has written, or
\* stops.
HolderWrites(r) ==
    /\ entry # None /\ entry.token = ex[r].tok /\ ex[r].tok # 0
    /\ entry.checkpoint \notin Terminal /\ Same(r)
    /\ Working(r)' =>
          /\ ex'[r].mine = entry'
          /\ entry'.checkpoint # COMPLETE =>
                entry'.token = ex'[r].tok /\ entry'.owner = r /\ ~lapsed'

\* Nobody else is at work, so that everybody knows the claim.
LEMMA HolderOK ==
    ASSUME IInv, Neat, NEW r \in Runs, Kept, HolderWrites(r), ex'[r].pc \notin Guarded
    PROVE  Orderly
<1>1. ASSUME NEW s \in Runs \ {r} PROVE ~Working(s)
  <2> SUFFICES ASSUME Working(s) PROVE FALSE
    OBVIOUS
  <2>1. entry.token = ex[s].tok
    BY AtWorkAlone DEF HolderWrites, Terminal
  <2>2. Holds(r)
    BY DEF IInv, RunOK
  <2> QED
    BY <2>1, <2>2 DEF HolderWrites, Holds
<1>2. ASSUME NEW s \in Runs \ {r} PROVE Alone(s)' /\ StillFound(s)'
  BY <1>1, <1>2, KeptFound DEF HolderWrites, Same, Alone, Working
<1>3. Alone(r)' /\ StillFound(r)'
  BY NothingFound DEF HolderWrites, Alone
<1> QED
  BY <1>2, <1>3, KeptTwice DEF Neat, Orderly, ModelStays, Kept

\* An advance keeps owner and token.
LEMMA AdvanceAlone ==
    ASSUME IInv, Neat, NEW r \in Runs, Working(r), NEW v, NEW step \in Steps,
           step \notin Guarded \cup Resting \cup {"claim"},
           AdvanceTo(r, v, step), UNCHANGED <<input, minted, faults>>,
           OnlyClaim, IInv'
    PROVE  Orderly
<1>1. Kept /\ Typed
  BY ReadsKeep DEF OnlyClaim, IInv
<1>2. /\ entry \in Rows /\ entry # None /\ ex[r].mine = entry /\ ex[r].tok # 0
      /\ Stage(r) = entry.checkpoint
      /\ entry.checkpoint # COMPLETE => entry.owner = r
  BY AtWorkAlone, AtWork
<1>3. CASE UNCHANGED ledgerVars /\ Raise(r)
  BY <1>1, <1>3, StopsOK
<1>4. CASE Completed(r)
  BY <1>2, <1>4, Numbers DEF Completed
<1>5. CASE /\ Advance(ex[r].tok, v) /\ lapsed' = FALSE
           /\ ex' = [ex EXCEPT ![r].pc = step, ![r].mine = entry']
  <2>1. entry.token = ex[r].tok /\ entry.checkpoint \notin Terminal
    BY <1>5 DEF Advance
  <2>2. entry'.owner = entry.owner /\ entry'.token = entry.token
    BY <1>2, <1>5 DEF Advance, Rows, Claims
  <2>3. PICK row \in Rows : row = entry'
    <3>1. entry' \in Rows \cup {None}
      BY DEF IInv, Typed
    <3>2. entry' # None
      <4>1. ex[r] \in Executions /\ ex \in [Runs -> Executions]
        BY <1>1, ExFields DEF Typed
      <4>2. ex'[r].mine = entry' /\ ex'[r].pc = step
        BY <1>5, <4>1 DEF Executions
      <4> QED
        BY <4>2 DEF IInv, RunOK, Holds
    <3> QED
      BY <3>1, <3>2
  <2>4. /\ Same(r) /\ ex'[r].pc = step /\ ex'[r].mine = entry' /\ ex'[r].tok = ex[r].tok
    BY <1>1, <1>5, <2>3, HandedMoves
  <2>5. entry.checkpoint # COMPLETE
    BY <2>1 DEF Terminal
  <2>6. HolderWrites(r)
    BY <1>2, <1>5, <2>1, <2>2, <2>4, <2>5 DEF HolderWrites
  <2> QED
    BY <1>1, <2>4, <2>6, HolderOK
<1> QED
  BY <1>3, <1>4, <1>5 DEF AdvanceTo

\* A release or a failure, whose execution works no more.
LEMMA LeavesAlone ==
    ASSUME IInv, Neat, NEW r \in Runs, Awake(r), Releases(r) \/ FailsClaim(r), OnlyClaim,
           input' = input, Same(r), ex'[r].pc \in Resting \cup Loose
    PROVE  Orderly
<1>1. Kept
  BY ReadsKeep DEF OnlyClaim
<1>2. ex'[r].pc \notin Guarded /\ ~Working(r)'
  BY DEF Guarded, Resting, Loose, Working
<1>3. CASE UNCHANGED ledgerVars
  BY <1>1, <1>2, <1>3, LookOK, NothingFound DEF GoesOn
<1>4. CASE Mine(r) \/ Fail(ex[r].tok)
  <2>1. HolderWrites(r)
    BY <1>2, <1>4, AtWork DEF Mine, Fail, HolderWrites
  <2> QED
    BY <1>1, <1>2, <2>1, HolderOK
<1> QED
  BY <1>3, <1>4 DEF Releases, FailsClaim

\* The advances.
LEMMA BindAlone ==
    ASSUME IInv, Neat, IInv', NEW r \in Runs,
           \/ BindFrame(r) \/ BindParent(r) \/ CandidatesReady(r) \/ Lock(r) \/ Complete(r)
           \/ Close(r)
    PROVE  Orderly
<1>1. Working(r) /\ OnlyClaim /\ UNCHANGED <<input, minted, faults>>
  BY DEF BindFrame, BindParent, CandidatesReady, Lock, Complete, Close, At, Working, Resting,
     Loose
<1>2. PICK step \in {"readframe", "enter", "recommend", "test", "finalize", "reviewed"} :
          \E v : AdvanceTo(r, v, step)
  BY DEF BindFrame, BindParent, CandidatesReady, Lock, Complete, Close
<1>3. step \in Steps /\ step \notin Guarded \cup Resting \cup {"claim"}
  BY DEF Steps, Inside, Guarded, Resting
<1> QED
  BY <1>1, <1>2, <1>3, AdvanceAlone

\* A model that is recorded is REGISTERED, if the claim does not say so yet.
LEMMA RegisteredAlone ==
    ASSUME IInv, Neat, IInv', NEW r \in Runs, Registered(r)
    PROVE  Orderly
<1>1. /\ Working(r) /\ OnlyClaim /\ UNCHANGED <<input, minted, faults>> /\ Kept
  BY ReadsKeep DEF Registered, At, Working, Resting, Loose, OnlyClaim
<1>2. PICK step \in {"logparent", "ready"} :
          \/ AdvanceTo(r, Pick(r), step)
          \/ UNCHANGED ledgerVars /\ Go(r, step)
  BY Zenon DEF Registered
<1>3. step \in Steps /\ step \notin Guarded \cup Resting \cup {"claim"}
  BY DEF Steps, Inside, Guarded, Resting
<1> QED
  BY <1>1, <1>2, <1>3, AdvanceAlone, GoOK

\* The claim is given back.
LEMMA ReleaseAlone ==
    ASSUME IInv, Neat, NEW r \in Runs, Yield(r) \/ Release(r)
    PROVE  Orderly
<1>1. Awake(r) /\ OnlyClaim /\ input' = input /\ Kept
  BY ReadsKeep DEF Yield, Release, At, Awake, Resting, OnlyClaim
<1>2. CASE Releases(r) /\ (Return(r) \/ Go(r, "awaiting"))
  <2>1. Same(r) /\ ex'[r].pc \in Resting \cup Loose
    <3>1. CASE Return(r)
      BY <3>1, StopMoves DEF Loose
    <3>2. CASE Go(r, "awaiting")
      BY <3>2, GoMoves DEF IInv, Steps, Inside, Loose
    <3> QED
      BY <1>2, <3>1, <3>2
  <2> QED
    BY <1>1, <1>2, <2>1, LeavesAlone
<1>3. CASE Refused(r)
  BY <1>1, <1>3, StopsOK DEF Refused
<1> QED
  BY <1>2, <1>3 DEF Yield, Release

\* A claim fails with its attempt.
LEMMA FailClaimAlone ==
    ASSUME IInv, Neat, NEW r \in Runs, FailClaim(r)
    PROVE  Orderly
<1>1. Same(r) /\ ex'[r].pc \in Resting \cup Loose
  BY StopMoves DEF FailClaim, Loose
<1>2. Awake(r) /\ OnlyClaim /\ input' = input /\ FailsClaim(r)
  BY DEF FailClaim, At, Awake, Resting
<1> QED
  BY <1>1, <1>2, LeavesAlone

\* The attempt of the claim is taken up, or has failed.
LEMMA CheckAlone ==
    ASSUME IInv, Neat, NEW r \in Runs, Check(r)
    PROVE  Orderly
<1>1. /\ Awake(r) /\ Working(r) /\ OnlyClaim /\ input' = input /\ Kept
  BY ReadsKeep DEF Check, At, Awake, Working, Resting, Loose, OnlyClaim
<1>2. CASE FailsClaim(r) /\ End(r)
  <2>1. Same(r) /\ ex'[r].pc \in Resting \cup Loose
    BY <1>2, StopMoves DEF Loose
  <2> QED
    BY <1>1, <1>2, <2>1, LeavesAlone
<1>3. CASE UNCHANGED ledgerVars /\ End(r)
  BY <1>1, <1>3, StopsOK
<1>4. ASSUME UNCHANGED ledgerVars, NEW step \in {"frame", "readframe"}, Go(r, step)
      PROVE  Orderly
  BY <1>1, <1>4, GoOK DEF Steps, Guarded
<1> QED
  BY <1>2, <1>3, <1>4 DEF Check

\* The claim is brought to where the build says it should be.
LEMMA SettleAlone ==
    ASSUME IInv, Neat, IInv', NEW r \in Runs, Settle(r)
    PROVE  Orderly
<1>1. /\ Awake(r) /\ Working(r) /\ OnlyClaim /\ UNCHANGED <<input, minted, faults>> /\ Kept
  BY ReadsKeep DEF Settle, At, Awake, Working, Resting, Loose, OnlyClaim
<1>2. CASE UNCHANGED ledgerVars /\ (Return(r) \/ End(r))
  BY <1>1, <1>2, StopsOK
<1>3. CASE Refused(r)
  BY <1>1, <1>3, StopsOK DEF Refused
<1>4. CASE Releases(r) /\ Return(r)
  <2>1. Same(r) /\ ex'[r].pc \in Resting \cup Loose
    BY <1>4, StopMoves DEF Loose
  <2> QED
    BY <1>1, <1>4, <2>1, LeavesAlone
<1>5. ASSUME NEW v, AdvanceTo(r, v, "settle") PROVE Orderly
  BY <1>1, <1>5, AdvanceAlone DEF Steps, Guarded, Resting
<1> QED
  BY <1>2, <1>3, <1>4, <1>5 DEF Settle
\* The claim is handed to an execution: it is free, or COMPLETE.
LEMMA AcquireAlone ==
    ASSUME IInv, Neat, IInv', NEW r \in Runs, Acquire(r)
    PROVE  Orderly
<1>1. /\ ex[r].pc = "claim" /\ OnlyClaim /\ input' = input /\ Kept /\ Typed
  BY ReadsKeep DEF Acquire, At, OnlyClaim, IInv
<1>2. CASE UNCHANGED ledgerVars /\ End(r)
  BY <1>1, <1>2, StopsOK
<1>3. ASSUME NEW row, row = entry',
             ex' = IF Route(r, row) = "raise" THEN [ex EXCEPT ![r] = Idle]
                   ELSE [ex EXCEPT ![r].pc = Route(r, row), ![r].mine = row]
      PROVE  /\ Same(r) /\ ex'[r].pc \notin Guarded
             /\ ~Working(r)' \/ (ex'[r].mine = entry' /\ ex'[r].tok = ex[r].tok)
  <2>1. ex[r] \in Executions /\ ex \in [Runs -> Executions]
    BY <1>1, ExFields DEF Typed
  <2>2. Route(r, row) \in {"raise", "decide", "yield", "reuse", "reload", "check"}
    BY DEF Route
  <2>3. CASE Route(r, row) = "raise"
    <3>1. End(r)
      BY <1>3, <2>3 DEF End
    <3>2. Same(r) /\ ex'[r].pc \in Resting \cup {"disown"}
      BY <3>1, StopMoves
    <3> QED
      BY <3>2 DEF Working, Resting, Loose, Guarded
  <2>4. CASE Route(r, row) # "raise"
    <3>1. PICK step \in {"decide", "yield", "reuse", "reload", "check"} :
              ex' = [ex EXCEPT ![r].pc = step, ![r].mine = row]
      BY <1>3, <2>2, <2>4
    <3>2. /\ Same(r) /\ ex'[r].pc = step /\ ex'[r].mine = row /\ ex'[r].tok = ex[r].tok
      BY <2>1, <3>1 DEF Executions, Same
    <3> QED
      BY <1>3, <3>2 DEF Guarded
  <2> QED
    BY <2>3, <2>4
<1>4. \A a \in Tokens : ex'[r].mine # None /\ ex'[r].mine.attempt = a =>
          ex'[r].mine.checkpoint # FAILED
  BY DEF IInv, RunOK, Follows
<1>5. CASE /\ entry # None /\ entry.checkpoint \in Terminal /\ UNCHANGED ledgerVars
           /\ ex' = IF Route(r, entry) = "raise" THEN [ex EXCEPT ![r] = Idle]
                    ELSE [ex EXCEPT ![r].pc = Route(r, entry), ![r].mine = entry]
  <2>1. entry' = entry /\ lapsed' = lapsed /\ entry \in Rows
    BY <1>1, <1>5 DEF ledgerVars, Typed
  <2>2. /\ Same(r) /\ ex'[r].pc \notin Guarded
        /\ ~Working(r)' \/ (ex'[r].mine = entry' /\ ex'[r].tok = ex[r].tok)
    BY <1>3, <1>5, <2>1
  <2>3. Working(r)' => ex'[r].mine = entry /\ entry.checkpoint = COMPLETE
    BY <1>4, <1>5, <2>1, <2>2, RowFields DEF Terminal
  <2>4. \A s \in Runs \ {r} : Alone(s)' /\ StillFound(s)'
    BY <1>1, <2>1, <2>2, KeptFound DEF Neat, Alone, Working, Same
  <2>5. Alone(r)' /\ StillFound(r)'
    BY <2>1, <2>2, <2>3, NothingFound DEF Alone
  <2> QED
    BY <1>1, <2>4, <2>5, KeptTwice DEF Neat, Orderly, ModelStays, Kept
<1>6. CASE /\ Open(r, CodeOf(r), ex[r].tok) \/ TakeOver(r, CodeOf(r), ex[r].tok)
           /\ lapsed' = FALSE
           /\ ex' = IF Route(r, entry') = "raise" THEN [ex EXCEPT ![r] = Idle]
                    ELSE [ex EXCEPT ![r].pc = Route(r, entry'), ![r].mine = entry']
  <2>1. /\ Same(r) /\ ex'[r].pc \notin Guarded
        /\ ~Working(r)' \/ (ex'[r].mine = entry' /\ ex'[r].tok = ex[r].tok)
    BY <1>3, <1>6
  <2>2. entry'.owner = r /\ entry'.token = ex[r].tok
    <3>1. CASE Open(r, CodeOf(r), ex[r].tok)
      BY <3>1 DEF Open, Fresh
    <3>2. CASE TakeOver(r, CodeOf(r), ex[r].tok)
      <4>1. entry \in Claims
        BY <1>1, <3>2 DEF TakeOver, Typed, Rows
      <4> QED
        BY <3>2, <4>1 DEF TakeOver, Claims
    <3> QED
      BY <1>6, <3>1, <3>2
  <2>3. ASSUME NEW s \in Runs \ {r}, Working(s) PROVE FALSE
    <3>1. /\ entry # None /\ entry.checkpoint \in 0 .. 6
          /\ entry.checkpoint # COMPLETE => entry.owner = s /\ ~lapsed
      BY <2>3, AtWorkAlone
    <3> QED
      BY <1>6, <3>1, Numbers DEF Open, TakeOver, Terminal
  <2>4. \A s \in Runs \ {r} : Alone(s)' /\ StillFound(s)'
    BY <1>1, <2>1, <2>3, KeptFound DEF Alone, Working, Same
  <2>5. Alone(r)' /\ StillFound(r)'
    BY <1>6, <2>1, <2>2, NothingFound DEF Alone
  <2> QED
    BY <1>1, <2>4, <2>5, KeptTwice DEF Neat, Orderly, ModelStays, Kept
<1> QED
  BY <1>2, <1>5, <1>6 DEF Acquire

\* The lease of an execution at work does not end.
LEMMA LapseAlone ==
    ASSUME IInv, Neat, ~Overlap, Lapse
    PROVE  Orderly
<1>1. /\ entry' = entry /\ ex' = ex /\ Kept /\ \A s \in Runs : ex[s].tok # entry.token
      /\ entry.checkpoint # COMPLETE
  BY ReadsKeep DEF Lapse, Terminal
<1>2. ASSUME NEW s \in Runs PROVE Alone(s)' /\ StillFound(s)'
  <2>1. ~Working(s)
    BY <1>1, AtWorkAlone
  <2> QED
    BY <1>1, <2>1, KeptFound DEF Alone, Working
<1> QED
  BY <1>1, <1>2, KeptTwice DEF Neat, Orderly, ModelStays, Kept
-----------------------------------------------------------------------------
(* The writes that create.                                                 *)

\* Nothing is there twice, if it is as before or has just been seen to.
LEMMA TwiceOK ==
    ASSUME Neat,
           \A b \in Tokens : lake'.frames[b] = lake.frames[b] \/ lake'.frames[b] <= 1,
           \A b \in Tokens : \/ Len(mlflow'.parents[b]) = Len(mlflow.parents[b])
                             \/ Len(mlflow'.parents[b]) <= 1,
           \A b \in Tokens : Decided(b)' = Decided(b) \/ Cardinality(Decided(b)') <= 1,
           \A b \in Tokens, d \in Candidates :
               \/ mlflow'.versions[b][d] = mlflow.versions[b][d]
               \/ mlflow'.versions[b][d] <= 1,
           \A b \in Tokens, d \in Candidates :
               \/ /\ mlflow'.children[b][d] = mlflow.children[b][d]
                  /\ lake'.receipts[b][d] = lake.receipts[b][d]
               \/ /\ Len(mlflow'.children[b][d]) <= 1
                  /\ lake'.receipts[b][d] # None =>
                        mlflow'.children[b][d] = <<lake'.receipts[b][d].tags>>
    PROVE  NothingTwice'
<1>1. NothingTwice
  BY DEF Neat
<1> SUFFICES ASSUME NEW b \in Tokens
             PROVE  /\ lake'.frames[b] <= 1 /\ Len(mlflow'.parents[b]) <= 1
                    /\ Cardinality(Decided(b)') <= 1
                    /\ \A d \in Candidates :
                          /\ Len(mlflow'.children[b][d]) <= 1
                          /\ mlflow'.versions[b][d] <= 1
                          /\ lake'.receipts[b][d] # None =>
                                mlflow'.children[b][d] = <<lake'.receipts[b][d].tags>>
  BY DEF NothingTwice
<1>2. /\ lake'.frames[b] <= 1 /\ Len(mlflow'.parents[b]) <= 1
      /\ Cardinality(Decided(b)') <= 1
  BY <1>1 DEF NothingTwice
<1>3. ASSUME NEW d \in Candidates
      PROVE  /\ Len(mlflow'.children[b][d]) <= 1
             /\ mlflow'.versions[b][d] <= 1
             /\ lake'.receipts[b][d] # None =>
                   mlflow'.children[b][d] = <<lake'.receipts[b][d].tags>>
  BY <1>1, <1>3 DEF NothingTwice
<1> QED
  BY <1>2, <1>3

\* The execution is the only one at work, and leaves the claim alone: it remains
\* to see that it creates nothing twice.
LEMMA CreateOK ==
    ASSUME IInv, Neat, NEW r \in Runs, Working(r), Stage(r) # COMPLETE,
           UNCHANGED ledgerVars, Same(r), Keeps(r), NothingTwice',
           \A a \in Tokens : Attempt(r) = a => Found(r, a)'
    PROVE  Orderly
<1>1. entry.checkpoint # COMPLETE
  BY AtWorkAlone
<1>2. GoesOn(r)
  BY DEF GoesOn, Keeps
<1>3. \A s \in Runs \ {r} : ~Working(s)
  BY <1>1, NobodyElse
<1>4. \A s \in Runs \ {r} : ex'[s].pc \notin Guarded
  BY <1>3 DEF Same, Working, Guarded, Resting, Loose
<1>5. \A s \in Runs \ {r} : StillFound(s)'
  BY <1>4, NothingFound
<1>6. StillFound(r)'
  BY DEF StillFound, Keeps, Attempt
<1> QED
  BY <1>1, <1>2, <1>5, <1>6, StillAlone DEF Neat, Orderly, ModelStays

\* The rows of the frame are appended once.
LEMMA AppendFrameAlone ==
    ASSUME IInv, Neat, NEW r \in Runs, AppendFrame(r)
    PROVE  Orderly
<1> DEFINE a == Attempt(r)
           n == lake.frames[a]
<1>1. /\ ex[r].pc = "append" /\ Working(r) /\ Typed /\ UNCHANGED ledgerVars /\ mlflow' = mlflow
      /\ lake' = [lake EXCEPT !.frames[a] = n + 1] /\ GoWith(r, n + 1, "bind") /\ Awake(r)
  BY DEF AppendFrame, At, OnlyLake, Working, Resting, Loose, IInv, ledgerVars, Awake
<1>2. a \in Tokens /\ n = 0 /\ Stage(r) # COMPLETE
  <2>1. Stage(r) = CLAIMED
    BY <1>1, AtWork DEF Prepared, Framing
  <2> QED
    BY <1>1, <2>1, FoundHere, Numbers DEF Found
<1>3. /\ lake'.receipts = lake.receipts /\ lake'.decisions = lake.decisions
      /\ \A b \in Tokens : lake'.frames[b] = lake.frames[b] \/ lake'.frames[b] <= 1
  <2> DEFINE now == [lake.frames EXCEPT ![a] = 1]
  <2>1. lake' = [lake EXCEPT !.frames = now]
    <3>1. lake' = [lake EXCEPT !.frames[a] = 1]
      BY <1>1, <1>2
    <3> QED
      BY <3>1, Zenon
  <2>2. \A b \in Tokens : now[b] = lake.frames[b] \/ now[b] <= 1
    BY <1>1, <1>2 DEF Typed, Lakes
  <2> HIDE DEF now
  <2> QED
    BY <1>1, <2>1, <2>2 DEF Typed, Lakes
<1>4. \A b \in Tokens : Decided(b)' = Decided(b)
  BY <1>3 DEF Decided
<1>5. NothingTwice'
  BY <1>1, <1>3, <1>4, TwiceOK
<1>6. Same(r) /\ Keeps(r) /\ ex'[r].pc = "bind"
  <2>1. GoWith(r, 1, "bind") /\ "bind" \in Steps
    BY <1>1, <1>2 DEF Steps
  <2> QED
    BY <1>1, <2>1, GoWithMoves
<1>7. \A b \in Tokens : Attempt(r) = b => Found(r, b)'
  BY <1>6 DEF Found
<1> QED
  BY <1>1, <1>2, <1>5, <1>6, <1>7, CreateOK

\* The parent run is created once.
LEMMA NewParentAlone ==
    ASSUME IInv, Neat, NEW r \in Runs, NewParent(r)
    PROVE  Orderly
<1> DEFINE a == Attempt(r)
           runs == mlflow.parents[a]
           more == Append(runs, "RUNNING")
<1>1. /\ ex[r].pc = "newparent" /\ Working(r) /\ Typed /\ UNCHANGED ledgerVars /\ lake' = lake
      /\ mlflow' = [mlflow EXCEPT !.parents[a] = more]
      /\ GoWith(r, Len(runs) + 1, "bindparent") /\ Awake(r)
  BY DEF NewParent, At, OnlyMlflow, Working, Resting, Loose, IInv, ledgerVars, Awake
<1>2. a \in Tokens /\ Len(runs) = 0 /\ Stage(r) # COMPLETE
  <2>1. Stage(r) = FRAME_READY
    BY <1>1, AtWork DEF Prepared, Parenting
  <2> QED
    BY <1>1, <2>1, FoundHere, Numbers DEF Found
<1>3. Len(more) = 1
  <2>1. runs \in Seq(Statuses) /\ "RUNNING" \in Statuses
    BY <1>1, <1>2 DEF Typed, Trackers, Statuses
  <2> HIDE DEF runs
  <2> QED
    BY <1>2, <2>1
<1>4. /\ mlflow'.children = mlflow.children /\ mlflow'.versions = mlflow.versions
      /\ \A b \in Tokens : \/ Len(mlflow'.parents[b]) = Len(mlflow.parents[b])
                           \/ Len(mlflow'.parents[b]) <= 1
  <2> HIDE DEF more
  <2> DEFINE now == [mlflow.parents EXCEPT ![a] = more]
  <2>1. mlflow' = [mlflow EXCEPT !.parents = now]
    BY <1>1, Zenon
  <2>2. \A b \in Tokens : Len(now[b]) = Len(mlflow.parents[b]) \/ Len(now[b]) <= 1
    <3>1. mlflow.parents \in [Tokens -> Seq(Statuses)]
      BY <1>1 DEF Typed, Trackers
    <3>2. \A b \in Tokens : now[b] = mlflow.parents[b] \/ now[b] = more
      BY <1>2, <3>1
    <3> HIDE DEF now, a, runs
    <3>3. Len(more) <= 1
      BY <1>3
    <3> QED
      BY <3>2, <3>3
  <2> HIDE DEF now
  <2> QED
    BY <1>1, <2>1, <2>2 DEF Typed, Trackers
<1>5. \A b \in Tokens : Decided(b)' = Decided(b)
  BY <1>1 DEF Decided
<1>6. NothingTwice'
  BY <1>1, <1>4, <1>5, TwiceOK
<1>7. Same(r) /\ Keeps(r) /\ ex'[r].pc = "bindparent"
  <2>1. GoWith(r, 1, "bindparent") /\ "bindparent" \in Steps
    BY <1>1, <1>2 DEF Steps
  <2> QED
    BY <1>1, <2>1, GoWithMoves
<1>8. \A b \in Tokens : Attempt(r) = b => Found(r, b)'
  BY <1>7 DEF Found
<1> QED
  BY <1>1, <1>2, <1>6, <1>7, <1>8, CreateOK

\* There is one decision of an attempt.
LEMMA NewDecisionAlone ==
    ASSUME IInv, Neat, NEW r \in Runs, NewDecision(r)
    PROVE  Orderly
<1> DEFINE a == Attempt(r)
           d == [attempt |-> a, choice |-> Pick(r)]
<1>1. /\ ex[r].pc = "newdecision" /\ Working(r) /\ Typed /\ UNCHANGED ledgerVars
      /\ mlflow' = mlflow /\ Awake(r) /\ input' = input
  BY DEF NewDecision, At, OnlyLake, Working, Resting, Loose, IInv, ledgerVars, Awake
<1>2. CASE lake' = lake /\ Raise(r)
  BY <1>1, <1>2, ReadsKeep, StopsOK
<1>3. CASE lake' = [lake EXCEPT !.decisions = @ \cup {d}] /\ Go(r, "lock")
  <2>1. a \in Tokens /\ Decided(a) = {} /\ Stage(r) # COMPLETE
    <3>1. Stage(r) = CANDIDATES_READY
      BY <1>1, AtWork DEF Selecting
    <3> QED
      BY <1>1, <3>1, FoundHere, Numbers DEF Found
  <2>2. d.attempt = a /\ d.choice = Pick(r)
    OBVIOUS
  <2> HIDE DEF d
  <2>3. /\ lake'.frames = lake.frames /\ lake'.receipts = lake.receipts
        /\ lake'.decisions = lake.decisions \cup {d}
    BY <1>1, <1>3 DEF Typed, Lakes
  <2>4. ASSUME NEW b \in Tokens
        PROVE  Decided(b)' = Decided(b) \/ Cardinality(Decided(b)') <= 1
    <3>1. CASE b = a
      <4>1. {e \in lake.decisions : e.attempt = a} = {}
        BY <2>1 DEF Decided
      <4>2. {e \in lake'.decisions : e.attempt = a} = {d}
        BY <2>2, <2>3, <4>1
      <4>3. Decided(b)' = {d.choice}
        BY <3>1, <4>2 DEF Decided
      <4>4. Cardinality({d.choice}) = 1
        BY FS_Singleton
      <4> QED
        BY <4>3, <4>4
    <3>2. CASE b # a
      <4>1. {e \in lake'.decisions : e.attempt = b} = {e \in lake.decisions : e.attempt = b}
        BY <2>2, <2>3, <3>2
      <4> QED
        BY <4>1 DEF Decided
    <3> QED
      BY <3>1, <3>2
  <2>5. NothingTwice'
    BY <1>1, <2>3, <2>4, TwiceOK
  <2>6. Same(r) /\ Keeps(r) /\ ex'[r].pc = "lock"
    BY <1>1, <1>3, GoMoves DEF Steps, Inside
  <2>7. \A b \in Tokens : Attempt(r) = b => Found(r, b)'
    BY <2>6 DEF Found
  <2> QED
    BY <1>1, <2>1, <2>5, <2>6, <2>7, CreateOK
<1> QED
  BY <1>2, <1>3 DEF NewDecision
\* The execution evaluates a candidate: what it relies on.
LEMMA Evaluates ==
    ASSUME IInv, Neat, NEW r \in Runs, ex[r].pc \in {"newchild", "train", "store"}
    PROVE  /\ Working(r) /\ Typed /\ Awake(r) /\ Attempt(r) \in Tokens
           /\ Candidate(r) \in Candidates /\ Stage(r) # COMPLETE
           /\ Found(r, Attempt(r)) /\ ex[r].left # {}
           /\ mlflow.children \in [Tokens -> [Candidates -> Seq(TagSet \cup {None})]]
           /\ lake.receipts \in [Tokens -> [Candidates -> Receipts \cup {None}]]
<1>1. Working(r) /\ Awake(r) /\ Typed /\ ex[r].pc \in Evaluating
  BY DEF Working, Awake, Resting, Loose, IInv, Evaluating
<1>2. Stage(r) # COMPLETE
  <2>1. Stage(r) \in PARENT_READY .. REGISTERED
    BY <1>1, AtWork DEF Prepared
  <2> QED
    BY <2>1, Numbers
<1>3. /\ mlflow.children \in [Tokens -> [Candidates -> Seq(TagSet \cup {None})]]
      /\ lake.receipts \in [Tokens -> [Candidates -> Receipts \cup {None}]]
  BY <1>1 DEF Typed, Trackers, Lakes
<1> QED
  BY <1>1, <1>2, <1>3, FoundHere, CandidateHere

\* The child runs of one candidate change, before it has a receipt.
LEMMA ChildTwice ==
    ASSUME IInv, Neat, NEW a \in Tokens, NEW c \in Candidates, lake' = lake,
           lake.receipts[a][c] = None, NEW t \in Seq(TagSet \cup {None}), Len(t) <= 1,
           mlflow' = [mlflow EXCEPT !.children[a][c] = t]
    PROVE  NothingTwice' /\ mlflow'.children[a][c] = t
<1>1. Typed
  BY DEF IInv
<1>2. /\ mlflow'.parents = mlflow.parents /\ mlflow'.versions = mlflow.versions
  BY <1>1, ChildWritten
<1>3. /\ mlflow.children \in [Tokens -> [Candidates -> Seq(TagSet \cup {None})]]
      /\ mlflow'.children = [mlflow.children EXCEPT ![a][c] = t]
  BY <1>1 DEF Typed, Trackers
<1>4. \A b \in Tokens, d \in Candidates :
          \/ b = a /\ d = c /\ mlflow'.children[b][d] = t
          \/ mlflow'.children[b][d] = mlflow.children[b][d]
  BY <1>3
<1>5. \A b \in Tokens, d \in Candidates :
          \/ /\ mlflow'.children[b][d] = mlflow.children[b][d]
             /\ lake'.receipts[b][d] = lake.receipts[b][d]
          \/ /\ Len(mlflow'.children[b][d]) <= 1
             /\ lake'.receipts[b][d] # None =>
                   mlflow'.children[b][d] = <<lake'.receipts[b][d].tags>>
  BY <1>4
<1>6. \A b \in Tokens : Decided(b)' = Decided(b)
  BY DEF Decided
<1>7. mlflow'.children[a][c] = t
  BY <1>3
<1> QED
  BY <1>2, <1>5, <1>6, <1>7, TwiceOK

\* A child run is created once.
LEMMA NewChildAlone ==
    ASSUME IInv, Neat, NEW r \in Runs, NewChild(r)
    PROVE  Orderly
<1> DEFINE a == Attempt(r)
           c == Candidate(r)
           runs == mlflow.children[a][c]
<1>1. /\ ex[r].pc = "newchild" /\ UNCHANGED ledgerVars /\ lake' = lake
      /\ mlflow' = [mlflow EXCEPT !.children[a][c] = Append(runs, None)]
      /\ GoWith(r, Len(runs) + 1, "train")
  BY DEF NewChild, At, OnlyMlflow, ledgerVars
<1>2. /\ Working(r) /\ Typed /\ a \in Tokens /\ c \in Candidates /\ Stage(r) # COMPLETE
      /\ lake.receipts[a][c] = None /\ runs = <<>>
  BY <1>1, Evaluates DEF Found
<1>3. /\ Append(runs, None) = <<None>> /\ <<None>> \in Seq(TagSet \cup {None})
      /\ Len(<<None>>) = 1 /\ Len(runs) + 1 = 1
  BY <1>2
<1>4. mlflow' = [mlflow EXCEPT !.children[a][c] = <<None>>] /\ GoWith(r, 1, "train")
  BY <1>1, <1>3
<1>5. NothingTwice' /\ mlflow'.children[a][c] = <<None>>
  <2>1. PICK t \in Seq(TagSet \cup {None}) : t = <<None>>
    BY <1>3
  <2>2. mlflow' = [mlflow EXCEPT !.children[a][c] = t] /\ Len(t) <= 1
    BY <1>3, <1>4, <2>1
  <2>3. lake' = lake
    BY <1>1
  <2> HIDE DEF a, c, runs
  <2> QED
    BY <1>2, <2>1, <2>2, <2>3, ChildTwice
<1>6. /\ Same(r) /\ Keeps(r) /\ ex'[r].pc = "train" /\ ex'[r].hand = 1
      /\ ex'[r].left = ex[r].left
  BY <1>2, <1>4, GoWithMoves DEF Steps, Inside
<1>7. Candidate(r)' = c
  BY <1>6, SameCandidate
<1>8. \A b \in Tokens : Attempt(r) = b => Found(r, b)'
  BY <1>1, <1>2, <1>5, <1>6, <1>7 DEF Found
<1> QED
  BY <1>1, <1>2, <1>5, <1>6, <1>8, CreateOK

\* The one child run is tagged.
LEMMA TrainAlone ==
    ASSUME IInv, Neat, NEW r \in Runs, Train(r)
    PROVE  Orderly
<1> DEFINE a == Attempt(r)
           c == Candidate(r)
           runs == mlflow.children[a][c]
<1>1. PICK status \in {"READY", "FAILED"} :
          LET tags == [status |-> status, by |-> ex[r].tok]
          IN  /\ mlflow' = [mlflow EXCEPT !.children[a][c][ex[r].hand] = tags]
              /\ ex' = [ex EXCEPT ![r].pc = "store",
                                  ![r].eval = [tags |-> tags, recovered |-> FALSE]]
  BY DEF Train
<1> DEFINE tags == [status |-> status, by |-> ex[r].tok]
           e == [tags |-> tags, recovered |-> FALSE]
<1>2. ex[r].pc = "train" /\ UNCHANGED ledgerVars /\ lake' = lake
  BY DEF Train, At, OnlyMlflow, ledgerVars
<1>3. /\ Working(r) /\ Typed /\ a \in Tokens /\ c \in Candidates /\ Stage(r) # COMPLETE
      /\ lake.receipts[a][c] = None /\ runs = <<None>> /\ ex[r].hand = 1 /\ Awake(r)
  BY <1>2, Evaluates DEF Found
<1>4. /\ mlflow' = [mlflow EXCEPT !.children[a][c][1] = tags]
      /\ ex' = [ex EXCEPT ![r].pc = "store", ![r].eval = e]
  BY <1>1, <1>3
<1>5. tags \in TagSet /\ e \in Evaluations /\ e.tags = tags
  BY <1>3, AtWork DEF TagSet, Evaluations
<1> HIDE DEF tags, e
<1>6. [<<None>> EXCEPT ![1] = tags] = <<tags>> /\ <<tags>> \in Seq(TagSet \cup {None})
      /\ Len(<<tags>>) = 1
  BY <1>5
<1>7. mlflow' = [mlflow EXCEPT !.children[a][c] = <<tags>>]
  <2> DEFINE t == [runs EXCEPT ![1] = tags]
  <2>1. mlflow' = [mlflow EXCEPT !.children[a][c] = t]
    BY <1>4, Zenon
  <2>2. t = <<tags>>
    BY <1>3, <1>6
  <2> QED
    BY <2>1, <2>2
<1>8. NothingTwice' /\ mlflow'.children[a][c] = <<tags>>
  <2>1. PICK t \in Seq(TagSet \cup {None}) : t = <<tags>>
    BY <1>6
  <2>2. mlflow' = [mlflow EXCEPT !.children[a][c] = t] /\ Len(t) <= 1
    BY <1>6, <1>7, <2>1
  <2> HIDE DEF a, c
  <2> QED
    BY <1>2, <1>3, <2>1, <2>2, ChildTwice
<1>9. /\ Same(r) /\ Keeps(r) /\ ex'[r].pc = "store" /\ ex'[r].left = ex[r].left
      /\ ex'[r].eval = e
  <2> DEFINE new == [ex[r] EXCEPT !.pc = "store", !.eval = e]
  <2>1. ex[r] \in Executions /\ ex \in [Runs -> Executions]
    BY <1>3, ExFields DEF Typed
  <2>2. ex' = [ex EXCEPT ![r] = new]
    BY <1>4, <2>1 DEF Executions
  <2>3. /\ new.pc = "store" /\ new.eval = e /\ new.left = ex[r].left
        /\ new.tok = ex[r].tok /\ new.mine = ex[r].mine /\ new.old = ex[r].old
    BY <2>1 DEF Executions
  <2> HIDE DEF new
  <2>4. Same(r) /\ ex'[r] = new
    BY <2>1, <2>2 DEF Same
  <2> QED
    BY <2>3, <2>4 DEF Keeps
<1>10. Candidate(r)' = c
  BY <1>9, SameCandidate
<1>11. \A b \in Tokens : Attempt(r) = b => Found(r, b)'
  BY <1>2, <1>3, <1>5, <1>8, <1>9, <1>10 DEF Found
<1> QED
  BY <1>2, <1>3, <1>8, <1>9, <1>11, CreateOK

\* A receipt has the tags of the one child run.
LEMMA StoreReceiptAlone ==
    ASSUME IInv, Neat, NEW r \in Runs, StoreReceipt(r)
    PROVE  Orderly
<1> DEFINE a == Attempt(r)
           c == Candidate(r)
           row == [status |-> ex[r].eval.tags.status, tags |-> ex[r].eval.tags,
                   run |-> ex[r].hand, recovered |-> ex[r].eval.recovered]
<1>1. /\ ex[r].pc = "store" /\ UNCHANGED ledgerVars /\ mlflow' = mlflow /\ input' = input
  BY DEF StoreReceipt, At, OnlyLake, ledgerVars
<1>2. /\ Working(r) /\ Typed /\ a \in Tokens /\ c \in Candidates /\ Stage(r) # COMPLETE
      /\ lake.receipts[a][c] = None /\ mlflow.children[a][c] = <<ex[r].eval.tags>>
      /\ ex[r].left # {}
  BY <1>1, Evaluates DEF Found
<1>3. row.tags = ex[r].eval.tags
  OBVIOUS
<1> HIDE DEF row
<1>4. CASE lake' = lake /\ Raise(r)
  BY <1>1, <1>4, ReadsKeep, StopsOK
<1>5. ASSUME NextCandidate(r)
      PROVE  Same(r) /\ Keeps(r) /\ ex'[r].pc \in {"receipt", "candidates", "recommend"}
  BY <1>2, <1>5, NextCandidateMoves
<1>6. CASE lake' = lake /\ NextCandidate(r)
  BY <1>1, <1>2, <1>5, <1>6, ReadsKeep, LookOK, NothingFound DEF GoesOn, Keeps, Guarded
<1>7. CASE lake' = [lake EXCEPT !.receipts[a][c] = row] /\ NextCandidate(r)
  <2>1. /\ lake'.frames = lake.frames /\ lake'.decisions = lake.decisions
        /\ lake'.receipts = [lake.receipts EXCEPT ![a][c] = row]
        /\ lake.receipts \in [Tokens -> [Candidates -> Receipts \cup {None}]]
    BY <1>2, <1>7 DEF Typed, Lakes
  <2>2. \A b \in Tokens, d \in Candidates :
            \/ b = a /\ d = c /\ lake'.receipts[b][d] = row
            \/ lake'.receipts[b][d] = lake.receipts[b][d]
    BY <2>1
  <2>3. Len(<<ex[r].eval.tags>>) = 1
    OBVIOUS
  <2>4. ASSUME NEW b \in Tokens, NEW d \in Candidates
        PROVE  \/ /\ mlflow'.children[b][d] = mlflow.children[b][d]
                  /\ lake'.receipts[b][d] = lake.receipts[b][d]
               \/ /\ Len(mlflow'.children[b][d]) <= 1
                  /\ lake'.receipts[b][d] # None =>
                        mlflow'.children[b][d] = <<lake'.receipts[b][d].tags>>
    <3>1. CASE b = a /\ d = c /\ lake'.receipts[b][d] = row
      <4> DEFINE one == <<ex[r].eval.tags>>
      <4>1. mlflow'.children[b][d] = one /\ Len(one) <= 1
        BY <1>1, <1>2, <2>3, <3>1
      <4>2. <<lake'.receipts[b][d].tags>> = one
        BY <1>3, <3>1
      <4> HIDE DEF one
      <4> QED
        BY <4>1, <4>2
    <3>2. CASE lake'.receipts[b][d] = lake.receipts[b][d]
      BY <1>1, <3>2
    <3> QED
      BY <2>2, <3>1, <3>2
  <2>5. \A b \in Tokens : Decided(b)' = Decided(b)
    BY <2>1 DEF Decided
  <2>6. NothingTwice'
    BY <1>1, <2>1, <2>4, <2>5, TwiceOK
  <2>7. \A b \in Tokens : Attempt(r) = b => Found(r, b)'
    BY <1>5, <1>7 DEF Found
  <2> QED
    BY <1>1, <1>2, <1>5, <1>7, <2>6, <2>7, CreateOK
<1> QED
  BY <1>4, <1>6, <1>7 DEF StoreReceipt, row
\* A version is registered once.
LEMMA RegisterAlone ==
    ASSUME IInv, Neat, NEW r \in Runs, Register(r)
    PROVE  Orderly
<1> DEFINE a == Attempt(r)
           c == Pick(r)
           v == mlflow.versions[a][c] + 1
<1>1. /\ ex[r].pc = "register" /\ UNCHANGED ledgerVars /\ lake' = lake /\ input' = input
      /\ mlflow' = [mlflow EXCEPT !.versions[a][c] = v] /\ GoWith(r, v, "persist")
      /\ Working(r) /\ Awake(r) /\ Typed
  BY DEF Register, At, OnlyMlflow, ledgerVars, Working, Awake, Resting, Loose, IInv
<1>2. /\ a \in Tokens /\ c \in Candidates /\ v = 1 /\ lake.models[a][c] = 0
      /\ ex[r].mine.refs["decision"] = c
  <2>1. Firm(a) /\ ex[r].mine.refs["decision"] = c
    BY <1>1, AtWork DEF Selecting, Registering
  <2> QED
    BY <1>1, <2>1, FoundHere, FirmPick DEF Found
<1>3. Stage(r) # COMPLETE
  <2> SUFFICES ASSUME Stage(r) = COMPLETE PROVE FALSE
    OBVIOUS
  <2>1. /\ entry # None /\ entry.checkpoint = COMPLETE /\ entry.attempt = a
        /\ entry.refs["decision"] = c
    BY <1>1, <1>2, AtWorkAlone DEF Attempt
  <2>2. lake.models[a][c] # 0
    BY <1>2, <2>1, Numbers DEF IInv, EntryOK
  <2> QED
    BY <1>2, <2>2
<1>4. mlflow' = [mlflow EXCEPT !.versions[a][c] = 1] /\ GoWith(r, 1, "persist")
  BY <1>1, <1>2
<1>5. /\ mlflow'.parents = mlflow.parents /\ mlflow'.children = mlflow.children
      /\ mlflow'.versions = [mlflow.versions EXCEPT ![a][c] = 1]
      /\ mlflow.versions \in [Tokens -> [Candidates -> Nat]]
  BY <1>1, <1>2, <1>4 DEF Typed, Trackers
<1>6. Same(r) /\ Keeps(r) /\ ex'[r].pc = "persist"
  BY <1>1, <1>4, GoWithMoves DEF Steps, Inside
<1>7. Pick(r)' = c
  BY <1>1, <1>2, <1>6, SamePick DEF Keeps
<1> HIDE DEF c, v
<1>8. \A b \in Tokens, d \in Candidates :
          mlflow'.versions[b][d] = mlflow.versions[b][d] \/ mlflow'.versions[b][d] <= 1
  BY <1>2, <1>5
<1>9. \A b \in Tokens : Decided(b)' = Decided(b)
  BY <1>1 DEF Decided
<1>10. NothingTwice'
  BY <1>1, <1>5, <1>8, <1>9, TwiceOK
<1>11. \A b \in Tokens : Attempt(r) = b => Found(r, b)'
  BY <1>1, <1>2, <1>6, <1>7 DEF Found
<1> QED
  BY <1>1, <1>3, <1>6, <1>10, <1>11, CreateOK

\* The row of a model is replaced by the same, once the claim is COMPLETE.
LEMMA StoreModelAlone ==
    ASSUME IInv, Neat, NEW r \in Runs, StoreModel(r)
    PROVE  Orderly
<1> DEFINE a == Attempt(r)
           c == Pick(r)
           v == ex[r].hand
<1>1. /\ ex[r].pc = "persist" /\ UNCHANGED ledgerVars /\ mlflow' = mlflow /\ input' = input
      /\ lake' = [lake EXCEPT !.models[a][c] = v] /\ Go(r, "registered")
      /\ Working(r) /\ Awake(r) /\ Typed
  BY DEF StoreModel, At, OnlyLake, ledgerVars, Working, Awake, Resting, Loose, IInv
<1>2. /\ a \in Tokens /\ c \in Candidates /\ (lake.models[a][c] = 0 \/ v = lake.models[a][c])
      /\ ex[r].mine.refs["decision"] = c
  <2>1. Firm(a) /\ ex[r].mine.refs["decision"] = c
    BY <1>1, AtWork DEF Selecting, Registering
  <2> QED
    BY <1>1, <2>1, FoundHere, FirmPick DEF Found
<1>3. Same(r) /\ Keeps(r) /\ ex'[r].pc = "registered"
  BY <1>1, GoMoves DEF Steps, Inside
<1>4. /\ lake'.frames = lake.frames /\ lake'.receipts = lake.receipts
      /\ lake'.decisions = lake.decisions
      /\ lake'.models = [lake.models EXCEPT ![a][c] = v]
      /\ lake.models \in [Tokens -> [Candidates -> Nat]]
  BY <1>1 DEF Typed, Lakes
<1>5. CASE Stage(r) = COMPLETE
  <2>1. /\ entry # None /\ entry.checkpoint = COMPLETE /\ entry.attempt = a
        /\ entry.refs["decision"] = c
    BY <1>1, <1>2, <1>5, AtWorkAlone DEF Attempt
  <2>2. lake.models[a][c] # 0
    BY <1>2, <2>1, Numbers DEF IInv, EntryOK
  <2>3. v = lake.models[a][c]
    BY <1>2, <2>2
  <2> HIDE DEF v
  <2>4. lake'.models = lake.models
    BY <1>2, <1>4, <2>3
  <2>5. Kept
    BY <1>1, <1>4, <2>4 DEF Kept
  <2> QED
    BY <1>1, <1>3, <2>5, LookOK, NothingFound DEF GoesOn, Keeps, Guarded
<1>6. CASE Stage(r) # COMPLETE
  <2>1. \A b \in Tokens : Decided(b)' = Decided(b)
    BY <1>4 DEF Decided
  <2>2. NothingTwice'
    BY <1>1, <1>4, <2>1, TwiceOK
  <2>3. \A b \in Tokens : Attempt(r) = b => Found(r, b)'
    BY <1>3 DEF Found
  <2> QED
    BY <1>1, <1>3, <1>6, <2>2, <2>3, CreateOK
<1> QED
  BY <1>5, <1>6

-----------------------------------------------------------------------------
(* The theorems.                                                           *)

\* At the start nothing is there, and nobody is at work.
LEMMA NeatAtFirst == Init => Neat
<1> SUFFICES ASSUME Init PROVE Neat
  OBVIOUS
<1>1. /\ lake.frames = [a \in Tokens |-> 0] /\ lake.receipts = PerCandidate(None)
      /\ lake.decisions = {} /\ mlflow.parents = [a \in Tokens |-> <<>>]
      /\ mlflow.children = PerCandidate(<<>>) /\ mlflow.versions = PerCandidate(0)
      /\ ex = [r \in Runs |-> Idle]
  BY DEF Init
<1>2. Cardinality({}) = 0 /\ \A a \in Tokens : Decided(a) = {}
  BY <1>1, FS_EmptySet DEF Decided
<1>3. NothingTwice
  <2>1. Len(<<>>) = 0
    OBVIOUS
  <2>2. \A a \in Tokens : lake.frames[a] = 0 /\ mlflow.parents[a] = <<>>
    BY <1>1
  <2>3. \A a \in Tokens, c \in Candidates :
            /\ lake.receipts[a][c] = None /\ mlflow.children[a][c] = <<>>
            /\ mlflow.versions[a][c] = 0
    BY <1>1 DEF PerCandidate
  <2>4. ASSUME NEW a \in Tokens
        PROVE  /\ lake.frames[a] <= 1 /\ Len(mlflow.parents[a]) <= 1
               /\ Cardinality(Decided(a)) <= 1
    <3>1. Len(mlflow.parents[a]) = 0 /\ Cardinality(Decided(a)) = 0
      BY <1>2, <2>1, <2>2
    <3> QED
      BY <2>2, <3>1
  <2>5. ASSUME NEW a \in Tokens, NEW c \in Candidates
        PROVE  /\ Len(mlflow.children[a][c]) <= 1 /\ mlflow.versions[a][c] <= 1
               /\ lake.receipts[a][c] = None
    <3>1. Len(mlflow.children[a][c]) = 0
      BY <2>1, <2>3
    <3> QED
      BY <2>3, <3>1
  <2> QED
    BY <2>4, <2>5 DEF NothingTwice
<1>4. ASSUME NEW r \in Runs PROVE Alone(r) /\ StillFound(r)
  BY <1>1, <1>4 DEF Alone, StillFound, Found, Working, Resting, Idle
<1> QED
  BY <1>3, <1>4 DEF Neat

\* Every step keeps the invariant, and the model of a COMPLETE claim.
LEMMA EveryStepAlone ==
    ASSUME IInv, Neat, IInv', ~Overlap, [Next]_vars
    PROVE  Neat' /\ (ModelStays \/ UNCHANGED vars)
<1>1. CASE Lapse
  BY <1>1, LapseAlone DEF Orderly
<1>2. CASE UNCHANGED vars
  <2>1. Kept /\ ex' = ex /\ UNCHANGED ledgerVars
    BY <1>2, ReadsKeep DEF vars, ledgerVars
  <2>2. \A s \in Runs : Alone(s)' /\ StillFound(s)'
    BY <2>1, KeptFound DEF Neat, Alone, Working, ledgerVars
  <2> QED
    BY <1>2, <2>1, <2>2, KeptTwice DEF Neat
<1>3. ASSUME NEW r \in Runs, Error(r) \/ Crash(r) PROVE Orderly
  BY <1>3, FaultAlone
<1>4. ASSUME NEW r \in Runs, Step(r) PROVE Orderly
  <2>1. CASE \/ Begin(r) \/ Acquire(r) \/ Yield(r) \/ Reload(r) \/ Reuse(r) \/ Settle(r)
             \/ Check(r)
    BY <2>1, BeginAlone, AcquireAlone, ReleaseAlone, ReloadAlone, ReuseAlone, SettleAlone,
       CheckAlone
  <2>2. CASE \/ FindFrame(r) \/ AppendFrame(r) \/ BindFrame(r) \/ ReadFrame(r)
             \/ FindParent(r) \/ NewParent(r) \/ BindParent(r) \/ Enter(r)
    BY <2>2, FindFrameAlone, AppendFrameAlone, BindAlone, EasyReads, NewParentAlone,
       MarksAlone
  <2>3. CASE \/ FindReceipt(r) \/ FindChild(r) \/ NewChild(r) \/ Train(r) \/ StoreReceipt(r)
             \/ CandidatesReady(r) \/ Recommend(r)
    BY <2>3, FindReceiptAlone, FindChildAlone, NewChildAlone, TrainAlone, StoreReceiptAlone,
       BindAlone, MarksAlone
  <2>4. CASE \/ FailBuild(r) \/ FailClaim(r) \/ Release(r) \/ StoreAwaiting(r)
             \/ Awaiting(r) \/ StoreReady(r) \/ Complete(r) \/ Finalize(r)
    BY <2>4, BuildsAlone, FailClaimAlone, ReleaseAlone, EasyReads, BindAlone, MarksAlone
  <2>5. CASE \/ Decide(r) \/ NewDecision(r) \/ Lock(r) \/ ReadTest(r)
             \/ FindModel(r) \/ FindVersion(r) \/ Register(r) \/ StoreModel(r)
             \/ Registered(r)
    BY <2>5, DecideAlone, NewDecisionAlone, BindAlone, EasyReads, FindModelAlone,
       RegisterAlone, StoreModelAlone, RegisteredAlone
  <2>6. CASE LogParent(r) \/ Close(r) \/ Reviewed(r) \/ Disown(r)
    BY <2>6, MarksAlone, BindAlone, EasyReads
  <2> QED
    BY <1>4, <2>1, <2>2, <2>3, <2>4, <2>5, <2>6 DEF Step
<1> QED
  BY <1>1, <1>2, <1>3, <1>4 DEF Next, Orderly

\* Where leases keep their holders, the stronger invariant holds.
THEOREM AloneInvariance == ~Overlap => (Spec => []Neat)
<1> SUFFICES ASSUME ~Overlap PROVE Spec => []Neat
  OBVIOUS
<1>1. ASSUME IInv, Neat, IInv', [Next]_vars PROVE Neat'
  BY <1>1, EveryStepAlone
<1> QED
  BY <1>1, NeatAtFirst, Invariance, PTL DEF Spec

\* As long as no lease lapses under its holder, crashes and retries create no
\* frame, parent run, child run, decision or model version twice, and a receipt
\* agrees with the one child run of its candidate.
THEOREM NothingCreatedTwice == ~Overlap => (Spec => []NothingTwice)
<1>1. Neat => NothingTwice
  BY DEF Neat
<1> QED
  BY <1>1, AloneInvariance, PTL

\* Nor is the model changed that a COMPLETE claim stands for.
THEOREM CompleteModelStays == ~Overlap => (Spec => SelectedModelStays)
<1> SUFFICES ASSUME ~Overlap PROVE Spec => SelectedModelStays
  OBVIOUS
<1> DEFINE Stays == entry # None /\ entry.checkpoint = COMPLETE =>
                        /\ lake'.models = lake.models
                        /\ mlflow'.versions = mlflow.versions
<1>1. ASSUME IInv, Neat, IInv', [Next]_vars PROVE [Stays]_vars
  BY <1>1, EveryStepAlone DEF ModelStays
<1>2. Spec => []Neat
  BY AloneInvariance
<1>3. Spec => [][Stays]_vars
  BY <1>1, <1>2, Invariance, PTL DEF Spec
<1> QED
  BY <1>3 DEF SelectedModelStays
=============================================================================
