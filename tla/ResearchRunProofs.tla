------------------------- MODULE ResearchRunProofs -------------------------
(***************************************************************************)
(* Proofs about ResearchRun: its types, and the two promises that hold     *)
(* however executions overlap, crash and take each other's claim over.     *)
(***************************************************************************)
EXTENDS ResearchRun, FiniteSetTheorems, SequenceTheorems, TLAPS

-----------------------------------------------------------------------------
(* The inductive invariant.                                                *)

\* The references that a checkpoint needs are there, each of its kind.
Rows ==
    {row \in Claims :
        /\ row.refs["frame"] \in Tokens \cup {None}
        /\ row.refs["parent"] \in Tokens \cup {None}
        /\ row.refs["decision"] \in Candidates \cup {None}
        /\ PayloadComplete(row.checkpoint, row.refs)}

\* The records that TypeOK speaks of.
Evaluations == [tags : TagSet, recovered : BOOLEAN]
Executions ==
    [pc : Steps, tok : Tokens \cup {0}, old : Tokens \cup {0}, mine : Rows \cup {None},
     hand : Nat, eval : Evaluations \cup {None}, left : SUBSET Candidates]
Inputs == [policy : Policies, code : [Runs \ Reviewers -> Codes],
           choice : [Reviewers -> Candidates]]
Lakes == [frames : [Tokens -> Nat], receipts : [Tokens -> [Candidates -> Receipts \cup {None}]],
          builds : [Tokens -> Builds \cup {None}],
          decisions : SUBSET [attempt : Tokens, choice : Candidates],
          models : [Tokens -> [Candidates -> Nat]]]
Statuses == {"RUNNING", "FINISHED", "FAILED"}
Trackers == [parents : [Tokens -> Seq(Statuses)],
             children : [Tokens -> [Candidates -> Seq(TagSet \cup {None})]],
             versions : [Tokens -> [Candidates -> Nat]]]

Typed ==
    /\ entry \in Rows \cup {None} /\ lapsed \in BOOLEAN /\ input \in Inputs
    /\ minted \in Nat /\ 1 .. minted \subseteq Tokens /\ faults \in 0 .. MaxFaults
    /\ lake \in Lakes /\ mlflow \in Trackers
    /\ exposed \in [Tokens -> SUBSET Candidates]
    /\ ex \in [Runs -> Executions]

\* An attempt whose candidates all have a receipt, and whether enough of them
\* are READY.  Receipts do not change, so neither do these.
Full(a) == \A c \in Candidates : lake.receipts[a][c] # None
Doomed(a) == Full(a) /\ Fails(a)
Firm(a) == Full(a) /\ ~Fails(a)

\* What the checkpoint of the claim says of the stores.
EntryOK ==
    \A a \in Tokens : entry # None /\ entry.attempt = a =>
        /\ entry.checkpoint = FAILED => Doomed(a)
        /\ entry.checkpoint \in CANDIDATES_READY .. COMPLETE => Full(a)
        /\ entry.checkpoint \in SELECTION_LOCKED .. COMPLETE =>
              Firm(a) /\ entry.refs["decision"] \in Decided(a)
        /\ entry.checkpoint \in REGISTERED .. COMPLETE =>
              lake.models[a][entry.refs["decision"]] # 0
        /\ entry.checkpoint = COMPLETE => a \in Selectable

\* What a stored build says of the claim.
BuildsOK ==
    \A a \in Tokens :
        /\ lake.builds[a] # None /\ lake.builds[a].status = "FAILED" => Doomed(a)
        /\ a \in Selectable =>
              /\ Firm(a)
              /\ entry # None /\ entry.attempt = a
              /\ entry.checkpoint \in CANDIDATES_READY .. COMPLETE
              /\ lake.builds[a].status = "READY" => entry.checkpoint >= REGISTERED

\* Tokens are drawn once, and the holder of the claim knows its row.
Resting == {"idle", "done"}
Holds(r) ==
    /\ ex[r].tok <= minted
    /\ ex[r].tok = 0 <=> ex[r].pc \in Resting
    /\ \A s \in Runs : ex[s].tok = ex[r].tok /\ ex[r].tok # 0 => s = r
    /\ ex[r].mine = None <=> ex[r].pc \in Resting \cup {"claim"}
    /\ entry # None /\ entry.token = ex[r].tok /\ ex[r].pc \notin Resting \cup {"claim", "disown"}
          => ex[r].mine = entry

\* The claim has gone on from the row an execution was handed, unless the
\* attempt of that row has failed.
Follows(r) ==
    \A a \in Tokens : ex[r].mine # None /\ ex[r].mine.attempt = a =>
        /\ entry # None
        /\ ex[r].mine.checkpoint # FAILED
        /\ \/ Doomed(a)
           \/ /\ entry.attempt = a
              /\ ex[r].mine.checkpoint <= entry.checkpoint
              /\ \A n \in RefNames :
                    ex[r].mine.refs[n] # None => entry.refs[n] = ex[r].mine.refs[n]

\* The steps of an execution, in the order of the checkpoints.
Framing == {"frame", "append", "bind"}
Parenting == {"parent", "newparent", "bindparent"}
Evaluating == {"receipt", "child", "newchild", "train", "store"}
Storing == {"release", "awaiting"}
Choosing == {"decide", "newdecision", "lock"}
Registering == {"test", "model", "search", "register", "persist"}
Closing == {"ready", "complete", "logparent", "closing"}
Reviewing == Resting \cup {"claim"} \cup Choosing \cup Registering
                 \cup {"registered", "logparent", "closing", "reviewed"}

\* Who takes which step, and with what in hand.
Casting(r) ==
    /\ r \in Reviewers => ex[r].pc \in Reviewing
    /\ ex[r].pc \in {"logparent", "closing", "reviewed"} => r \in Reviewers
    /\ ex[r].old # 0 => ex[r].old \in Selectable
    /\ (r \in Reviewers /\ ex[r].pc \notin Resting) \/ ex[r].pc \in {"yield", "reuse", "settle"}
          => ex[r].old # 0
    /\ ex[r].pc \in {"bind", "bindparent"} => ex[r].hand \in Tokens
    /\ ex[r].pc = "store" => ex[r].eval \in Evaluations
    /\ ex[r].pc = "persist" => ex[r].hand # 0
    /\ ex[r].pc \in Evaluating => ex[r].left # {}

\* What an execution has reached at each of its steps: up to the evaluations,
\* and from the recommendation on.
Prepared(r, a) ==
    /\ ex[r].pc = "check" => Stage(r) \in CLAIMED .. REGISTERED
    /\ ex[r].pc \in Framing => Stage(r) = CLAIMED
    /\ ex[r].pc = "readframe" => Stage(r) \in FRAME_READY .. REGISTERED
    /\ ex[r].pc \in Parenting => Stage(r) = FRAME_READY
    /\ ex[r].pc \in Evaluating \cup {"enter"} => Stage(r) \in PARENT_READY .. REGISTERED
    /\ ex[r].pc \in Evaluating =>
          \A c \in Candidates \ ex[r].left : lake.receipts[a][c] # None
    /\ ex[r].pc = "candidates" => Full(a) /\ Stage(r) = PARENT_READY
    /\ ex[r].pc = "recommend" => Full(a) /\ Stage(r) \in CANDIDATES_READY .. REGISTERED
    /\ ex[r].pc \in {"failbuild", "failclaim"} =>
          Doomed(a) /\ Stage(r) \in CANDIDATES_READY .. REGISTERED

Selecting(r, a) ==
    /\ ex[r].pc \in Storing \cup Choosing =>
          Firm(a) /\ Stage(r) \in CANDIDATES_READY .. COMPLETE
    /\ ex[r].pc \in {"newdecision", "lock"} => Stage(r) = CANDIDATES_READY
    /\ ex[r].pc = "lock" => Pick(r) \in Decided(a)
    /\ ex[r].pc \in Registering \cup Closing \cup {"registered"} =>
          /\ Firm(a) /\ Stage(r) \in SELECTION_LOCKED .. COMPLETE
          /\ ex[r].mine.refs["decision"] = Pick(r)
    /\ ex[r].pc \in Closing \cup {"registered"} => lake.models[a][Pick(r)] # 0
    /\ ex[r].pc \in Closing => Stage(r) \in REGISTERED .. COMPLETE
    /\ ex[r].pc = "complete" => a \in Selectable

Reached(r) ==
    \A a \in Tokens : ex[r].mine # None /\ ex[r].mine.attempt = a =>
        Prepared(r, a) /\ Selecting(r, a)

RunOK(r) == Holds(r) /\ Follows(r) /\ Casting(r) /\ Reached(r)

\* Every append of a frame, and every parent run, is of an execution of its own.
BeforeFrame == {"claim", "check", "frame", "append"}
BeforeParent == BeforeFrame \cup {"bind", "readframe", "parent", "newparent"}
Numbered(n, before) ==
    \E made \in SUBSET (1 .. minted) :
        /\ Cardinality(made) = n
        /\ \A r \in Runs : ex[r].tok \in made => ex[r].pc \notin before
Counted ==
    \A a \in Tokens : /\ Numbered(lake.frames[a], BeforeFrame)
                      /\ Numbered(Len(mlflow.parents[a]), BeforeParent)

IInv ==
    /\ Typed /\ Counted
    /\ EntryOK /\ BuildsOK /\ OneCandidateSelected
    /\ \A r \in Runs : RunOK(r)

-----------------------------------------------------------------------------
(* Data.                                                                   *)

\* The checkpoints are the numbers from 0 to 7.
LEMMA Numbers ==
    /\ CLAIMED = 0 /\ FRAME_READY = 1 /\ PARENT_READY = 2 /\ CANDIDATES_READY = 3
    /\ SELECTION_LOCKED = 4 /\ REGISTERED = 5 /\ COMPLETE = 6 /\ FAILED = 7
BY DEF CLAIMED, FRAME_READY, PARENT_READY, CANDIDATES_READY, SELECTION_LOCKED, REGISTERED,
   COMPLETE, FAILED

\* Records and rows are no None, and so what is no None is a row.
LEMMA RowFields ==
    ASSUME NEW row \in Rows
    PROVE  /\ row # None /\ row.attempt \in Tokens /\ row.token \in Tokens
           /\ row.owner \in Runs /\ row.code \in Codes /\ row.checkpoint \in 0 .. 7
           /\ row.refs \in [RefNames -> RefVals \cup {None}]
           /\ row.refs["frame"] \in Tokens \cup {None}
           /\ row.refs["parent"] \in Tokens \cup {None}
           /\ row.refs["decision"] \in Candidates \cup {None}
           /\ row.checkpoint \in 1 .. 6 => row.refs["frame"] \in Tokens
           /\ row.checkpoint \in 2 .. 6 => row.refs["parent"] \in Tokens
           /\ row.checkpoint \in 4 .. 6 => row.refs["decision"] \in Candidates
<1>1. row \in Claims /\ PayloadComplete(row.checkpoint, row.refs)
  BY DEF Rows
<1>2. row # None
  BY <1>1, RunAssumption
<1>3. row.checkpoint \in 0 .. 7
  BY <1>1, Numbers DEF Claims, Checkpoints
<1>4. /\ row.checkpoint \in 1 .. 6 => row.refs["frame"] # None
      /\ row.checkpoint \in 2 .. 6 => row.refs["parent"] # None
      /\ row.checkpoint \in 4 .. 6 => row.refs["decision"] # None
  BY <1>1, Numbers DEF PayloadComplete, NeededFrom, RefNames
<1> QED
  BY <1>1, <1>2, <1>3, <1>4 DEF Claims, Rows

\* What an execution consists of.
LEMMA ExFields ==
    ASSUME Typed, NEW r \in Runs
    PROVE  /\ ex[r] \in Executions /\ ex[r].pc \in Steps /\ ex[r].tok \in Tokens \cup {0}
           /\ ex[r].old \in Tokens \cup {0} /\ ex[r].mine \in Rows \cup {None}
           /\ ex[r].hand \in Nat /\ ex[r].eval \in Evaluations \cup {None}
           /\ ex[r].left \in SUBSET Candidates
BY DEF Typed, Executions

\* Tokens are numbers.
LEMMA TokenFields ==
    ASSUME Typed
    PROVE  minted \in Nat /\ \A r \in Runs : ex[r].tok \in Nat
<1>1. \A r \in Runs : ex[r].tok \in Tokens \cup {0}
  BY ExFields
<1>2. \A t \in Tokens \cup {0} : t \in Nat
  BY RunAssumption
<1>3. minted \in Nat
  BY DEF Typed
<1> QED
  BY <1>1, <1>2, <1>3

\* Types of the claim, the stores and the executions.
LEMMA TypedIsOK == Typed => TypeOK
<1> SUFFICES ASSUME Typed PROVE TypeOK
  OBVIOUS
<1>1. Rows \subseteq Claims
  BY DEF Rows
<1>2. entry \in Claims \cup {None}
  BY <1>1 DEF Typed
<1>3. /\ lake.frames \in [Tokens -> Nat]
      /\ lake.receipts \in [Tokens -> [Candidates -> Receipts \cup {None}]]
      /\ lake.builds \in [Tokens -> Builds \cup {None}]
      /\ lake.decisions \subseteq [attempt : Tokens, choice : Candidates]
      /\ lake.models \in [Tokens -> [Candidates -> Nat]]
  BY DEF Typed, Lakes
<1>4. /\ mlflow.parents \in [Tokens -> Seq({"RUNNING", "FINISHED", "FAILED"})]
      /\ mlflow.children \in [Tokens -> [Candidates -> Seq(TagSet \cup {None})]]
      /\ mlflow.versions \in [Tokens -> [Candidates -> Nat]]
  BY DEF Typed, Trackers, Statuses
<1> DEFINE Loose == [pc : Steps, tok : Tokens \cup {0}, old : Tokens \cup {0},
           mine : Claims \cup {None}, hand : Nat,
           eval : [tags : TagSet, recovered : BOOLEAN] \cup {None},
           left : SUBSET Candidates]
<1>5. Executions \subseteq Loose
  BY <1>1 DEF Executions, Evaluations
<1>6. ex \in [Runs -> Loose]
  BY <1>5 DEF Typed
<1> QED
  BY <1>2, <1>3, <1>4, <1>6 DEF TypeOK, Typed

\* Replacing an element, in the sequence or not, keeps type and length.
LEMMA ReplaceInSeq ==
    ASSUME NEW S, NEW s \in Seq(S), NEW e \in S, NEW i
    PROVE  [s EXCEPT ![i] = e] \in Seq(S) /\ Len([s EXCEPT ![i] = e]) = Len(s)
<1> DEFINE t == [s EXCEPT ![i] = e]
<1>1. s \in [1 .. Len(s) -> S] /\ Len(s) \in Nat
  OBVIOUS
<1>2. t \in [1 .. Len(s) -> S]
  BY <1>1
<1>3. t \in Seq(S)
  BY <1>1, <1>2, IsASeq
<1>4. Len(t) = Len(s)
  BY <1>1, <1>2, <1>3
<1> QED
  BY <1>3, <1>4

-----------------------------------------------------------------------------
(* How an execution moves.                                                 *)

Same(r) == \A s \in Runs \ {r} : ex'[s] = ex[s]
Keeps(r) == /\ ex'[r].tok = ex[r].tok /\ ex'[r].old = ex[r].old
            /\ ex'[r].mine = ex[r].mine
ExTyped == ex \in [Runs -> Executions]

\* Writing one execution leaves the others alone.
LEMMA ExWritten ==
    ASSUME Typed, NEW r \in Runs, NEW new \in Executions, ex' = [ex EXCEPT ![r] = new]
    PROVE  ExTyped' /\ Same(r) /\ ex'[r] = new
BY DEF Typed, ExTyped, Same

\* Go changes the step of one execution alone.
LEMMA GoMoves ==
    ASSUME Typed, NEW r \in Runs, NEW step \in Steps, Go(r, step)
    PROVE  /\ ExTyped' /\ Same(r) /\ Keeps(r) /\ ex'[r].pc = step
           /\ ex'[r].hand = ex[r].hand /\ ex'[r].eval = ex[r].eval
           /\ ex'[r].left = ex[r].left
<1> DEFINE new == [ex[r] EXCEPT !.pc = step]
<1>1. ex[r] \in Executions
  BY ExFields
<1>2. /\ new \in Executions /\ new.pc = step /\ new.tok = ex[r].tok /\ new.old = ex[r].old
      /\ new.mine = ex[r].mine /\ new.hand = ex[r].hand /\ new.eval = ex[r].eval
      /\ new.left = ex[r].left
  BY <1>1 DEF Executions
<1>3. ex' = [ex EXCEPT ![r] = new]
  BY Zenon DEF Go
<1> HIDE DEF new
<1> QED
  BY <1>2, <1>3, ExWritten DEF Keeps

\* GoWith changes its step and what it has in hand.
LEMMA GoWithMoves ==
    ASSUME Typed, NEW r \in Runs, NEW step \in Steps, NEW n \in Nat, GoWith(r, n, step)
    PROVE  /\ ExTyped' /\ Same(r) /\ Keeps(r) /\ ex'[r].pc = step /\ ex'[r].hand = n
           /\ ex'[r].eval = ex[r].eval /\ ex'[r].left = ex[r].left
<1> DEFINE new == [ex[r] EXCEPT !.pc = step, !.hand = n]
<1>1. ex[r] \in Executions
  BY ExFields
<1>2. /\ new \in Executions /\ new.pc = step /\ new.tok = ex[r].tok /\ new.old = ex[r].old
      /\ new.mine = ex[r].mine /\ new.hand = n /\ new.eval = ex[r].eval
      /\ new.left = ex[r].left
  BY <1>1 DEF Executions
<1>3. ex' = [ex EXCEPT ![r] = new]
  BY <1>1 DEF GoWith, Typed, Executions
<1> HIDE DEF new
<1> QED
  BY <1>2, <1>3, ExWritten DEF Keeps

\* An execution is over.
Stopped(r) == /\ ex'[r].pc \in Resting /\ ex'[r].tok = 0 /\ ex'[r].old = 0
              /\ ex'[r].mine = None

\* End and Return leave nothing of the execution.
LEMMA EndMoves ==
    ASSUME Typed, NEW r \in Runs, End(r) \/ Return(r)
    PROVE  ExTyped' /\ Same(r) /\ Stopped(r)
<1> DEFINE rested == [Idle EXCEPT !.pc = "done"]
<1>1. Idle \in Executions /\ rested \in Executions
  BY DEF Idle, Executions, Steps
<1>2. ex' = [ex EXCEPT ![r] = Idle] \/ ex' = [ex EXCEPT ![r] = rested]
  BY DEF End, Return
<1>3. \A e \in {Idle, rested} :
          e.pc \in Resting /\ e.tok = 0 /\ e.old = 0 /\ e.mine = None
  BY DEF Idle, Resting
<1> HIDE DEF rested
<1> QED
  BY <1>1, <1>2, <1>3, ExWritten DEF Stopped

\* An exception: the execution is over, or goes on to mark the parent run.
Disowns(r) == /\ r \notin Reviewers /\ ex[r].pc \in Inside /\ ex'[r].pc = "disown"
              /\ Keeps(r)

\* Raise ends the execution, or sends it to mark the parent run.
LEMMA RaiseMoves ==
    ASSUME Typed, NEW r \in Runs, Raise(r)
    PROVE  ExTyped' /\ Same(r) /\ (Stopped(r) \/ Disowns(r))
BY EndMoves, GoMoves DEF Raise, Disowns, Steps

\* Where an execution can be.
LEMMA StepsAre ==
    /\ Inside \subseteq Steps /\ Resting \subseteq Steps
    /\ "claim" \notin Inside /\ Inside \cap Resting = {}
BY DEF Inside, Steps, Resting

\* The first of the candidates that are left.
LEMMA CandidateLeft ==
    ASSUME NEW r \in Runs, ex[r].left # {}
    PROVE  Candidate(r) \in ex[r].left
BY DEF Candidate

\* NextCandidate takes one candidate off those that are left.
LEMMA NextCandidateMoves ==
    ASSUME Typed, NEW r \in Runs, NextCandidate(r), ex[r].left # {}
    PROVE  /\ ExTyped' /\ Same(r) /\ Keeps(r)
           /\ ex'[r].left = ex[r].left \ {Candidate(r)}
           /\ ex'[r].pc = IF ex'[r].left # {} THEN "receipt"
                          ELSE IF Stage(r) = PARENT_READY THEN "candidates"
                          ELSE "recommend"
<1> DEFINE rest == ex[r].left \ {Candidate(r)}
           step == IF rest # {} THEN "receipt"
                   ELSE IF Stage(r) = PARENT_READY THEN "candidates" ELSE "recommend"
           new == [ex[r] EXCEPT !.pc = step, !.left = rest, !.hand = 0, !.eval = None]
<1>1. ex[r] \in Executions /\ step \in Steps /\ rest \in SUBSET Candidates
  BY ExFields DEF Steps, Inside
<1>2. ex' = [ex EXCEPT ![r] = new]
  <2>1. ex' = [ex EXCEPT ![r].pc = step, ![r].left = rest, ![r].hand = 0, ![r].eval = None]
    BY DEF NextCandidate
  <2> HIDE DEF rest, step
  <2> QED
    BY <1>1, <2>1 DEF Typed, Executions
<1>3. /\ new \in Executions /\ new.pc = step /\ new.left = rest
      /\ new.tok = ex[r].tok /\ new.old = ex[r].old /\ new.mine = ex[r].mine
  <2> HIDE DEF rest, step
  <2> QED
    BY <1>1 DEF Executions
<1> HIDE DEF new
<1>4. ExTyped' /\ Same(r) /\ ex'[r] = new
  BY <1>2, <1>3, ExWritten
<1> QED
  BY <1>3, <1>4 DEF Keeps

\* An advance, or a claim, hands over the row.
LEMMA HandedMoves ==
    ASSUME Typed, NEW r \in Runs, NEW step \in Steps, NEW row \in Rows,
           ex' = [ex EXCEPT ![r].pc = step, ![r].mine = row]
    PROVE  /\ ExTyped' /\ Same(r) /\ ex'[r].pc = step /\ ex'[r].mine = row
           /\ ex'[r].tok = ex[r].tok /\ ex'[r].old = ex[r].old
           /\ ex'[r].hand = ex[r].hand /\ ex'[r].left = ex[r].left
           /\ ex'[r].eval = ex[r].eval
<1> DEFINE new == [ex[r] EXCEPT !.pc = step, !.mine = row]
<1>1. ex[r] \in Executions
  BY ExFields
<1>2. /\ new \in Executions /\ new.pc = step /\ new.tok = ex[r].tok /\ new.old = ex[r].old
      /\ new.mine = row /\ new.hand = ex[r].hand /\ new.left = ex[r].left
      /\ new.eval = ex[r].eval
  BY <1>1 DEF Executions
<1>3. ex' = [ex EXCEPT ![r] = new]
  BY <1>1 DEF Typed, Executions
<1> HIDE DEF new
<1> QED
  BY <1>2, <1>3, ExWritten

-----------------------------------------------------------------------------
(* How the stores and the claim move.                                      *)

\* What is stored stays.
Grows ==
    /\ input' = input
    /\ \A a \in Tokens, c \in Candidates :
          /\ lake.receipts[a][c] # None => lake'.receipts[a][c] = lake.receipts[a][c]
          /\ lake.models[a][c] # 0 => lake'.models[a][c] # 0
    /\ \A a \in Tokens : lake.builds[a] # None => lake'.builds[a] = lake.builds[a]
    /\ lake.decisions \subseteq lake'.decisions

\* The claim goes on, unless the attempt has failed.
Forward ==
    \A a \in Tokens : entry # None /\ entry.attempt = a =>
        /\ entry' # None
        /\ \/ Doomed(a)
           \/ /\ entry'.attempt = a
              /\ entry.checkpoint <= entry'.checkpoint
              /\ \A n \in RefNames : entry.refs[n] # None => entry'.refs[n] = entry.refs[n]

\* The claim is written by the one whose token it carries.
Written(r) ==
    entry' = entry \/ (ex[r].tok # 0 /\ entry' # None /\ entry'.token = ex[r].tok)

\* A step that does not touch the claim or the stores of the attempts.
Quiet == /\ entry' = entry /\ input' = input /\ exposed' = exposed
         /\ lake' = lake /\ mlflow'.versions = mlflow.versions

\* Receipts do not change, so neither does what a full attempt recommends.
LEMMA Stable ==
    ASSUME Grows, NEW a \in Tokens
    PROVE  /\ Full(a) => /\ Full(a)' /\ ReadyOnes(a)' = ReadyOnes(a)
                         /\ Recommended(a)' = Recommended(a)
           /\ Doomed(a) => Doomed(a)'
           /\ Firm(a) => Firm(a)'
           /\ \A c : c \in Decided(a) => c \in Decided(a)'
           /\ a \in Selectable => a \in Selectable'
<1>1. ASSUME Full(a) PROVE Full(a)' /\ ReadyOnes(a)' = ReadyOnes(a)
  <2>1. \A c \in Candidates : lake'.receipts[a][c] = lake.receipts[a][c]
    BY <1>1 DEF Full, Grows
  <2> QED
    BY <1>1, <2>1 DEF Full, ReadyOnes
<1>2. ASSUME Full(a) PROVE Recommended(a)' = Recommended(a)
  BY <1>1, <1>2, Zenon DEF Recommended
<1>3. ASSUME Full(a) PROVE Fails(a)' <=> Fails(a)
  BY <1>1, <1>3, Zenon DEF Fails
<1>4. \A c : c \in Decided(a) => c \in Decided(a)'
  BY DEF Grows, Decided
<1>5. a \in Selectable => a \in Selectable'
  BY DEF Grows, Selectable
<1> QED
  BY <1>1, <1>2, <1>3, <1>4, <1>5 DEF Doomed, Firm

\* The candidate an execution is to select depends on its attempt alone.
LEMMA PickIs ==
    \A r \in Runs, a \in Tokens :
        Attempt(r) = a => Pick(r) = IF r \in Reviewers THEN input.choice[r] ELSE Recommended(a)
BY Zenon DEF Pick

\* The same after a step.
LEMMA PickWillBe ==
    (\A r \in Runs, a \in Tokens :
        Attempt(r) = a => Pick(r) = IF r \in Reviewers THEN input.choice[r]
                                    ELSE Recommended(a))'
BY PickIs, PTL

\* Its choice stays, once every candidate of the attempt has a receipt.
LEMMA PickStays ==
    ASSUME Grows, NEW r \in Runs, NEW a \in Tokens, Full(a),
           Attempt(r) = a, ex'[r].mine.attempt = a
    PROVE  Pick(r)' = Pick(r)
<1>1. Recommended(a)' = Recommended(a) /\ input' = input
  BY Stable DEF Grows
<1>2. Attempt(r)' = a
  BY DEF Attempt
<1>3. Pick(r) = IF r \in Reviewers THEN input.choice[r] ELSE Recommended(a)
  BY PickIs
<1>4. Pick(r)' = IF r \in Reviewers THEN input'.choice[r] ELSE Recommended(a)'
  BY <1>2, PickWillBe
<1> QED
  BY <1>1, <1>3, <1>4

\* An attempt that does not fail has a READY candidate to recommend.
LEMMA FirmPick ==
    ASSUME Typed, NEW r \in Runs, NEW a \in Tokens, Firm(a), Attempt(r) = a
    PROVE  /\ Pick(r) \in Candidates
           /\ r \notin Reviewers => Pick(r) \in ReadyOnes(a)
<1>1. ReadyOnes(a) # {}
  <2>1. Cardinality(ReadyOnes(a)) >= MinReady \/ ~(Cardinality(ReadyOnes(a)) \in Nat)
    BY RunAssumption DEF Firm, Fails
  <2> QED
    BY <2>1, FS_EmptySet, RunAssumption DEF Firm, Fails
<1>2. Recommended(a) \in ReadyOnes(a) /\ ReadyOnes(a) \subseteq Candidates
  BY <1>1 DEF Recommended, ReadyOnes
<1>3. r \in Reviewers => input.choice[r] \in Candidates
  BY DEF Typed, Inputs
<1> QED
  BY <1>2, <1>3, PickIs

-----------------------------------------------------------------------------
(* The others, while one moves.                                            *)

\* An execution that keeps its row still follows the claim after a step.
LEMMA FollowsStays ==
    ASSUME IInv, NEW s \in Runs, ex'[s].mine = ex[s].mine, Grows, Forward, Typed'
    PROVE  Follows(s)'
<1>1. Follows(s) /\ Typed
  BY DEF IInv, RunOK
<1> SUFFICES ASSUME NEW a \in Tokens, ex[s].mine # None, ex[s].mine.attempt = a
             PROVE  /\ entry' # None
                    /\ ex[s].mine.checkpoint # FAILED
                    /\ \/ Doomed(a)'
                       \/ /\ entry'.attempt = a
                          /\ ex[s].mine.checkpoint <= entry'.checkpoint
                          /\ \A n \in RefNames :
                                ex[s].mine.refs[n] # None =>
                                    entry'.refs[n] = ex[s].mine.refs[n]
  BY DEF Follows
<1>2. /\ entry # None /\ ex[s].mine.checkpoint # FAILED
      /\ \/ Doomed(a)
         \/ /\ entry.attempt = a
            /\ ex[s].mine.checkpoint <= entry.checkpoint
            /\ \A n \in RefNames :
                  ex[s].mine.refs[n] # None => entry.refs[n] = ex[s].mine.refs[n]
  BY <1>1 DEF Follows
<1>3. entry \in Rows
  BY <1>1, <1>2 DEF Typed
<1>4. entry' # None
  BY <1>2, <1>3, RowFields DEF Forward
<1>5. entry' \in Rows /\ ex[s].mine \in Rows
  BY <1>1, <1>4, ExFields DEF Typed
<1>6. /\ ex[s].mine.checkpoint \in 0 .. 7 /\ entry.checkpoint \in 0 .. 7
      /\ entry'.checkpoint \in 0 .. 7
  BY <1>3, <1>5, RowFields
<1>7. Doomed(a) => Doomed(a)'
  BY Stable
<1>8. CASE ~Doomed(a)
  <2>1. /\ entry'.attempt = a /\ entry.checkpoint <= entry'.checkpoint
        /\ \A n \in RefNames : entry.refs[n] # None => entry'.refs[n] = entry.refs[n]
    BY <1>2, <1>8 DEF Forward
  <2>2. ex[s].mine.checkpoint <= entry'.checkpoint
    BY <1>2, <1>6, <1>8, <2>1
  <2> QED
    BY <1>2, <1>4, <1>8, <2>1, <2>2
<1> QED
  BY <1>2, <1>4, <1>7, <1>8

\* An execution that does not move keeps what it has reached.
LEMMA ReachedStays ==
    ASSUME IInv, NEW s \in Runs, ex'[s] = ex[s], Grows
    PROVE  Reached(s)'
<1>1. Reached(s) /\ Typed
  BY DEF IInv, RunOK
<1> SUFFICES ASSUME NEW a \in Tokens, ex[s].mine # None, ex[s].mine.attempt = a
             PROVE  Prepared(s, a)' /\ Selecting(s, a)'
  BY DEF Reached
<1>0. Prepared(s, a) /\ Selecting(s, a)
  BY <1>1 DEF Reached
<1>2. /\ Full(a) => Full(a)' /\ Pick(s)' = Pick(s)
      /\ Doomed(a) => Doomed(a)'
      /\ Firm(a) => Firm(a)' /\ Full(a)
      /\ \A c : c \in Decided(a) => c \in Decided(a)'
      /\ a \in Selectable => a \in Selectable'
  BY Stable, PickStays DEF Attempt, Firm
<1>3. Stage(s)' = Stage(s)
  BY DEF Stage
<1>4. Firm(a) => Pick(s) \in Candidates
  BY <1>1, FirmPick DEF Attempt
<1>5. \A c \in Candidates : /\ lake.receipts[a][c] # None => lake'.receipts[a][c] # None
                            /\ lake.models[a][c] # 0 => lake'.models[a][c] # 0
  BY DEF Grows
<1>6. Prepared(s, a)'
  BY <1>0, <1>2, <1>3, <1>5 DEF Prepared
<1>7. Selecting(s, a)'
  <2> USE <1>0 DEF Selecting
  <2>1. CASE ~Firm(a)
    <3>1. /\ ex[s].pc \notin Storing \cup Choosing
          /\ ex[s].pc \notin Registering \cup Closing \cup {"registered"}
          /\ ex[s].pc \notin {"newdecision", "lock", "complete"}
      BY <2>1 DEF Choosing, Closing
    <3> QED
      BY <1>1, <3>1
  <2>2. CASE Firm(a)
    <3>1. Pick(s)' = Pick(s) /\ Pick(s) \in Candidates
      BY <1>2, <1>4, <2>2
    <3>2. lake.models[a][Pick(s)] # 0 => lake'.models[a][Pick(s)] # 0
      BY <1>5, <3>1
    <3> QED
      BY <1>1, <1>2, <1>3, <2>2, <3>1, <3>2
  <2> QED
    BY <2>1, <2>2
<1> QED
  BY <1>6, <1>7

\* The step of one execution leaves the invariant of the others as it was.
LEMMA OthersStay ==
    ASSUME IInv, NEW r \in Runs, Grows, Forward, Written(r), Same(r), Typed',
           minted' \in {minted, minted + 1}, ex'[r].tok \in {0, ex[r].tok, minted + 1}
    PROVE  \A s \in Runs \ {r} : RunOK(s)'
<1> SUFFICES ASSUME NEW s \in Runs \ {r} PROVE RunOK(s)'
  OBVIOUS
<1>1. ex'[s] = ex[s] /\ RunOK(s) /\ Typed
  BY DEF IInv, Same
<1>2. Follows(s)' /\ Reached(s)'
  BY <1>1, FollowsStays, ReachedStays
<1>3. Casting(s)'
  <2>1. ex[s].old # 0 => ex[s].old \in Selectable'
    BY <1>1, Stable DEF RunOK, Casting, Selectable
  <2> QED
    BY <1>1, <2>1 DEF RunOK, Casting
<1>4. Holds(s)'
  <2>1. /\ ex[s].tok <= minted /\ (ex[s].tok = 0 <=> ex[s].pc \in Resting)
        /\ \A q \in Runs : ex[q].tok = ex[s].tok /\ ex[s].tok # 0 => q = s
        /\ (ex[s].mine = None <=> ex[s].pc \in Resting \cup {"claim"})
        /\ entry # None /\ entry.token = ex[s].tok
              /\ ex[s].pc \notin Resting \cup {"claim", "disown"} => ex[s].mine = entry
    BY <1>1 DEF RunOK, Holds
  <2>2. ex[s].tok \in Nat /\ minted \in Nat
    BY <1>1, TokenFields
  <2>3. ex'[s].tok <= minted'
    BY <1>1, <2>1, <2>2
  <2>4. ex'[r].tok = ex[s].tok => ex[s].tok = 0
    <3>1. ex[s].tok # minted + 1
      BY <2>1, <2>2
    <3> QED
      BY <2>1, <3>1
  <2>5. \A q \in Runs : ex'[q].tok = ex'[s].tok /\ ex'[s].tok # 0 => q = s
    BY <1>1, <2>1, <2>4 DEF Same
  <2>6. entry' # None /\ entry'.token = ex[s].tok
              /\ ex[s].pc \notin Resting \cup {"claim", "disown"} => ex[s].mine = entry'
    <3>1. CASE entry' = entry
      BY <2>1, <3>1
    <3>2. CASE ex[r].tok # 0 /\ entry'.token = ex[r].tok
      BY <2>1, <3>2
    <3> QED
      BY <3>1, <3>2 DEF Written
  <2> QED
    BY <1>1, <2>1, <2>3, <2>5, <2>6 DEF Holds
<1> QED
  BY <1>2, <1>3, <1>4 DEF RunOK

-----------------------------------------------------------------------------
(* One step, put together.                                                 *)

\* A run that has stopped has nothing to keep.
LEMMA StopOK ==
    ASSUME NEW r \in Runs, Stopped(r), Typed'
    PROVE  RunOK(r)'
<1>1. 0 <= minted'
  BY DEF Typed
<1>2. Holds(r)'
  BY <1>1 DEF Stopped, Holds, Resting
<1>3. Follows(r)' /\ Reached(r)'
  BY DEF Stopped, Follows, Reached
<1>4. Casting(r)'
  BY DEF Stopped, Casting, Resting, Reviewing, Evaluating
<1> QED
  BY <1>2, <1>3, <1>4 DEF RunOK

\* The handler that marks the parent run asks for nothing more.
LEMMA DisownOK ==
    ASSUME IInv, NEW r \in Runs, Disowns(r), Grows, Forward, minted' = minted, Same(r), Typed'
    PROVE  RunOK(r)'
<1>1. Holds(r) /\ Casting(r)
  BY DEF IInv, RunOK
<1>2. Follows(r)'
  BY FollowsStays DEF Disowns, Keeps
<1>3. Reached(r)'
  BY DEF Disowns, Reached, Prepared, Selecting, Framing, Parenting, Evaluating, Storing,
     Choosing, Registering, Closing
<1>4. Casting(r)'
  <2>1. ex[r].old # 0 => ex[r].old \in Selectable'
    BY <1>1, Stable DEF Casting, Selectable
  <2> QED
    BY <1>1, <2>1 DEF Disowns, Keeps, Casting, Evaluating
<1>5. Holds(r)'
  BY <1>1 DEF Holds, Disowns, Keeps, Inside, Resting, Same
<1> QED
  BY <1>2, <1>3, <1>4, <1>5 DEF RunOK

\* Either way an exception keeps the invariant of the execution.
LEMMA RaiseOK ==
    ASSUME IInv, NEW r \in Runs, Raise(r), Grows, Forward, minted' = minted, Typed'
    PROVE  RunOK(r)'
BY RaiseMoves, StopOK, DisownOK DEF IInv

\* What a step that creates no frame and no parent run has to respect.
Counting(r) ==
    /\ minted' = minted /\ lake'.frames = lake.frames
    /\ \A a \in Tokens : Len(mlflow'.parents[a]) = Len(mlflow.parents[a])
    /\ \/ ex'[r].tok = 0
       \/ /\ ex'[r].tok = ex[r].tok
          /\ ex'[r].pc \in BeforeFrame => ex[r].pc \in BeforeFrame
          /\ ex'[r].pc \in BeforeParent => ex[r].pc \in BeforeParent

\* Such a step leaves the counts as they were.
LEMMA CountedStays ==
    ASSUME IInv, NEW r \in Runs, Counting(r), Same(r)
    PROVE  Counted'
<1> SUFFICES ASSUME NEW a \in Tokens
             PROVE  /\ \E made \in SUBSET (1 .. minted') :
                          /\ Cardinality(made) = lake'.frames[a]
                          /\ \A s \in Runs : ex'[s].tok \in made => ex'[s].pc \notin BeforeFrame
                    /\ \E made \in SUBSET (1 .. minted') :
                          /\ Cardinality(made) = Len(mlflow'.parents[a])
                          /\ \A s \in Runs : ex'[s].tok \in made => ex'[s].pc \notin BeforeParent
  BY DEF Counted, Numbered
<1>1. PICK framed \in SUBSET (1 .. minted) :
          /\ Cardinality(framed) = lake.frames[a]
          /\ \A s \in Runs : ex[s].tok \in framed => ex[s].pc \notin BeforeFrame
  BY DEF IInv, Counted, Numbered
<1>2. PICK born \in SUBSET (1 .. minted) :
          /\ Cardinality(born) = Len(mlflow.parents[a])
          /\ \A s \in Runs : ex[s].tok \in born => ex[s].pc \notin BeforeParent
  BY DEF IInv, Counted, Numbered
<1>3. 0 \notin framed /\ 0 \notin born
  OBVIOUS
<1>4. /\ \A s \in Runs : ex'[s].tok \in framed => ex'[s].pc \notin BeforeFrame
      /\ \A s \in Runs : ex'[s].tok \in born => ex'[s].pc \notin BeforeParent
  BY <1>1, <1>2, <1>3 DEF Counting, Same
<1> QED
  BY <1>1, <1>2, <1>4 DEF Counting

\* The parts of the invariant, after the step of one execution.
LEMMA StepOK ==
    ASSUME IInv, NEW r \in Runs, Typed', Counted', Grows, Forward, Written(r), Same(r),
           minted' = minted, ex'[r].tok \in {0, ex[r].tok},
           EntryOK', BuildsOK', OneCandidateSelected', RunOK(r)'
    PROVE  IInv'
<1>1. \A s \in Runs \ {r} : RunOK(s)'
  BY OthersStay
<1> QED
  BY <1>1 DEF IInv

\* Neither the stores of the lake nor the claim change.
LEMMA RestMoves ==
    ASSUME IInv, lake' = lake, entry' = entry, input' = input
    PROVE  Grows /\ Forward /\ EntryOK' /\ BuildsOK'
<1>1. Grows
  BY DEF Grows
<1>2. \A b \in Tokens : entry # None /\ entry.attempt = b => entry.checkpoint \in 0 .. 7
  BY RowFields DEF IInv, Typed
<1>3. Forward
  BY <1>2 DEF Forward
<1>4. \A b \in Tokens : Selectable' = Selectable /\ Decided(b)' = Decided(b)
  BY DEF Selectable, Decided
<1>5. \A b \in Tokens : /\ Full(b) => Full(b)'
                        /\ Doomed(b) => Doomed(b)'
                        /\ Firm(b) => Firm(b)'
  BY <1>1, Stable
<1>6. EntryOK /\ BuildsOK
  BY DEF IInv
<1>7. EntryOK'
  BY <1>4, <1>5, <1>6 DEF EntryOK
<1>8. BuildsOK'
  BY <1>4, <1>5, <1>6 DEF BuildsOK
<1> QED
  BY <1>1, <1>3, <1>7, <1>8

\* A quiet step keeps all that is said of the stores and the claim.
LEMMA QuietMoves ==
    ASSUME IInv, Quiet
    PROVE  /\ Grows /\ Forward /\ EntryOK' /\ BuildsOK' /\ OneCandidateSelected'
<1>1. OneCandidateSelected'
  BY DEF IInv, OneCandidateSelected, Quiet
<1> QED
  BY <1>1, RestMoves DEF Quiet

\* The step of a run that changes at most the status of MLflow runs.
LEMMA QuietStep ==
    ASSUME IInv, NEW r \in Runs, Quiet, lapsed' \in BOOLEAN, faults' \in 0 .. MaxFaults,
           mlflow' \in Trackers, ExTyped', Same(r), Counting(r),
           Typed' => RunOK(r)'
    PROVE  IInv'
<1>1. Typed'
  BY DEF IInv, Typed, Quiet, ExTyped, Counting
<1>2. Counted'
  BY CountedStays
<1> QED
  BY <1>1, <1>2, QuietMoves, StepOK DEF Quiet, Counting, Written

-----------------------------------------------------------------------------
(* Steps that read, and write at most the status of an MLflow run.         *)

Awake(r) == ex[r].pc \notin Resting \cup {"claim"}

\* What an execution at work can rely on.
LEMMA AtWork ==
    ASSUME IInv, NEW r \in Runs, Awake(r)
    PROVE  /\ Typed /\ ex[r].mine \in Rows /\ ex[r].mine # None /\ Attempt(r) \in Tokens
           /\ Stage(r) \in 0 .. 6 /\ ex[r].tok \in Tokens /\ ex[r].tok # 0
           /\ entry \in Rows /\ entry # None
           /\ Holds(r) /\ Follows(r) /\ Casting(r)
           /\ Prepared(r, Attempt(r)) /\ Selecting(r, Attempt(r))
<1>1. Typed /\ Holds(r) /\ Follows(r) /\ Casting(r) /\ Reached(r)
  BY DEF IInv, RunOK
<1>2. ex[r].mine # None /\ ex[r].tok # 0
  BY <1>1 DEF Holds, Awake
<1>3. ex[r].mine \in Rows /\ ex[r].tok \in Tokens
  BY <1>1, <1>2, ExFields
<1>4. Attempt(r) \in Tokens /\ Stage(r) \in 0 .. 7
  BY <1>3, RowFields DEF Attempt, Stage
<1>5. entry # None /\ Stage(r) # FAILED
  BY <1>1, <1>2, <1>4 DEF Follows, Attempt, Stage
<1>6. entry \in Rows
  BY <1>1, <1>5 DEF Typed
<1>7. Prepared(r, Attempt(r)) /\ Selecting(r, Attempt(r))
  BY <1>1, <1>2, <1>4 DEF Reached, Attempt
<1>8. Stage(r) \in 0 .. 6
  BY <1>4, <1>5, Numbers
<1> QED
  BY <1>1, <1>2, <1>3, <1>4, <1>5, <1>6, <1>7, <1>8

\* What it can still rely on after a quiet step.
LEMMA QuietKeeps ==
    ASSUME IInv, NEW r \in Runs, Awake(r), Quiet, Keeps(r), NEW a \in Tokens, Attempt(r) = a
    PROVE  /\ Prepared(r, a) /\ Selecting(r, a) /\ Stage(r)' = Stage(r)
           /\ Full(a) => Full(a)' /\ Pick(r)' = Pick(r)
           /\ Doomed(a) => Doomed(a)'
           /\ Firm(a) => Firm(a)' /\ Full(a)
           /\ Decided(a)' = Decided(a)
           /\ ReadyOnes(a)' = ReadyOnes(a)
           /\ a \in Selectable => a \in Selectable'
           /\ lake' = lake /\ ex'[r].mine = ex[r].mine /\ ex'[r].old = ex[r].old
<1>1. Prepared(r, a) /\ Selecting(r, a) /\ Grows
  BY AtWork, QuietMoves
<1>2. Stage(r)' = Stage(r) /\ ex'[r].mine.attempt = a
  BY DEF Keeps, Stage, Attempt
<1>3. Full(a) => Pick(r)' = Pick(r)
  BY <1>1, <1>2, PickStays
<1>4. Decided(a)' = Decided(a) /\ ReadyOnes(a)' = ReadyOnes(a)
  BY DEF Quiet, Decided, ReadyOnes
<1> QED
  BY <1>1, <1>2, <1>3, <1>4, Stable DEF Quiet, Keeps, Firm

\* It goes on.
LEMMA QuietGo ==
    ASSUME IInv, NEW r \in Runs, Awake(r), ex[r].pc # "disown", Quiet, Keeps(r), Same(r),
           ex'[r].pc \notin Resting \cup {"claim"}, minted' = minted, Typed',
           Casting(r)',
           \A a \in Tokens : Attempt(r) = a => Prepared(r, a)' /\ Selecting(r, a)'
    PROVE  RunOK(r)'
<1>1. Holds(r)
  BY AtWork
<1>2. Holds(r)'
  BY <1>1 DEF Holds, Keeps, Same, Quiet, Awake
<1>3. Follows(r)'
  BY QuietMoves, FollowsStays DEF Keeps
<1>4. Reached(r)'
  BY DEF Reached, Keeps, Attempt
<1> QED
  BY <1>2, <1>3, <1>4 DEF RunOK

\* It is over.
LEMMA QuietStop ==
    ASSUME IInv, NEW r \in Runs, Quiet, End(r) \/ Return(r) \/ Raise(r), minted' = minted,
           lapsed' \in BOOLEAN, faults' \in 0 .. MaxFaults, mlflow' \in Trackers,
           \A a \in Tokens : Len(mlflow'.parents[a]) = Len(mlflow.parents[a])
    PROVE  IInv'
<1>1. Typed
  BY DEF IInv
<1>2. ExTyped' /\ Same(r)
  BY <1>1, EndMoves, RaiseMoves
<1>3. Counting(r)
  <2>1. Stopped(r) \/ Disowns(r)
    BY <1>1, EndMoves, RaiseMoves
  <2> QED
    BY <2>1 DEF Counting, Quiet, Stopped, Disowns, Keeps, BeforeFrame, BeforeParent
<1>4. Typed' => RunOK(r)'
  BY <1>1, EndMoves, StopOK, RaiseOK, QuietMoves
<1> QED
  BY <1>2, <1>3, <1>4, QuietStep

\* What the MLflow runs may become.
LEMMA Marked ==
    ASSUME Typed, NEW a \in Tokens, NEW n, NEW status \in Statuses,
           mlflow' = [mlflow EXCEPT !.parents[a][n] = status]
    PROVE  /\ mlflow' \in Trackers /\ mlflow'.versions = mlflow.versions
           /\ \A b \in Tokens : Len(mlflow'.parents[b]) = Len(mlflow.parents[b])
<1> DEFINE s == mlflow.parents[a]
           t == [s EXCEPT ![n] = status]
<1>1. mlflow \in Trackers /\ s \in Seq(Statuses)
  BY DEF Typed, Trackers
<1>2. t \in Seq(Statuses) /\ Len(t) = Len(s)
  BY <1>1, ReplaceInSeq
<1>3. mlflow' = [mlflow EXCEPT !.parents[a] = t]
  BY Zenon
<1> HIDE DEF t
<1>4. mlflow.parents \in [Tokens -> Seq(Statuses)]
  BY <1>1 DEF Trackers
<1> DEFINE now == [mlflow.parents EXCEPT ![a] = t]
<1>5. now \in [Tokens -> Seq(Statuses)] /\ mlflow' = [mlflow EXCEPT !.parents = now]
  BY <1>2, <1>3, <1>4
<1>6. \A b \in Tokens : Len(now[b]) = Len(mlflow.parents[b])
  BY <1>2, <1>4
<1> HIDE DEF now
<1> QED
  BY <1>1, <1>5, <1>6 DEF Trackers

\* The child runs of a candidate are replaced.
LEMMA ChildWritten ==
    ASSUME Typed, NEW a \in Tokens, NEW c \in Candidates, NEW t \in Seq(TagSet \cup {None}),
           mlflow' = [mlflow EXCEPT !.children[a][c] = t]
    PROVE  /\ mlflow' \in Trackers /\ mlflow'.versions = mlflow.versions
           /\ mlflow'.parents = mlflow.parents
BY DEF Typed, Trackers
\* The run goes on quietly: what remains is to see to its next step.
LEMMA QuietOn ==
    ASSUME IInv, NEW r \in Runs, Awake(r), ex[r].pc # "disown", Quiet, Keeps(r), Same(r),
           ExTyped', ex'[r].pc \notin Resting \cup {"claim"}, minted' = minted,
           faults' = faults, lapsed' \in BOOLEAN, mlflow' \in Trackers,
           \A a \in Tokens : Len(mlflow'.parents[a]) = Len(mlflow.parents[a]),
           ex'[r].pc \in BeforeFrame => ex[r].pc \in BeforeFrame,
           ex'[r].pc \in BeforeParent => ex[r].pc \in BeforeParent,
           Casting(r)',
           \A a \in Tokens : Attempt(r) = a => Prepared(r, a)' /\ Selecting(r, a)'
    PROVE  IInv'
<1>1. Typed /\ faults' \in 0 .. MaxFaults
  BY DEF IInv, Typed
<1>2. Counting(r)
  BY DEF Counting, Quiet, Keeps
<1>3. Typed' => RunOK(r)'
  BY QuietGo
<1> QED
  BY <1>1, <1>2, <1>3, QuietStep

\* The build an execution found at its start can still be selected from.
LEMMA OldStays ==
    ASSUME IInv, NEW r \in Runs, Grows, ex'[r].old = ex[r].old
    PROVE  ex'[r].old # 0 => ex'[r].old \in Selectable'
<1>1. ex[r].old # 0 => ex[r].old \in Selectable /\ ex[r].old \in Tokens
  BY DEF IInv, RunOK, Casting, Selectable
<1> QED
  BY <1>1, Stable

\* An execution has drawn a token, so 1 is one.
LEMMA OneDrawn ==
    ASSUME IInv, NEW r \in Runs, ex[r].tok # 0
    PROVE  1 \in Tokens
<1>1. ex[r].tok \in Nat /\ minted \in Nat /\ ex[r].tok <= minted
  BY TokenFields DEF IInv, RunOK, Holds
<1>2. 1 \in 1 .. minted
  BY <1>1
<1> QED
  BY <1>2 DEF IInv, Typed

\* A crash, or a transient error.
LEMMA FaultOK ==
    ASSUME IInv, NEW r \in Runs, Error(r) \/ Crash(r)
    PROVE  IInv'
<1>1. /\ faults < MaxFaults /\ faults' = faults + 1 /\ (Raise(r) \/ End(r))
      /\ minted' = minted /\ lapsed' = lapsed /\ mlflow' = mlflow /\ Quiet
  BY DEF Error, Crash, Reads, Quiet
<1>2. lapsed \in BOOLEAN /\ faults \in 0 .. MaxFaults /\ mlflow \in Trackers
  BY DEF IInv, Typed
<1>3. faults' \in 0 .. MaxFaults
  <2>1. MaxFaults \in Nat
    BY RunAssumption
  <2> QED
    BY <1>1, <1>2, <2>1
<1> QED
  BY <1>1, <1>2, <1>3, QuietStop

\* The looks for the frame and for the parent run.
LEMMA FindFrameOK ==
    ASSUME IInv, NEW r \in Runs, FindFrame(r)
    PROVE  IInv'
<1>0. /\ ex[r].pc = "frame" /\ Quiet /\ minted' = minted /\ faults' = faults
      /\ lapsed' = lapsed /\ mlflow' = mlflow /\ Awake(r) /\ Typed
      /\ lapsed \in BOOLEAN /\ mlflow \in Trackers /\ faults \in 0 .. MaxFaults
  BY DEF FindFrame, At, Reads, Quiet, Awake, Resting, IInv, Typed
<1>1. CASE End(r)
  BY <1>0, <1>1, QuietStop
<1>2. CASE Go(r, "append") \/ GoWith(r, 1, "bind")
  <2>1. /\ ExTyped' /\ Same(r) /\ Keeps(r)
        /\ ex'[r].pc = "append" \/ (ex'[r].pc = "bind" /\ ex'[r].hand = 1)
    BY <1>0, <1>2, GoMoves, GoWithMoves DEF Steps
  <2>2. Casting(r) /\ Prepared(r, Attempt(r)) /\ 1 \in Tokens
    BY <1>0, AtWork, OneDrawn
  <2>3. Casting(r)'
    BY <1>0, <2>1, <2>2, OldStays, QuietMoves
       DEF Keeps, Casting, Resting, Reviewing, Choosing, Registering, Evaluating
  <2>4. \A a \in Tokens : Attempt(r) = a => Prepared(r, a)' /\ Selecting(r, a)'
    BY <1>0, <2>1, <2>2, QuietKeeps DEF Prepared, Selecting, Framing, Parenting, Evaluating,
       Storing, Choosing, Registering, Closing
  <2> QED
    BY <1>0, <2>1, <2>3, <2>4, QuietOn DEF Resting, BeforeFrame, BeforeParent
<1> QED
  BY <1>1, <1>2 DEF FindFrame

\* FindParent keeps the invariant.
LEMMA FindParentOK ==
    ASSUME IInv, NEW r \in Runs, FindParent(r)
    PROVE  IInv'
<1>0. /\ ex[r].pc = "parent" /\ Quiet /\ minted' = minted /\ faults' = faults
      /\ lapsed' = lapsed /\ mlflow' = mlflow /\ Awake(r) /\ Typed
      /\ lapsed \in BOOLEAN /\ mlflow \in Trackers /\ faults \in 0 .. MaxFaults
  BY DEF FindParent, At, Reads, Quiet, Awake, Resting, IInv, Typed
<1>1. CASE End(r)
  BY <1>0, <1>1, QuietStop
<1>2. CASE Go(r, "newparent") \/ GoWith(r, 1, "bindparent")
  <2>1. /\ ExTyped' /\ Same(r) /\ Keeps(r)
        /\ ex'[r].pc = "newparent" \/ (ex'[r].pc = "bindparent" /\ ex'[r].hand = 1)
    BY <1>0, <1>2, GoMoves, GoWithMoves DEF Steps
  <2>2. Casting(r) /\ Prepared(r, Attempt(r)) /\ 1 \in Tokens
    BY <1>0, AtWork, OneDrawn
  <2>3. Casting(r)'
    BY <1>0, <2>1, <2>2, OldStays, QuietMoves
       DEF Keeps, Casting, Resting, Reviewing, Choosing, Registering, Evaluating
  <2>4. \A a \in Tokens : Attempt(r) = a => Prepared(r, a)' /\ Selecting(r, a)'
    BY <1>0, <2>1, <2>2, QuietKeeps DEF Prepared, Selecting, Framing, Parenting, Evaluating,
       Storing, Choosing, Registering, Closing
  <2> QED
    BY <1>0, <2>1, <2>3, <2>4, QuietOn DEF Resting, BeforeFrame, BeforeParent
<1> QED
  BY <1>1, <1>2 DEF FindParent

\* ReadFrame keeps the invariant.
LEMMA ReadFrameOK ==
    ASSUME IInv, NEW r \in Runs, ReadFrame(r)
    PROVE  IInv'
<1>0. /\ ex[r].pc = "readframe" /\ Quiet /\ minted' = minted /\ faults' = faults
      /\ lapsed' = lapsed /\ mlflow' = mlflow /\ Awake(r) /\ Typed
      /\ lapsed \in BOOLEAN /\ mlflow \in Trackers /\ faults \in 0 .. MaxFaults
  BY DEF ReadFrame, At, Reads, Quiet, Awake, Resting, IInv, Typed
<1>1. CASE End(r)
  BY <1>0, <1>1, QuietStop
<1>2. CASE Go(r, IF Stage(r) = FRAME_READY THEN "parent" ELSE "enter")
  <2>1. /\ ExTyped' /\ Same(r) /\ Keeps(r)
        /\ ex'[r].pc = IF Stage(r) = FRAME_READY THEN "parent" ELSE "enter"
    BY <1>0, <1>2, GoMoves DEF Steps
  <2>2. Casting(r) /\ Prepared(r, Attempt(r)) /\ Stage(r) \in 0 .. 6
    BY <1>0, AtWork
  <2>3. Casting(r)'
    BY <1>0, <2>1, <2>2, OldStays, QuietMoves
       DEF Keeps, Casting, Resting, Reviewing, Choosing, Registering, Evaluating
  <2>4. \A a \in Tokens : Attempt(r) = a => Prepared(r, a)' /\ Selecting(r, a)'
    BY <1>0, <2>1, <2>2, QuietKeeps, Numbers DEF Prepared, Selecting, Framing, Parenting,
       Evaluating, Storing, Choosing, Registering, Closing
  <2> QED
    BY <1>0, <2>1, <2>3, <2>4, QuietOn DEF Resting, BeforeFrame, BeforeParent
<1> QED
  BY <1>1, <1>2 DEF ReadFrame

-----------------------------------------------------------------------------
(* The evaluations.                                                        *)

\* An evaluation in hand, to be stored.
LEMMA EvalMoves ==
    ASSUME Typed, NEW r \in Runs, NEW n \in Nat, NEW e \in Evaluations,
           \/ ex' = [ex EXCEPT ![r].pc = "store", ![r].hand = n, ![r].eval = e]
           \/ ex' = [ex EXCEPT ![r].pc = "store", ![r].eval = e]
    PROVE  /\ ExTyped' /\ Same(r) /\ Keeps(r) /\ ex'[r].pc = "store"
           /\ ex'[r].eval \in Evaluations /\ ex'[r].left = ex[r].left
<1>1. ex[r] \in Executions
  BY ExFields
<1>2. ASSUME NEW m \in Nat,
             ex' = [ex EXCEPT ![r] = [ex[r] EXCEPT !.pc = "store", !.hand = m, !.eval = e]]
      PROVE  /\ ExTyped' /\ Same(r) /\ Keeps(r) /\ ex'[r].pc = "store"
             /\ ex'[r].eval \in Evaluations /\ ex'[r].left = ex[r].left
  <2> DEFINE new == [ex[r] EXCEPT !.pc = "store", !.hand = m, !.eval = e]
  <2>1. /\ new \in Executions /\ new.pc = "store" /\ new.eval = e /\ new.left = ex[r].left
        /\ new.tok = ex[r].tok /\ new.old = ex[r].old /\ new.mine = ex[r].mine
    BY <1>1 DEF Executions, Steps, Inside
  <2>2. ex' = [ex EXCEPT ![r] = new]
    BY <1>2
  <2> HIDE DEF new
  <2> QED
    BY <2>1, <2>2, ExWritten DEF Keeps
<1>3. CASE ex' = [ex EXCEPT ![r].pc = "store", ![r].hand = n, ![r].eval = e]
  <2>1. ex' = [ex EXCEPT ![r] = [ex[r] EXCEPT !.pc = "store", !.hand = n, !.eval = e]]
    BY <1>1, <1>3 DEF Typed, Executions
  <2> QED
    BY <1>2, <2>1
<1>4. CASE ex' = [ex EXCEPT ![r].pc = "store", ![r].eval = e]
  <2> DEFINE h == ex[r].hand
  <2>1. h \in Nat
    BY <1>1 DEF Executions
  <2>2. [ex[r] EXCEPT !.pc = "store", !.eval = e]
            = [ex[r] EXCEPT !.pc = "store", !.hand = h, !.eval = e]
    BY <1>1 DEF Executions
  <2>3. ex' = [ex EXCEPT ![r] = [ex[r] EXCEPT !.pc = "store", !.eval = e]]
    BY <1>1, <1>4 DEF Typed, Executions
  <2> HIDE DEF h
  <2> QED
    BY <1>2, <2>1, <2>2, <2>3
<1> QED
  BY <1>3, <1>4

\* The evaluations begin, with every candidate left.
LEMMA EnterOK ==
    ASSUME IInv, NEW r \in Runs, Enter(r)
    PROVE  IInv'
<1>0. /\ ex[r].pc = "enter" /\ minted' = minted /\ faults' = faults /\ Awake(r) /\ Typed
      /\ lapsed' = lapsed /\ lapsed \in BOOLEAN
  BY DEF Enter, At, OnlyMlflow, Awake, Resting, IInv, Typed
<1>1. /\ Casting(r) /\ Prepared(r, Attempt(r)) /\ Attempt(r) \in Tokens /\ Stage(r) \in 0 .. 6
  BY <1>0, AtWork
<1>2. /\ mlflow' \in Trackers /\ Quiet
      /\ \A b \in Tokens : Len(mlflow'.parents[b]) = Len(mlflow.parents[b])
  BY <1>0, <1>1, Marked DEF Enter, At, Marks, OnlyMlflow, Quiet, Statuses
<1>3. /\ ExTyped' /\ Same(r) /\ Keeps(r) /\ ex'[r].pc = "receipt" /\ ex'[r].left = Candidates
  <2> DEFINE new == [ex[r] EXCEPT !.pc = "receipt", !.left = Candidates]
  <2>1. ex[r] \in Executions
    BY <1>0, ExFields
  <2>2. /\ new \in Executions /\ new.pc = "receipt" /\ new.left = Candidates
        /\ new.tok = ex[r].tok /\ new.old = ex[r].old /\ new.mine = ex[r].mine
    BY <2>1 DEF Executions, Steps, Inside
  <2>3. ex' = [ex EXCEPT ![r] = new]
    BY <1>0, <2>1 DEF Enter, Typed, Executions
  <2> HIDE DEF new
  <2> QED
    BY <1>0, <2>2, <2>3, ExWritten DEF Keeps
<1>4. Casting(r)'
  BY <1>0, <1>1, <1>2, <1>3, OldStays, QuietMoves, RunAssumption
     DEF Keeps, Casting, Resting, Reviewing, Choosing, Registering, Evaluating
<1>5. \A a \in Tokens : Attempt(r) = a => Prepared(r, a)' /\ Selecting(r, a)'
  BY <1>0, <1>1, <1>2, <1>3, QuietKeeps DEF Prepared, Selecting, Framing, Parenting,
     Evaluating, Storing, Choosing, Registering, Closing
<1> QED
  BY <1>0, <1>2, <1>3, <1>4, <1>5, QuietOn DEF Resting, BeforeFrame, BeforeParent

\* The next candidate: the one in hand has its receipt.
LEMMA NextOK ==
    ASSUME IInv, NEW r \in Runs, ex[r].pc \in {"receipt", "store"}, NextCandidate(r), Grows,
           lake'.receipts[Attempt(r)][Candidate(r)] # None
    PROVE  /\ ExTyped' /\ Same(r) /\ Keeps(r) /\ Casting(r)'
           /\ ex'[r].pc \in {"receipt", "candidates", "recommend"}
           /\ \A a \in Tokens : Attempt(r) = a => Prepared(r, a)' /\ Selecting(r, a)'
<1>1. /\ Awake(r) /\ Typed
  BY DEF Awake, Resting, IInv
<1>2. /\ Casting(r) /\ Prepared(r, Attempt(r)) /\ Attempt(r) \in Tokens /\ Stage(r) \in 0 .. 6
  BY <1>1, AtWork
<1>3. ex[r].left # {}
  BY <1>2 DEF Casting, Evaluating
<1>4. /\ ExTyped' /\ Same(r) /\ Keeps(r)
      /\ ex'[r].left = ex[r].left \ {Candidate(r)}
      /\ ex'[r].pc = IF ex'[r].left # {} THEN "receipt"
                     ELSE IF Stage(r) = PARENT_READY THEN "candidates" ELSE "recommend"
  BY <1>1, <1>3, NextCandidateMoves
<1>5. /\ Stage(r) \in PARENT_READY .. REGISTERED
      /\ \A c \in Candidates \ ex[r].left : lake.receipts[Attempt(r)][c] # None
  BY <1>2 DEF Prepared, Evaluating
<1>6. Stage(r)' = Stage(r)
  BY <1>4 DEF Stage, Keeps
<1>7. \A c \in Candidates \ ex'[r].left : lake'.receipts[Attempt(r)][c] # None
  BY <1>2, <1>4, <1>5 DEF Grows
<1>8. Casting(r)'
  BY <1>2, <1>4, OldStays
     DEF Keeps, Casting, Resting, Reviewing, Choosing, Registering, Evaluating
<1>9. ASSUME NEW a \in Tokens, Attempt(r) = a
      PROVE  Prepared(r, a)' /\ Selecting(r, a)'
  <2>1. ex'[r].left = {} => Full(a)'
    BY <1>7, <1>9 DEF Full
  <2>2. Stage(r) # PARENT_READY => Stage(r) \in CANDIDATES_READY .. REGISTERED
    BY <1>2, <1>5, Numbers
  <2>3. Prepared(r, a)'
    BY <1>4, <1>5, <1>6, <1>7, <1>9, <2>1, <2>2 DEF Prepared, Framing, Parenting, Evaluating
  <2>4. Selecting(r, a)'
    BY <1>4 DEF Selecting, Storing, Choosing, Registering, Closing
  <2> QED
    BY <2>3, <2>4
<1> QED
  BY <1>4, <1>8, <1>9

\* A receipt found stored counts for the candidate in hand.
LEMMA FindReceiptOK ==
    ASSUME IInv, NEW r \in Runs, FindReceipt(r)
    PROVE  IInv'
<1>0. /\ ex[r].pc = "receipt" /\ Quiet /\ minted' = minted /\ faults' = faults
      /\ lapsed' = lapsed /\ mlflow' = mlflow /\ Awake(r) /\ Typed
      /\ lapsed \in BOOLEAN /\ mlflow \in Trackers /\ faults \in 0 .. MaxFaults
  BY DEF FindReceipt, At, Reads, Quiet, Awake, Resting, IInv, Typed
<1>1. CASE Raise(r)
  BY <1>0, <1>1, QuietStop
<1>2. CASE Go(r, "child")
  <2>1. /\ ExTyped' /\ Same(r) /\ Keeps(r) /\ ex'[r].pc = "child" /\ ex'[r].left = ex[r].left
    BY <1>0, <1>2, GoMoves DEF Steps, Inside
  <2>2. Casting(r) /\ Prepared(r, Attempt(r))
    BY <1>0, AtWork
  <2>3. Casting(r)'
    BY <1>0, <2>1, <2>2, OldStays, QuietMoves
       DEF Keeps, Casting, Resting, Reviewing, Choosing, Registering, Evaluating
  <2>4. \A a \in Tokens : Attempt(r) = a => Prepared(r, a)' /\ Selecting(r, a)'
    BY <1>0, <2>1, <2>2, QuietKeeps DEF Prepared, Selecting, Framing, Parenting, Evaluating,
       Storing, Choosing, Registering, Closing
  <2> QED
    BY <1>0, <2>1, <2>3, <2>4, QuietOn DEF Resting, BeforeFrame, BeforeParent
<1>3. CASE NextCandidate(r) /\ lake.receipts[Attempt(r)][Candidate(r)] # None
  <2>1. lake'.receipts[Attempt(r)][Candidate(r)] # None /\ Grows
    BY <1>0, <1>3, QuietMoves DEF Quiet
  <2> QED
    BY <1>0, <1>3, <2>1, NextOK, QuietOn DEF Resting, BeforeFrame, BeforeParent
<1> QED
  BY <1>1, <1>2, <1>3 DEF FindReceipt

\* A child run found has its tags, or none yet.
LEMMA FindChildOK ==
    ASSUME IInv, NEW r \in Runs, FindChild(r)
    PROVE  IInv'
<1>0. /\ ex[r].pc = "child" /\ Quiet /\ minted' = minted /\ faults' = faults
      /\ lapsed' = lapsed /\ mlflow' = mlflow /\ Awake(r) /\ Typed
      /\ lapsed \in BOOLEAN /\ mlflow \in Trackers /\ faults \in 0 .. MaxFaults
  BY DEF FindChild, At, Reads, Quiet, Awake, Resting, IInv, Typed
<1>1. CASE Raise(r)
  BY <1>0, <1>1, QuietStop
<1>2. Casting(r) /\ Prepared(r, Attempt(r)) /\ Attempt(r) \in Tokens
  BY <1>0, AtWork
<1> DEFINE runs == mlflow.children[Attempt(r)][Candidate(r)]
<1>3. runs \in Seq(TagSet \cup {None})
  <2>1. Candidate(r) \in Candidates
    BY <1>0, <1>2, CandidateLeft, ExFields DEF Casting, Evaluating
  <2> QED
    BY <1>0, <1>2, <2>1 DEF Trackers
<1>4. CASE \/ Go(r, "newchild") \/ GoWith(r, 1, "train")
           \/ /\ Len(runs) = 1 /\ runs[1] # None
              /\ ex' = [ex EXCEPT ![r].pc = "store", ![r].hand = 1,
                                  ![r].eval = [tags |-> runs[1], recovered |-> TRUE]]
  <2>1. /\ ExTyped' /\ Same(r) /\ Keeps(r) /\ ex'[r].pc \in {"newchild", "train", "store"}
        /\ ex'[r].left = ex[r].left
        /\ ex'[r].pc = "store" => ex'[r].eval \in Evaluations
    <3>0. {"newchild", "train"} \subseteq Steps /\ 1 \in Nat
      BY DEF Steps, Inside
    <3>1. CASE Go(r, "newchild")
      BY <1>0, <3>0, <3>1, GoMoves
    <3>1a. CASE GoWith(r, 1, "train")
      BY <1>0, <3>0, <3>1a, GoWithMoves
    <3>2. CASE /\ Len(runs) = 1 /\ runs[1] # None
               /\ ex' = [ex EXCEPT ![r].pc = "store", ![r].hand = 1,
                                   ![r].eval = [tags |-> runs[1], recovered |-> TRUE]]
      <4> DEFINE e == [tags |-> runs[1], recovered |-> TRUE]
      <4>1. e \in Evaluations /\ 1 \in Nat
        BY <1>3, <3>2 DEF Evaluations
      <4>2. ex' = [ex EXCEPT ![r].pc = "store", ![r].hand = 1, ![r].eval = e]
        BY <3>2
      <4> HIDE DEF e
      <4> QED
        BY <1>0, <4>1, <4>2, EvalMoves
    <3> QED
      BY <1>4, <3>1, <3>1a, <3>2
  <2>3. Casting(r)'
    BY <1>0, <1>2, <2>1, OldStays, QuietMoves
       DEF Keeps, Casting, Resting, Reviewing, Choosing, Registering, Evaluating
  <2>4. \A a \in Tokens : Attempt(r) = a => Prepared(r, a)' /\ Selecting(r, a)'
    BY <1>0, <1>2, <2>1, QuietKeeps DEF Prepared, Selecting, Framing, Parenting, Evaluating,
       Storing, Choosing, Registering, Closing
  <2> QED
    BY <1>0, <2>1, <2>3, <2>4, QuietOn DEF Resting, BeforeFrame, BeforeParent
<1> QED
  BY <1>1, <1>4 DEF FindChild

\* A child run is created.
LEMMA NewChildOK ==
    ASSUME IInv, NEW r \in Runs, NewChild(r)
    PROVE  IInv'
<1>0. /\ ex[r].pc = "newchild" /\ minted' = minted /\ faults' = faults /\ Awake(r) /\ Typed
      /\ lapsed' = lapsed /\ lapsed \in BOOLEAN
  BY DEF NewChild, At, OnlyMlflow, Awake, Resting, IInv, Typed
<1>1. Casting(r) /\ Prepared(r, Attempt(r)) /\ Attempt(r) \in Tokens
  BY <1>0, AtWork
<1> DEFINE runs == mlflow.children[Attempt(r)][Candidate(r)]
<1>2. Candidate(r) \in Candidates
  BY <1>0, <1>1, CandidateLeft, ExFields DEF Casting, Evaluating
<1>3. runs \in Seq(TagSet \cup {None})
  BY <1>0, <1>1, <1>2 DEF Typed, Trackers
<1>4. Append(runs, None) \in Seq(TagSet \cup {None}) /\ Len(runs) + 1 \in Nat
  BY <1>3
<1>5. /\ mlflow' = [mlflow EXCEPT !.children[Attempt(r)][Candidate(r)] = Append(runs, None)]
      /\ GoWith(r, Len(runs) + 1, "train")
  BY DEF NewChild
<1>6. mlflow' \in Trackers /\ mlflow'.parents = mlflow.parents /\ Quiet
  BY <1>0, <1>1, <1>2, <1>4, <1>5, ChildWritten DEF NewChild, At, OnlyMlflow, Quiet
<1>7. /\ ExTyped' /\ Same(r) /\ Keeps(r) /\ ex'[r].pc = "train" /\ ex'[r].left = ex[r].left
  BY <1>0, <1>4, <1>5, GoWithMoves DEF Steps, Inside
<1>8. Casting(r)'
  BY <1>0, <1>1, <1>6, <1>7, OldStays, QuietMoves
     DEF Keeps, Casting, Resting, Reviewing, Choosing, Registering, Evaluating
<1>9. \A a \in Tokens : Attempt(r) = a => Prepared(r, a)' /\ Selecting(r, a)'
  BY <1>0, <1>1, <1>6, <1>7, QuietKeeps DEF Prepared, Selecting, Framing, Parenting,
     Evaluating, Storing, Choosing, Registering, Closing
<1> QED
  BY <1>0, <1>6, <1>7, <1>8, <1>9, QuietOn DEF Resting, BeforeFrame, BeforeParent

\* A candidate is trained, and its child run tagged.
LEMMA TrainOK ==
    ASSUME IInv, NEW r \in Runs, Train(r)
    PROVE  IInv'
<1>0. /\ ex[r].pc = "train" /\ minted' = minted /\ faults' = faults /\ Awake(r) /\ Typed
      /\ lapsed' = lapsed /\ lapsed \in BOOLEAN
  BY DEF Train, At, OnlyMlflow, Awake, Resting, IInv, Typed
<1>1. Casting(r) /\ Prepared(r, Attempt(r)) /\ Attempt(r) \in Tokens /\ ex[r].tok \in Tokens
  BY <1>0, AtWork
<1> DEFINE runs == mlflow.children[Attempt(r)][Candidate(r)]
<1>2. Candidate(r) \in Candidates
  BY <1>0, <1>1, CandidateLeft, ExFields DEF Casting, Evaluating
<1>3. runs \in Seq(TagSet \cup {None})
  BY <1>0, <1>1, <1>2 DEF Typed, Trackers
<1>4. PICK status \in {"READY", "FAILED"} :
          LET tags == [status |-> status, by |-> ex[r].tok]
          IN  /\ mlflow' = [mlflow EXCEPT
                     !.children[Attempt(r)][Candidate(r)][ex[r].hand] = tags]
              /\ ex' = [ex EXCEPT ![r].pc = "store",
                                  ![r].eval = [tags |-> tags, recovered |-> FALSE]]
  BY DEF Train
<1> DEFINE tags == [status |-> status, by |-> ex[r].tok]
           e == [tags |-> tags, recovered |-> FALSE]
           t == [runs EXCEPT ![ex[r].hand] = tags]
<1>5. tags \in TagSet /\ e \in Evaluations
  BY <1>1 DEF TagSet, Evaluations
<1>6. t \in Seq(TagSet \cup {None})
  <2> HIDE DEF runs, tags
  <2> QED
    BY <1>3, <1>5, ReplaceInSeq
<1>7. mlflow' = [mlflow EXCEPT !.children[Attempt(r)][Candidate(r)] = t]
  <2> HIDE DEF tags
  <2>1. mlflow' = [mlflow EXCEPT
                       !.children[Attempt(r)][Candidate(r)][ex[r].hand] = tags]
    BY <1>4 DEF tags
  <2> QED
    BY <2>1, Zenon
<1>8. ex' = [ex EXCEPT ![r].pc = "store", ![r].eval = e]
  BY <1>4
<1> HIDE DEF t, e, tags
<1>9. mlflow' \in Trackers /\ mlflow'.parents = mlflow.parents /\ Quiet
  BY <1>0, <1>1, <1>2, <1>6, <1>7, ChildWritten DEF Train, At, OnlyMlflow, Quiet
<1>10. /\ ExTyped' /\ Same(r) /\ Keeps(r) /\ ex'[r].pc = "store" /\ ex'[r].left = ex[r].left
       /\ ex'[r].eval \in Evaluations
  <2>1. 0 \in Nat
    OBVIOUS
  <2> QED
    BY <1>0, <1>5, <1>8, <2>1, EvalMoves
<1>11. Casting(r)'
  BY <1>0, <1>1, <1>9, <1>10, OldStays, QuietMoves
     DEF Keeps, Casting, Resting, Reviewing, Choosing, Registering, Evaluating
<1>12. \A a \in Tokens : Attempt(r) = a => Prepared(r, a)' /\ Selecting(r, a)'
  BY <1>0, <1>1, <1>9, <1>10, QuietKeeps DEF Prepared, Selecting, Framing, Parenting,
     Evaluating, Storing, Choosing, Registering, Closing
<1> QED
  BY <1>0, <1>9, <1>10, <1>11, <1>12, QuietOn DEF Resting, BeforeFrame, BeforeParent

\* The steps after which an execution is over.
LEMMA ReturnOK ==
    ASSUME IInv, NEW r \in Runs,
           Yield(r) \/ Awaiting(r) \/ Reviewed(r) \/ Finalize(r) \/ Disown(r)
    PROVE  IInv'
<1>0. /\ Awake(r) /\ Typed /\ minted' = minted /\ faults' = faults /\ lapsed \in BOOLEAN
      /\ mlflow \in Trackers /\ faults \in 0 .. MaxFaults
  BY DEF Yield, Awaiting, Reviewed, Finalize, Disown, At, Awake, Resting, IInv, Typed
<1>1. /\ End(r) \/ Return(r) \/ Raise(r)
      /\ lapsed' \in BOOLEAN
  BY <1>0 DEF Yield, Releases, Refused, ledgerVars, Awaiting, Reviewed, Finalize, Disown,
     OnlyClaim, Reads, OnlyMlflow
<1>2. /\ mlflow' \in Trackers /\ mlflow'.versions = mlflow.versions
      /\ \A a \in Tokens : Len(mlflow'.parents[a]) = Len(mlflow.parents[a])
  <2>1. CASE Finalize(r) \/ Disown(r)
    BY <1>0, <2>1, AtWork, Marked DEF Finalize, Disown, Marks, Statuses
  <2>2. CASE mlflow' = mlflow
    BY <1>0, <2>2
  <2> QED
    BY <2>1, <2>2 DEF Yield, Awaiting, Reviewed, OnlyClaim, Reads
<1>3. Quiet
  BY <1>2 DEF Quiet, Yield, Releases, Refused, ledgerVars, Awaiting, Reviewed, Finalize,
     Disown, At, OnlyClaim, Reads, OnlyMlflow
<1> QED
  BY <1>0, <1>1, <1>2, <1>3, QuietStop

\* Reload finds the one build that can be selected from.
LEMMA ReloadOK ==
    ASSUME IInv, NEW r \in Runs, Reload(r)
    PROVE  IInv'
<1>0. /\ ex[r].pc = "reload" /\ Quiet /\ minted' = minted /\ faults' = faults
      /\ lapsed' = lapsed /\ mlflow' = mlflow /\ Awake(r) /\ Typed
      /\ lapsed \in BOOLEAN /\ mlflow \in Trackers /\ faults \in 0 .. MaxFaults
  BY DEF Reload, At, Reads, Quiet, Awake, Resting, IInv, Typed
<1>1. CASE End(r)
  BY <1>0, <1>1, QuietStop
<1>2. CASE /\ Cardinality(Selectable) = 1
           /\ ex' = [ex EXCEPT ![r].pc = "reuse", ![r].old = CHOOSE a \in Selectable : TRUE]
  <2> DEFINE b == CHOOSE a \in Selectable : TRUE
  <2>1. Selectable # {}
    BY <1>2, FS_EmptySet
  <2>2. b \in Selectable /\ b \in Tokens
    <3>1. b \in Selectable
      BY <2>1
    <3> QED
      BY <3>1 DEF Selectable
  <2>3. ex' = [ex EXCEPT ![r].pc = "reuse", ![r].old = b]
    BY <1>2
  <2> HIDE DEF b
  <2> DEFINE new == [ex[r] EXCEPT !.pc = "reuse", !.old = b]
  <2>4. ex[r] \in Executions
    BY <1>0, ExFields
  <2>5. /\ new \in Executions /\ new.pc = "reuse" /\ new.old = b /\ new.tok = ex[r].tok
        /\ new.mine = ex[r].mine
    BY <2>2, <2>4 DEF Executions, Steps
  <2>6. ex' = [ex EXCEPT ![r] = new]
    BY <1>0, <2>3, <2>4 DEF Typed, Executions
  <2> HIDE DEF new
  <2>7. /\ ExTyped' /\ Same(r) /\ ex'[r].pc = "reuse" /\ ex'[r].old = b
        /\ ex'[r].tok = ex[r].tok /\ ex'[r].mine = ex[r].mine
    BY <1>0, <2>5, <2>6, ExWritten
  <2>8. Holds(r) /\ Casting(r)
    BY <1>0, AtWork
  <2>9. Holds(r)'
    BY <1>0, <2>7, <2>8 DEF Holds, Same, Quiet, Resting
  <2>10. Casting(r)'
    <3>1. b \in Selectable'
      BY <1>0, <2>2 DEF Quiet, Selectable
    <3>2. r \notin Reviewers
      BY <1>0, <2>8 DEF Casting, Resting, Reviewing, Choosing, Registering
    <3>3. b # 0
      BY <2>2, RunAssumption
    <3> QED
      BY <1>0, <2>7, <3>1, <3>2, <3>3 DEF Casting, Resting, Evaluating
  <2>11. Reached(r)'
    BY <2>7 DEF Reached, Prepared, Selecting, Framing, Parenting, Evaluating, Storing,
       Choosing, Registering, Closing
  <2>12. Typed' => Follows(r)'
    BY <1>0, <2>7, QuietMoves, FollowsStays
  <2>13. Counting(r)
    BY <1>0, <2>7 DEF Counting, Quiet, BeforeFrame, BeforeParent
  <2> QED
    BY <1>0, <2>7, <2>9, <2>10, <2>11, <2>12, <2>13, QuietStep DEF RunOK
<1> QED
  BY <1>1, <1>2 DEF Reload

\* Reuse changes the status of the parent run alone.
LEMMA ReuseOK ==
    ASSUME IInv, NEW r \in Runs, Reuse(r)
    PROVE  IInv'
<1>0. /\ ex[r].pc = "reuse" /\ minted' = minted /\ faults' = faults /\ Awake(r) /\ Typed
      /\ lapsed' = lapsed /\ lapsed \in BOOLEAN /\ mlflow \in Trackers
      /\ faults \in 0 .. MaxFaults
  BY DEF Reuse, At, OnlyMlflow, Awake, Resting, IInv, Typed
<1>1. Casting(r) /\ Prepared(r, Attempt(r))
  BY <1>0, AtWork
<1>2. /\ mlflow' \in Trackers /\ mlflow'.versions = mlflow.versions
      /\ \A b \in Tokens : Len(mlflow'.parents[b]) = Len(mlflow.parents[b])
  <2>1. ex[r].old \in Tokens
    BY <1>0, <1>1 DEF Casting, Selectable
  <2>2. \/ mlflow' = mlflow
        \/ mlflow' = [mlflow EXCEPT
                         !.parents[ex[r].old][lake.builds[ex[r].old].parent] = "FINISHED"]
    BY DEF Reuse
  <2> QED
    BY <1>0, <2>1, <2>2, Marked DEF Statuses
<1>3. Quiet
  BY <1>2 DEF Reuse, At, OnlyMlflow, Quiet
<1>4. CASE End(r)
  BY <1>0, <1>2, <1>3, <1>4, QuietStop
<1>5. CASE Go(r, "settle")
  <2>1. /\ ExTyped' /\ Same(r) /\ Keeps(r) /\ ex'[r].pc = "settle"
    BY <1>0, <1>5, GoMoves DEF Steps
  <2>2. Casting(r)'
    BY <1>0, <1>1, <1>3, <2>1, OldStays, QuietMoves
       DEF Keeps, Casting, Resting, Reviewing, Choosing, Registering, Evaluating
  <2>3. \A a \in Tokens : Attempt(r) = a => Prepared(r, a)' /\ Selecting(r, a)'
    BY <2>1 DEF Prepared, Selecting, Framing, Parenting, Evaluating, Storing, Choosing,
       Registering, Closing
  <2> QED
    BY <1>0, <1>2, <1>3, <2>1, <2>2, <2>3, QuietOn DEF Resting, BeforeFrame, BeforeParent
<1> QED
  BY <1>4, <1>5 DEF Reuse

\* Research fails, or goes on to selection, by the receipts of the attempt.
LEMMA RecommendOK ==
    ASSUME IInv, NEW r \in Runs, Recommend(r)
    PROVE  IInv'
<1>0. /\ ex[r].pc = "recommend" /\ minted' = minted /\ faults' = faults /\ Awake(r) /\ Typed
      /\ lapsed' = lapsed /\ lapsed \in BOOLEAN
  BY DEF Recommend, At, OnlyMlflow, Awake, Resting, IInv, Typed
<1>1. /\ Casting(r) /\ Prepared(r, Attempt(r)) /\ Attempt(r) \in Tokens /\ Stage(r) \in 0 .. 6
  BY <1>0, AtWork
<1>2. /\ mlflow' \in Trackers /\ Quiet
      /\ \A b \in Tokens : Len(mlflow'.parents[b]) = Len(mlflow.parents[b])
  BY <1>0, <1>1, Marked DEF Recommend, At, Marks, OnlyMlflow, Quiet, Statuses
<1>3. /\ ExTyped' /\ Same(r) /\ Keeps(r)
      /\ ex'[r].pc = IF Fails(Attempt(r)) THEN "failbuild"
                     ELSE IF Automatic THEN "decide" ELSE "release"
  <2> DEFINE step == IF Fails(Attempt(r)) THEN "failbuild"
                     ELSE IF Automatic THEN "decide" ELSE "release"
  <2>1. step \in Steps /\ Go(r, step)
    BY DEF Recommend, Steps, Inside
  <2> HIDE DEF step
  <2>2. ExTyped' /\ Same(r) /\ Keeps(r) /\ ex'[r].pc = step
    BY <1>0, <2>1, GoMoves
  <2> QED
    BY <2>2 DEF step
<1>4. Casting(r)'
  BY <1>0, <1>1, <1>2, <1>3, OldStays, QuietMoves
     DEF Keeps, Casting, Resting, Reviewing, Choosing, Registering, Evaluating
<1>5. ASSUME NEW a \in Tokens, Attempt(r) = a
      PROVE  Prepared(r, a)' /\ Selecting(r, a)'
  <2>1. Full(a) /\ Stage(r) \in CANDIDATES_READY .. REGISTERED
    BY <1>0, <1>1, <1>5 DEF Prepared
  <2>2. (Fails(a) => Doomed(a)) /\ (~Fails(a) => Firm(a))
    BY <2>1 DEF Doomed, Firm
  <2>3. Stage(r) \in CANDIDATES_READY .. COMPLETE
    BY <2>1, Numbers
  <2> QED
    BY <1>0, <1>2, <1>3, <1>5, <2>1, <2>2, <2>3, QuietKeeps DEF Prepared, Selecting, Framing,
       Parenting, Evaluating, Storing, Choosing, Registering, Closing
<1> QED
  BY <1>0, <1>2, <1>3, <1>4, <1>5, QuietOn DEF Resting, BeforeFrame, BeforeParent

\* Release gives the lease back, or raises.
LEMMA ReleaseOK ==
    ASSUME IInv, NEW r \in Runs, Release(r)
    PROVE  IInv'
<1>0. /\ ex[r].pc = "release" /\ Quiet /\ minted' = minted /\ faults' = faults
      /\ lapsed' \in BOOLEAN /\ mlflow' = mlflow /\ Awake(r) /\ Typed
      /\ mlflow \in Trackers /\ faults \in 0 .. MaxFaults
  BY DEF Release, Releases, Refused, ledgerVars, At, OnlyClaim, Quiet, Awake, Resting, IInv,
     Typed
<1>1. CASE Raise(r)
  BY <1>0, <1>1, QuietStop
<1>2. CASE Go(r, "awaiting")
  <2>1. /\ ExTyped' /\ Same(r) /\ Keeps(r) /\ ex'[r].pc = "awaiting"
    BY <1>0, <1>2, GoMoves DEF Steps, Inside
  <2>2. Casting(r)
    BY <1>0, AtWork
  <2>3. Casting(r)'
    BY <1>0, <2>1, <2>2, OldStays, QuietMoves
       DEF Keeps, Casting, Resting, Reviewing, Choosing, Registering, Evaluating
  <2>4. \A a \in Tokens : Attempt(r) = a => Prepared(r, a)' /\ Selecting(r, a)'
    BY <1>0, <2>1, QuietKeeps DEF Prepared, Selecting, Framing, Parenting, Evaluating,
       Storing, Choosing, Registering, Closing
  <2> QED
    BY <1>0, <2>1, <2>3, <2>4, QuietOn DEF Resting, BeforeFrame, BeforeParent
<1> QED
  BY <1>1, <1>2 DEF Release, Refused

-----------------------------------------------------------------------------
(* The looks at the stores on the way to the model.                        *)

\* Decide goes on to the decision, the lock or the test data.
LEMMA DecideOK ==
    ASSUME IInv, NEW r \in Runs, Decide(r)
    PROVE  IInv'
<1>0. /\ ex[r].pc = "decide" /\ Quiet /\ minted' = minted /\ faults' = faults
      /\ lapsed' = lapsed /\ mlflow' = mlflow /\ Awake(r) /\ Typed
      /\ lapsed \in BOOLEAN /\ mlflow \in Trackers /\ faults \in 0 .. MaxFaults
  BY DEF Decide, At, Reads, Quiet, Awake, Resting, IInv, Typed
<1>1. CASE Raise(r)
  BY <1>0, <1>1, QuietStop
<1>2. /\ Casting(r) /\ Selecting(r, Attempt(r)) /\ Attempt(r) \in Tokens
      /\ Stage(r) \in CANDIDATES_READY .. COMPLETE
  BY <1>0, AtWork DEF Selecting, Choosing
<1>3. CASE \/ /\ Stage(r) = CANDIDATES_READY /\ Go(r, "newdecision")
           \/ /\ Stage(r) = CANDIDATES_READY /\ Pick(r) \in Decided(Attempt(r)) /\ Go(r, "lock")
           \/ /\ Stage(r) # CANDIDATES_READY /\ ex[r].mine.refs["decision"] = Pick(r)
              /\ Go(r, "test")
  <2>1. /\ ExTyped' /\ Same(r) /\ Keeps(r)
        /\ \/ ex'[r].pc = "newdecision" /\ Stage(r) = CANDIDATES_READY
           \/ /\ ex'[r].pc = "lock" /\ Stage(r) = CANDIDATES_READY
              /\ Pick(r) \in Decided(Attempt(r))
           \/ /\ ex'[r].pc = "test" /\ Stage(r) # CANDIDATES_READY
              /\ ex[r].mine.refs["decision"] = Pick(r)
    BY <1>0, <1>3, GoMoves DEF Steps, Inside
  <2>2. Casting(r)'
    BY <1>0, <1>2, <2>1, OldStays, QuietMoves
       DEF Keeps, Casting, Resting, Reviewing, Choosing, Registering, Evaluating
  <2>3. Stage(r) # CANDIDATES_READY => Stage(r) \in SELECTION_LOCKED .. COMPLETE
    BY <1>2, Numbers
  <2>4. \A a \in Tokens : Attempt(r) = a => Prepared(r, a)' /\ Selecting(r, a)'
    BY <1>0, <1>2, <2>1, <2>3, QuietKeeps DEF Prepared, Selecting, Framing, Parenting,
       Evaluating, Storing, Choosing, Registering, Closing
  <2> QED
    BY <1>0, <2>1, <2>2, <2>4, QuietOn DEF Resting, BeforeFrame, BeforeParent
<1>4. \/ Raise(r)
      \/ /\ Stage(r) = CANDIDATES_READY /\ Go(r, "newdecision")
      \/ /\ Stage(r) = CANDIDATES_READY /\ Pick(r) \in Decided(Attempt(r)) /\ Go(r, "lock")
      \/ /\ Stage(r) # CANDIDATES_READY /\ ex[r].mine.refs["decision"] = Pick(r)
         /\ Go(r, "test")
  <2> DEFINE stored == Decided(Attempt(r))
             fits == stored \subseteq {Pick(r)} /\ Pick(r) \in ReadyOnes(Attempt(r))
  <2>1. \/ ~fits /\ Raise(r)
        \/ fits /\ Stage(r) = CANDIDATES_READY
           /\ Go(r, IF stored = {} THEN "newdecision" ELSE "lock")
        \/ /\ ~(fits /\ Stage(r) = CANDIDATES_READY) /\ fits
           /\ IF ex[r].mine.refs.decision = Pick(r) /\ (Automatic => stored = {Pick(r)})
              THEN Go(r, "test") ELSE Raise(r)
    BY DEF Decide
  <2>2. fits /\ stored # {} => Pick(r) \in stored
    OBVIOUS
  <2> HIDE DEF stored
  <2> QED
    BY <2>1, <2>2 DEF stored
<1> QED
  BY <1>1, <1>3, <1>4

\* The model row, the registered version.
LEMMA FindModelOK ==
    ASSUME IInv, NEW r \in Runs, FindModel(r) \/ FindVersion(r)
    PROVE  IInv'
<1>0. /\ ex[r].pc \in {"model", "search"} /\ Quiet /\ minted' = minted /\ faults' = faults
      /\ lapsed' = lapsed /\ mlflow' = mlflow /\ Awake(r) /\ Typed
      /\ lapsed \in BOOLEAN /\ mlflow \in Trackers /\ faults \in 0 .. MaxFaults
  BY DEF FindModel, FindVersion, At, Reads, Quiet, Awake, Resting, IInv, Typed
<1>1. CASE Raise(r)
  BY <1>0, <1>1, QuietStop
<1>2. /\ Casting(r) /\ Selecting(r, Attempt(r)) /\ Attempt(r) \in Tokens
  BY <1>0, AtWork
<1> DEFINE v == lake.models[Attempt(r)][Pick(r)]
<1>3. v \in Nat
  <2>1. Firm(Attempt(r))
    BY <1>0, <1>2 DEF Selecting, Registering
  <2>2. \A a \in Tokens : Attempt(r) = a /\ Firm(a) => Pick(r) \in Candidates
    BY <1>0, FirmPick
  <2>3. Pick(r) \in Candidates
    BY <1>2, <2>1, <2>2
  <2> QED
    BY <1>0, <1>2, <2>3 DEF Typed, Lakes
<1>4. CASE \/ Go(r, "search") \/ Go(r, "register")
           \/ (v # 0 /\ GoWith(r, v, "persist")) \/ GoWith(r, 1, "persist")
  <2>1. /\ ExTyped' /\ Same(r) /\ Keeps(r) /\ ex'[r].pc \in {"search", "register", "persist"}
        /\ ex'[r].pc = "persist" => ex'[r].hand # 0
    <3> HIDE DEF v
    <3>1. {"search", "register", "persist"} \subseteq Steps /\ 1 \in Nat
      BY DEF Steps, Inside
    <3>2. CASE Go(r, "search") \/ Go(r, "register")
      BY <1>0, <3>1, <3>2, GoMoves
    <3>3. CASE v # 0 /\ GoWith(r, v, "persist")
      BY <1>0, <1>3, <3>1, <3>3, GoWithMoves
    <3>4. CASE GoWith(r, 1, "persist")
      BY <1>0, <3>1, <3>4, GoWithMoves
    <3> QED
      BY <1>4, <3>2, <3>3, <3>4
  <2>2. Casting(r)'
    BY <1>0, <1>2, <2>1, OldStays, QuietMoves
       DEF Keeps, Casting, Resting, Reviewing, Choosing, Registering, Evaluating
  <2>3. \A a \in Tokens : Attempt(r) = a => Prepared(r, a)' /\ Selecting(r, a)'
    BY <1>0, <1>2, <2>1, QuietKeeps DEF Prepared, Selecting, Framing, Parenting,
       Evaluating, Storing, Choosing, Registering, Closing
  <2> QED
    BY <1>0, <2>1, <2>2, <2>3, QuietOn DEF Resting, BeforeFrame, BeforeParent
<1> QED
  BY <1>1, <1>4 DEF FindModel, FindVersion

\* A reviewer marks the parent run.
LEMMA LogParentOK ==
    ASSUME IInv, NEW r \in Runs, LogParent(r)
    PROVE  IInv'
<1>0. /\ ex[r].pc = "logparent" /\ minted' = minted /\ faults' = faults /\ Awake(r) /\ Typed
      /\ lapsed' = lapsed /\ lapsed \in BOOLEAN
  BY DEF LogParent, At, OnlyMlflow, Awake, Resting, IInv, Typed
<1>1. /\ Casting(r) /\ Selecting(r, Attempt(r)) /\ Attempt(r) \in Tokens
  BY <1>0, AtWork
<1>2. /\ mlflow' \in Trackers /\ Quiet
      /\ \A b \in Tokens : Len(mlflow'.parents[b]) = Len(mlflow.parents[b])
  BY <1>0, <1>1, Marked DEF LogParent, At, Marks, OnlyMlflow, Quiet, Statuses
<1>3. /\ ExTyped' /\ Same(r) /\ Keeps(r) /\ ex'[r].pc \in {"reviewed", "closing"}
  BY <1>0, GoMoves DEF LogParent, Steps
<1>4. Casting(r)'
  BY <1>0, <1>1, <1>2, <1>3, OldStays, QuietMoves
     DEF Keeps, Casting, Resting, Reviewing, Choosing, Registering, Evaluating
<1>5. \A a \in Tokens : Attempt(r) = a => Prepared(r, a)' /\ Selecting(r, a)'
  BY <1>0, <1>1, <1>2, <1>3, QuietKeeps DEF Prepared, Selecting, Framing, Parenting,
     Evaluating, Storing, Choosing, Registering, Closing
<1> QED
  BY <1>0, <1>2, <1>3, <1>4, <1>5, QuietOn DEF Resting, BeforeFrame, BeforeParent

-----------------------------------------------------------------------------
(* Steps that store.                                                       *)

\* The stores grow, the claim rests.
Stores == Grows /\ entry' = entry /\ exposed' = exposed /\ mlflow'.versions = mlflow.versions

\* A step that only adds to the stores keeps what is said of the claim.
LEMMA StoresMove ==
    ASSUME IInv, Stores
    PROVE  /\ Forward /\ EntryOK' /\ OneCandidateSelected'
           /\ lake'.builds = lake.builds => BuildsOK'
<1>1. Typed /\ EntryOK /\ BuildsOK /\ OneCandidateSelected
  BY DEF IInv
<1>2. ASSUME NEW a \in Tokens, entry # None, entry.attempt = a
      PROVE  /\ entry.checkpoint \in 0 .. 7
             /\ entry.checkpoint \in 4 .. 6 => entry.refs["decision"] \in Candidates
  BY <1>1, <1>2, RowFields DEF Typed
<1>3. Forward
  BY <1>2 DEF Stores, Forward
<1>4. EntryOK'
  <2> SUFFICES ASSUME NEW a \in Tokens, entry # None, entry.attempt = a
               PROVE  /\ entry.checkpoint = FAILED => Doomed(a)'
                      /\ entry.checkpoint \in CANDIDATES_READY .. COMPLETE => Full(a)'
                      /\ entry.checkpoint \in SELECTION_LOCKED .. COMPLETE =>
                            Firm(a)' /\ entry.refs["decision"] \in Decided(a)'
                      /\ entry.checkpoint \in REGISTERED .. COMPLETE =>
                            lake'.models[a][entry.refs["decision"]] # 0
                      /\ entry.checkpoint = COMPLETE => a \in Selectable'
    BY DEF EntryOK, Stores
  <2>1. /\ entry.checkpoint = FAILED => Doomed(a)
        /\ entry.checkpoint \in CANDIDATES_READY .. COMPLETE => Full(a)
        /\ entry.checkpoint \in SELECTION_LOCKED .. COMPLETE =>
              Firm(a) /\ entry.refs["decision"] \in Decided(a)
        /\ entry.checkpoint \in REGISTERED .. COMPLETE =>
              lake.models[a][entry.refs["decision"]] # 0
        /\ entry.checkpoint = COMPLETE => a \in Selectable
    BY <1>1 DEF EntryOK
  <2>2. entry.checkpoint \in REGISTERED .. COMPLETE => entry.refs["decision"] \in Candidates
    BY <1>2, Numbers
  <2>3. /\ Full(a) => Full(a)'
        /\ Doomed(a) => Doomed(a)'
        /\ Firm(a) => Firm(a)'
        /\ \A c : c \in Decided(a) => c \in Decided(a)'
        /\ a \in Selectable => a \in Selectable'
    BY Stable DEF Stores
  <2>4. \A c \in Candidates : lake.models[a][c] # 0 => lake'.models[a][c] # 0
    BY DEF Stores, Grows
  <2> QED
    BY <2>1, <2>2, <2>3, <2>4
<1>5. OneCandidateSelected'
  BY <1>1 DEF OneCandidateSelected, Stores
<1>6. ASSUME lake'.builds = lake.builds PROVE BuildsOK'
  <2>1. Selectable' = Selectable
    BY <1>6 DEF Selectable
  <2>2. \A a \in Tokens : (Doomed(a) => Doomed(a)') /\ (Firm(a) => Firm(a)')
    BY Stable DEF Stores
  <2> QED
    BY <1>1, <1>6, <2>1, <2>2 DEF BuildsOK, Stores
<1> QED
  BY <1>3, <1>4, <1>5, <1>6

\* What the execution can rely on after it.
LEMMA StoresKeep ==
    ASSUME IInv, NEW r \in Runs, Awake(r), Grows, Keeps(r), NEW a \in Tokens, Attempt(r) = a
    PROVE  /\ Prepared(r, a) /\ Selecting(r, a) /\ Stage(r)' = Stage(r)
           /\ Full(a) => Full(a)' /\ Pick(r)' = Pick(r)
           /\ Doomed(a) => Doomed(a)'
           /\ Firm(a) => Firm(a)' /\ Full(a) /\ Pick(r) \in Candidates
           /\ \A c : c \in Decided(a) => c \in Decided(a)'
           /\ a \in Selectable => a \in Selectable'
           /\ ex'[r].mine = ex[r].mine
           /\ \A c \in Candidates : /\ lake.receipts[a][c] # None => lake'.receipts[a][c] # None
                                    /\ lake.models[a][c] # 0 => lake'.models[a][c] # 0
<1>1. Prepared(r, a) /\ Selecting(r, a) /\ Typed
  BY AtWork
<1>2. Stage(r)' = Stage(r) /\ ex'[r].mine.attempt = a
  BY DEF Keeps, Stage, Attempt
<1>3. Full(a) => Pick(r)' = Pick(r)
  BY <1>2, PickStays
<1>4. Firm(a) => Pick(r) \in Candidates
  BY <1>1, FirmPick
<1>5. \A c \in Candidates : /\ lake.receipts[a][c] # None => lake'.receipts[a][c] # None
                            /\ lake.models[a][c] # 0 => lake'.models[a][c] # 0
  BY DEF Grows
<1> QED
  BY <1>1, <1>2, <1>3, <1>4, <1>5, Stable DEF Keeps, Firm

\* And the invariant of an execution that goes on after it.
LEMMA StoresGo ==
    ASSUME IInv, NEW r \in Runs, Awake(r), ex[r].pc # "disown", Stores, Keeps(r), Same(r),
           ex'[r].pc \notin Resting \cup {"claim"}, minted' = minted, Typed',
           Casting(r)',
           \A a \in Tokens : Attempt(r) = a => Prepared(r, a)' /\ Selecting(r, a)'
    PROVE  RunOK(r)'
<1>1. Holds(r)
  BY AtWork
<1>2. Holds(r)'
  BY <1>1 DEF Holds, Keeps, Same, Stores, Awake
<1>3. Follows(r)'
  BY StoresMove, FollowsStays DEF Keeps, Stores
<1>4. Reached(r)'
  BY DEF Reached, Keeps, Attempt
<1> QED
  BY <1>2, <1>3, <1>4 DEF RunOK

-----------------------------------------------------------------------------
(* The appends of frames and the parent runs, counted.                     *)

\* A count that does not change is still one of executions.
LEMMA NumberedStays ==
    ASSUME NEW r \in Runs, NEW before, NEW n, Numbered(n, before), Same(r), minted' = minted,
           ex'[r].tok = ex[r].tok, ex'[r].pc \in before => ex[r].pc \in before
    PROVE  \E made \in SUBSET (1 .. minted') :
               /\ Cardinality(made) = n
               /\ \A s \in Runs : ex'[s].tok \in made => ex'[s].pc \notin before
BY DEF Numbered, Same

\* A count grows by one with an execution that leaves the steps before it.
LEMMA NumberedGrows ==
    ASSUME IInv, NEW r \in Runs, NEW before, NEW n \in Nat, Numbered(n, before), Same(r),
           minted' = minted, ex'[r].tok = ex[r].tok, ex[r].tok # 0,
           ex[r].pc \in before, ex'[r].pc \notin before
    PROVE  /\ n + 1 \in Tokens
           /\ \E made \in SUBSET (1 .. minted') :
                  /\ Cardinality(made) = n + 1
                  /\ \A s \in Runs : ex'[s].tok \in made => ex'[s].pc \notin before
<1>1. Typed /\ minted \in Nat /\ ex[r].tok \in Nat /\ Holds(r)
  BY TokenFields DEF IInv, RunOK
<1>2. PICK made \in SUBSET (1 .. minted) :
          /\ Cardinality(made) = n
          /\ \A s \in Runs : ex[s].tok \in made => ex[s].pc \notin before
  BY DEF Numbered
<1> DEFINE t == ex[r].tok
           more == made \cup {t}
<1>3. t \in 1 .. minted
  BY <1>1 DEF Holds
<1>4. IsFiniteSet(1 .. minted) /\ Cardinality(1 .. minted) = minted
  BY <1>1, <1>3, FS_Interval
<1>5. IsFiniteSet(made) /\ t \notin made
  BY <1>2, <1>4, FS_Subset
<1>6. Cardinality(more) = n + 1
  BY <1>2, <1>5, FS_AddElement
<1>7. more \in SUBSET (1 .. minted)
  BY <1>3
<1>8. n + 1 <= minted
  BY <1>4, <1>6, <1>7, FS_Subset
<1>9. n + 1 \in 1 .. minted
  BY <1>1, <1>8
<1>10. ASSUME NEW s \in Runs, ex'[s].tok \in more PROVE ex'[s].pc \notin before
  <2>1. CASE s = r
    BY <2>1
  <2>2. CASE s # r
    <3>1. ex'[s] = ex[s] /\ ex[s].tok # t
      BY <1>1, <2>2 DEF Same, Holds
    <3> QED
      BY <1>2, <1>10, <3>1
  <2> QED
    BY <2>1, <2>2
<1> QED
  BY <1>1, <1>6, <1>7, <1>9, <1>10 DEF Typed

\* An append of the frame is the only one of its execution.
LEMMA AppendFrameOK ==
    ASSUME IInv, NEW r \in Runs, AppendFrame(r)
    PROVE  IInv'
<1> DEFINE a == Attempt(r)
           n == lake.frames[a]
<1>0. /\ ex[r].pc = "append" /\ minted' = minted /\ faults' = faults /\ Awake(r) /\ Typed
      /\ UNCHANGED <<entry, lapsed, input, mlflow, exposed>>
      /\ lake' = [lake EXCEPT !.frames[a] = n + 1] /\ GoWith(r, n + 1, "bind")
  BY DEF AppendFrame, At, OnlyLake, Awake, Resting, IInv
<1>1. /\ Casting(r) /\ Prepared(r, a) /\ a \in Tokens /\ ex[r].tok # 0
  BY <1>0, AtWork
<1>2. n \in Nat /\ n + 1 \in Nat /\ lake \in Lakes
  <2>1. n \in Nat /\ lake \in Lakes
    BY <1>0, <1>1 DEF Typed, Lakes
  <2> QED
    BY <2>1
<1>3. /\ lake' \in Lakes /\ Stores /\ lake'.builds = lake.builds
      /\ lake'.frames = [lake.frames EXCEPT ![a] = n + 1]
  <2> DEFINE now == [lake.frames EXCEPT ![a] = n + 1]
  <2>1. lake.frames \in [Tokens -> Nat]
    BY <1>2 DEF Lakes
  <2>2. now \in [Tokens -> Nat]
    BY <1>1, <1>2, <2>1
  <2>3. lake' = [lake EXCEPT !.frames = now]
    BY <1>0, Zenon
  <2> HIDE DEF now
  <2>4. /\ lake' \in Lakes /\ lake'.builds = lake.builds /\ lake'.receipts = lake.receipts
        /\ lake'.models = lake.models /\ lake'.decisions = lake.decisions
        /\ lake'.frames = now
    BY <1>2, <2>2, <2>3 DEF Lakes
  <2> QED
    BY <1>0, <2>4 DEF Stores, Grows, now
<1>4. /\ ExTyped' /\ Same(r) /\ Keeps(r) /\ ex'[r].pc = "bind" /\ ex'[r].hand = n + 1
  <2>1. PICK m \in Nat : m = n + 1
    BY <1>2
  <2>2. GoWith(r, m, "bind") /\ "bind" \in Steps
    BY <1>0, <2>1 DEF Steps
  <2> HIDE DEF n
  <2> QED
    BY <1>0, <2>1, <2>2, GoWithMoves
<1>5. Typed'
  BY <1>0, <1>3, <1>4 DEF Typed, ExTyped
<1>6. /\ n + 1 \in Tokens
      /\ \E made \in SUBSET (1 .. minted') :
             /\ Cardinality(made) = n + 1
             /\ \A s \in Runs : ex'[s].tok \in made => ex'[s].pc \notin BeforeFrame
  <2>1. Numbered(n, BeforeFrame)
    BY <1>1 DEF IInv, Counted
  <2> HIDE DEF n
  <2> QED
    BY <1>0, <1>1, <1>2, <1>4, <2>1, NumberedGrows DEF Keeps, BeforeFrame
<1>7. Counted'
  <2>1. ASSUME NEW b \in Tokens
        PROVE  /\ \E made \in SUBSET (1 .. minted') :
                     /\ Cardinality(made) = lake'.frames[b]
                     /\ \A s \in Runs : ex'[s].tok \in made => ex'[s].pc \notin BeforeFrame
               /\ \E made \in SUBSET (1 .. minted') :
                     /\ Cardinality(made) = Len(mlflow'.parents[b])
                     /\ \A s \in Runs : ex'[s].tok \in made => ex'[s].pc \notin BeforeParent
    <3>1. Numbered(lake.frames[b], BeforeFrame) /\ Numbered(Len(mlflow.parents[b]), BeforeParent)
      BY DEF IInv, Counted
    <3>2. \E made \in SUBSET (1 .. minted') :
              /\ Cardinality(made) = lake'.frames[b]
              /\ \A s \in Runs : ex'[s].tok \in made => ex'[s].pc \notin BeforeFrame
      <4>1. CASE b = a
        <5>1. lake'.frames[b] = n + 1
          BY <1>2, <1>3, <4>1 DEF Lakes
        <5> QED
          BY <1>6, <5>1
      <4>2. CASE b # a
        <5>1. lake'.frames[b] = lake.frames[b]
          BY <1>3, <4>2
        <5> QED
          BY <1>0, <1>4, <3>1, <5>1, NumberedStays DEF Keeps, BeforeFrame
      <4> QED
        BY <4>1, <4>2
    <3>3. \E made \in SUBSET (1 .. minted') :
              /\ Cardinality(made) = Len(mlflow'.parents[b])
              /\ \A s \in Runs : ex'[s].tok \in made => ex'[s].pc \notin BeforeParent
      BY <1>0, <1>4, <3>1, NumberedStays DEF Keeps, BeforeParent, BeforeFrame
    <3> QED
      BY <3>2, <3>3
  <2> QED
    BY <2>1 DEF Counted, Numbered
<1>8. Casting(r)'
  BY <1>0, <1>1, <1>3, <1>4, <1>6, OldStays
     DEF Stores, Keeps, Casting, Resting, Reviewing, Choosing, Registering, Evaluating
<1>9. ASSUME NEW b \in Tokens, Attempt(r) = b PROVE Prepared(r, b)' /\ Selecting(r, b)'
  BY <1>0, <1>1, <1>3, <1>4, <1>9, StoresKeep DEF Stores, Prepared, Selecting, Framing,
     Parenting, Evaluating, Storing, Choosing, Registering, Closing
<1>10. RunOK(r)'
  BY <1>0, <1>3, <1>4, <1>5, <1>8, <1>9, StoresGo DEF Resting
<1> QED
  BY <1>0, <1>3, <1>4, <1>5, <1>7, <1>10, StoresMove, StepOK DEF Stores, Written, Keeps

\* A parent run is the only one of its execution.
LEMMA NewParentOK ==
    ASSUME IInv, NEW r \in Runs, NewParent(r)
    PROVE  IInv'
<1> DEFINE a == Attempt(r)
           runs == mlflow.parents[a]
           n == Len(runs)
<1>0. /\ ex[r].pc = "newparent" /\ minted' = minted /\ faults' = faults /\ Awake(r) /\ Typed
      /\ UNCHANGED <<entry, lapsed, input, lake, exposed>>
      /\ mlflow' = [mlflow EXCEPT !.parents[a] = Append(runs, "RUNNING")]
      /\ GoWith(r, n + 1, "bindparent")
  BY DEF NewParent, At, OnlyMlflow, Awake, Resting, IInv
<1>1. /\ Casting(r) /\ Prepared(r, a) /\ a \in Tokens /\ ex[r].tok # 0
  BY <1>0, AtWork
<1>2. mlflow \in Trackers /\ runs \in Seq(Statuses)
  BY <1>0, <1>1 DEF Typed, Trackers
<1>3. /\ Append(runs, "RUNNING") \in Seq(Statuses) /\ Len(Append(runs, "RUNNING")) = n + 1
      /\ n \in Nat /\ n + 1 \in Nat
  BY <1>2 DEF Statuses
<1>4. /\ mlflow' \in Trackers /\ Quiet
      /\ mlflow'.parents = [mlflow.parents EXCEPT ![a] = Append(runs, "RUNNING")]
  <2> DEFINE more == Append(runs, "RUNNING")
  <2>1. more \in Seq(Statuses) /\ mlflow.parents \in [Tokens -> Seq(Statuses)]
    BY <1>2, <1>3 DEF Trackers
  <2> DEFINE now == [mlflow.parents EXCEPT ![a] = more]
  <2>2. mlflow' = [mlflow EXCEPT !.parents = now]
    BY <1>0, Zenon
  <2> HIDE DEF more
  <2>3. now \in [Tokens -> Seq(Statuses)]
    BY <1>1, <2>1
  <2> HIDE DEF now
  <2>4. /\ mlflow' \in Trackers /\ mlflow'.versions = mlflow.versions
        /\ mlflow'.parents = now
    BY <1>2, <2>2, <2>3 DEF Trackers
  <2> QED
    BY <1>0, <2>4 DEF more, now, Quiet
<1>5. /\ ExTyped' /\ Same(r) /\ Keeps(r) /\ ex'[r].pc = "bindparent" /\ ex'[r].hand = n + 1
  <2>1. PICK m \in Nat : m = n + 1
    BY <1>3
  <2>2. GoWith(r, m, "bindparent") /\ "bindparent" \in Steps
    BY <1>0, <2>1 DEF Steps
  <2> HIDE DEF n
  <2> QED
    BY <1>0, <2>1, <2>2, GoWithMoves
<1>6. Typed'
  BY <1>0, <1>4, <1>5 DEF Typed, ExTyped
<1>7. /\ n + 1 \in Tokens
      /\ \E made \in SUBSET (1 .. minted') :
             /\ Cardinality(made) = n + 1
             /\ \A s \in Runs : ex'[s].tok \in made => ex'[s].pc \notin BeforeParent
  <2>1. Numbered(n, BeforeParent)
    BY <1>1 DEF IInv, Counted
  <2> HIDE DEF n
  <2> QED
    BY <1>0, <1>1, <1>3, <1>5, <2>1, NumberedGrows DEF Keeps, BeforeParent, BeforeFrame
<1>8. Counted'
  <2>1. ASSUME NEW b \in Tokens
        PROVE  /\ \E made \in SUBSET (1 .. minted') :
                     /\ Cardinality(made) = lake'.frames[b]
                     /\ \A s \in Runs : ex'[s].tok \in made => ex'[s].pc \notin BeforeFrame
               /\ \E made \in SUBSET (1 .. minted') :
                     /\ Cardinality(made) = Len(mlflow'.parents[b])
                     /\ \A s \in Runs : ex'[s].tok \in made => ex'[s].pc \notin BeforeParent
    <3>1. Numbered(lake.frames[b], BeforeFrame) /\ Numbered(Len(mlflow.parents[b]), BeforeParent)
      BY DEF IInv, Counted
    <3>2. \E made \in SUBSET (1 .. minted') :
              /\ Cardinality(made) = lake'.frames[b]
              /\ \A s \in Runs : ex'[s].tok \in made => ex'[s].pc \notin BeforeFrame
      BY <1>0, <1>5, <3>1, NumberedStays DEF Keeps, BeforeFrame
    <3>3. \E made \in SUBSET (1 .. minted') :
              /\ Cardinality(made) = Len(mlflow'.parents[b])
              /\ \A s \in Runs : ex'[s].tok \in made => ex'[s].pc \notin BeforeParent
      <4>1. CASE b = a
        <5>1. Len(mlflow'.parents[b]) = n + 1
          BY <1>2, <1>3, <1>4, <4>1 DEF Trackers
        <5> QED
          BY <1>7, <5>1
      <4>2. CASE b # a
        <5> DEFINE m == Len(mlflow.parents[b])
        <5>1. Len(mlflow'.parents[b]) = m
          BY <1>4, <4>2
        <5>2. Numbered(m, BeforeParent)
          BY <3>1
        <5> HIDE DEF m
        <5> QED
          BY <1>0, <1>5, <5>1, <5>2, NumberedStays DEF Keeps, BeforeParent, BeforeFrame
      <4> QED
        BY <4>1, <4>2
    <3> QED
      BY <3>2, <3>3
  <2> QED
    BY <2>1 DEF Counted, Numbered
<1>9. Casting(r)'
  BY <1>0, <1>1, <1>4, <1>5, <1>7, OldStays, QuietMoves
     DEF Keeps, Casting, Resting, Reviewing, Choosing, Registering, Evaluating
<1>10. ASSUME NEW b \in Tokens, Attempt(r) = b PROVE Prepared(r, b)' /\ Selecting(r, b)'
  BY <1>0, <1>1, <1>4, <1>5, <1>10, QuietKeeps DEF Prepared, Selecting, Framing,
     Parenting, Evaluating, Storing, Choosing, Registering, Closing
<1>11. RunOK(r)'
  BY <1>0, <1>4, <1>5, <1>6, <1>9, <1>10, QuietGo DEF Resting
<1> QED
  BY <1>0, <1>4, <1>5, <1>6, <1>8, <1>11, QuietMoves, StepOK DEF Written, Keeps

-----------------------------------------------------------------------------
(* The rows of receipts, builds, decisions and models.                     *)

\* Where an attempt holds, its claim has only gone on.
LEMMA LockedIn ==
    ASSUME IInv, NEW r \in Runs, Awake(r), NEW a \in Tokens, Attempt(r) = a, Firm(a),
           Stage(r) \in CANDIDATES_READY .. COMPLETE
    PROVE  /\ entry # None /\ entry.attempt = a /\ Stage(r) <= entry.checkpoint
           /\ entry.checkpoint \in CANDIDATES_READY .. COMPLETE
           /\ \A n \in RefNames :
                 ex[r].mine.refs[n] # None => entry.refs[n] = ex[r].mine.refs[n]
<1>1. /\ Follows(r) /\ entry \in Rows /\ entry # None /\ Stage(r) \in 0 .. 6
      /\ ex[r].mine # None /\ EntryOK
  BY AtWork DEF IInv
<1>2. ~Doomed(a)
  BY DEF Doomed, Firm
<1>3. /\ entry.attempt = a /\ Stage(r) <= entry.checkpoint
      /\ \A n \in RefNames :
            ex[r].mine.refs[n] # None => entry.refs[n] = ex[r].mine.refs[n]
  BY <1>1, <1>2 DEF Follows, Attempt, Stage
<1>4. entry.checkpoint # FAILED /\ entry.checkpoint \in 0 .. 7
  BY <1>1, <1>2, <1>3, RowFields DEF EntryOK
<1>5. entry.checkpoint \in CANDIDATES_READY .. COMPLETE
  BY <1>1, <1>3, <1>4, Numbers
<1> QED
  BY <1>1, <1>3, <1>5

\* A receipt is stored, or found to be the same.
LEMMA StoreReceiptOK ==
    ASSUME IInv, NEW r \in Runs, StoreReceipt(r)
    PROVE  IInv'
<1> DEFINE a == Attempt(r)
           c == Candidate(r)
           row == [status |-> ex[r].eval.tags.status, tags |-> ex[r].eval.tags,
                   run |-> ex[r].hand, recovered |-> ex[r].eval.recovered]
<1>0. /\ ex[r].pc = "store" /\ minted' = minted /\ faults' = faults /\ Awake(r) /\ Typed
      /\ UNCHANGED <<entry, lapsed, input, mlflow, exposed>>
      /\ lapsed \in BOOLEAN /\ mlflow \in Trackers /\ faults \in 0 .. MaxFaults
  BY DEF StoreReceipt, At, OnlyLake, Awake, Resting, IInv, Typed
<1>1. Casting(r) /\ a \in Tokens /\ c \in Candidates
  BY <1>0, AtWork, CandidateLeft, ExFields DEF Casting, Evaluating
<1>2. row \in Receipts /\ row # None
  <2>1. ex[r].eval \in Evaluations /\ ex[r].hand \in Nat
    BY <1>0, <1>1, ExFields DEF Casting
  <2>2. row \in Receipts
    BY <2>1 DEF Evaluations, TagSet, Receipts
  <2> QED
    BY <2>2, RunAssumption
<1> HIDE DEF row
<1>3. CASE /\ lake.receipts[a][c] = None
           /\ lake' = [lake EXCEPT !.receipts[a][c] = row] /\ NextCandidate(r)
  <2>1. /\ lake' \in Lakes /\ lake'.builds = lake.builds /\ lake'.frames = lake.frames
        /\ lake'.models = lake.models /\ lake'.decisions = lake.decisions
        /\ lake'.receipts = [lake.receipts EXCEPT ![a][c] = row]
        /\ lake.receipts \in [Tokens -> [Candidates -> Receipts \cup {None}]]
    BY <1>0, <1>1, <1>2, <1>3 DEF Typed, Lakes
  <2>2. /\ lake'.receipts[a][c] = row
        /\ \A b \in Tokens, d \in Candidates :
              lake.receipts[b][d] # None => lake'.receipts[b][d] = lake.receipts[b][d]
    BY <1>1, <1>3, <2>1
  <2>3. Stores
    BY <1>0, <2>1, <2>2 DEF Stores, Grows
  <2>4. /\ ExTyped' /\ Same(r) /\ Keeps(r) /\ Casting(r)'
        /\ ex'[r].pc \in {"receipt", "candidates", "recommend"}
        /\ \A b \in Tokens : Attempt(r) = b => Prepared(r, b)' /\ Selecting(r, b)'
    BY <1>0, <1>2, <1>3, <2>2, <2>3, NextOK DEF Stores
  <2>5. Typed'
    BY <1>0, <2>1, <2>4 DEF Typed, ExTyped
  <2>6. RunOK(r)'
    BY <1>0, <2>3, <2>4, <2>5, StoresGo DEF Resting
  <2>7. Counted'
    BY <1>0, <2>1, <2>4, CountedStays DEF Counting, Keeps, BeforeFrame, BeforeParent
  <2> QED
    BY <1>0, <2>1, <2>3, <2>4, <2>5, <2>6, <2>7, StoresMove, StepOK
       DEF Stores, Written, Keeps
<1>4. CASE lake.receipts[a][c] = row /\ lake' = lake /\ NextCandidate(r)
  <2>1. Quiet
    BY <1>0, <1>4 DEF Quiet
  <2>2. /\ ExTyped' /\ Same(r) /\ Keeps(r) /\ Casting(r)'
        /\ ex'[r].pc \in {"receipt", "candidates", "recommend"}
        /\ \A b \in Tokens : Attempt(r) = b => Prepared(r, b)' /\ Selecting(r, b)'
    BY <1>0, <1>2, <1>4, <2>1, NextOK, QuietMoves
  <2> QED
    BY <1>0, <2>1, <2>2, QuietOn DEF Resting, BeforeFrame, BeforeParent
<1>5. CASE lake' = lake /\ Raise(r)
  <2>1. Quiet
    BY <1>0, <1>5 DEF Quiet
  <2> QED
    BY <1>0, <1>5, <2>1, QuietStop
<1> QED
  BY <1>3, <1>4, <1>5 DEF StoreReceipt, row

\* A decision is stored.
LEMMA NewDecisionOK ==
    ASSUME IInv, NEW r \in Runs, NewDecision(r)
    PROVE  IInv'
<1> DEFINE a == Attempt(r)
           d == [attempt |-> a, choice |-> Pick(r)]
<1>0. /\ ex[r].pc = "newdecision" /\ minted' = minted /\ faults' = faults /\ Awake(r) /\ Typed
      /\ UNCHANGED <<entry, lapsed, input, mlflow, exposed>>
      /\ lapsed \in BOOLEAN /\ mlflow \in Trackers /\ faults \in 0 .. MaxFaults
  BY DEF NewDecision, At, OnlyLake, Awake, Resting, IInv, Typed
<1>1. /\ Casting(r) /\ Prepared(r, a) /\ Selecting(r, a) /\ a \in Tokens
  BY <1>0, AtWork
<1>2. CASE lake' = lake /\ Raise(r)
  <2>1. Quiet
    BY <1>0, <1>2 DEF Quiet
  <2> QED
    BY <1>0, <1>2, <2>1, QuietStop
<1>3. CASE lake' = [lake EXCEPT !.decisions = @ \cup {d}] /\ Go(r, "lock")
  <2>1. Pick(r) \in Candidates /\ Firm(a)
    <3>1. Firm(a)
      BY <1>0, <1>1 DEF Selecting, Choosing
    <3> QED
      BY <1>0, <1>1, <3>1, FirmPick
  <2>2. d \in [attempt : Tokens, choice : Candidates] /\ d.attempt = a /\ d.choice = Pick(r)
    BY <1>1, <2>1
  <2> HIDE DEF d
  <2>3. /\ lake' \in Lakes /\ lake'.builds = lake.builds /\ lake'.frames = lake.frames
        /\ lake'.models = lake.models /\ lake'.receipts = lake.receipts
        /\ lake'.decisions = lake.decisions \cup {d}
    BY <1>0, <1>3, <2>2 DEF Typed, Lakes
  <2>4. Stores
    BY <1>0, <2>3 DEF Stores, Grows
  <2>5. /\ ExTyped' /\ Same(r) /\ Keeps(r) /\ ex'[r].pc = "lock"
    BY <1>0, <1>3, GoMoves DEF Steps, Inside
  <2>6. Typed'
    BY <1>0, <2>3, <2>5 DEF Typed, ExTyped
  <2>7. Casting(r)'
    BY <1>0, <1>1, <2>4, <2>5, OldStays
       DEF Stores, Keeps, Casting, Resting, Reviewing, Choosing, Registering, Evaluating
  <2>8. ASSUME NEW b \in Tokens, Attempt(r) = b PROVE Prepared(r, b)' /\ Selecting(r, b)'
    <3>1. Pick(r) \in Decided(b)'
      BY <2>2, <2>3, <2>8 DEF Decided
    <3>2. Pick(r)' = Pick(r) /\ Firm(b)' /\ Stage(r)' = Stage(r)
      BY <1>0, <2>1, <2>4, <2>5, <2>8, StoresKeep DEF Stores
    <3>3. Stage(r) = CANDIDATES_READY
      BY <1>0, <1>1 DEF Selecting
    <3> QED
      BY <2>5, <3>1, <3>2, <3>3, Numbers DEF Prepared, Selecting, Framing, Parenting,
         Evaluating, Storing, Choosing, Registering, Closing
  <2>9. RunOK(r)'
    BY <1>0, <2>4, <2>5, <2>6, <2>7, <2>8, StoresGo DEF Resting
  <2>10. Counted'
    BY <1>0, <2>3, <2>5, CountedStays DEF Counting, Keeps, BeforeFrame, BeforeParent
  <2> QED
    BY <1>0, <2>3, <2>4, <2>5, <2>6, <2>9, <2>10, StoresMove, StepOK
       DEF Stores, Written, Keeps
<1> QED
  BY <1>2, <1>3 DEF NewDecision

\* The model of the locked candidate is stored.
LEMMA StoreModelOK ==
    ASSUME IInv, NEW r \in Runs, StoreModel(r)
    PROVE  IInv'
<1> DEFINE a == Attempt(r)
<1>0. /\ ex[r].pc = "persist" /\ minted' = minted /\ faults' = faults /\ Awake(r) /\ Typed
      /\ UNCHANGED <<entry, lapsed, input, mlflow, exposed>>
      /\ lake' = [lake EXCEPT !.models[a][Pick(r)] = ex[r].hand] /\ Go(r, "registered")
  BY DEF StoreModel, At, OnlyLake, Awake, Resting, IInv
<1>1. /\ Casting(r) /\ Prepared(r, a) /\ Selecting(r, a) /\ a \in Tokens
      /\ ex[r].hand \in Nat /\ ex[r].hand # 0
  BY <1>0, AtWork, ExFields DEF Casting
<1>2. Pick(r) \in Candidates /\ Firm(a)
  <2>1. Firm(a)
    BY <1>0, <1>1 DEF Selecting, Registering
  <2> QED
    BY <1>0, <1>1, <2>1, FirmPick
<1>3. /\ lake' \in Lakes /\ lake'.builds = lake.builds /\ lake'.frames = lake.frames
      /\ lake'.decisions = lake.decisions /\ lake'.receipts = lake.receipts
      /\ lake'.models = [lake.models EXCEPT ![a][Pick(r)] = ex[r].hand]
      /\ lake.models \in [Tokens -> [Candidates -> Nat]]
  BY <1>0, <1>1, <1>2 DEF Typed, Lakes
<1>4. /\ lake'.models[a][Pick(r)] # 0
      /\ \A b \in Tokens, c \in Candidates :
            lake.models[b][c] # 0 => lake'.models[b][c] # 0
  BY <1>1, <1>2, <1>3
<1>5. Stores
  BY <1>0, <1>3, <1>4 DEF Stores, Grows
<1>6. /\ ExTyped' /\ Same(r) /\ Keeps(r) /\ ex'[r].pc = "registered"
  BY <1>0, GoMoves DEF Steps, Inside
<1>7. Typed'
  BY <1>0, <1>3, <1>6 DEF Typed, ExTyped
<1>8. Casting(r)'
  BY <1>0, <1>1, <1>5, <1>6, OldStays
     DEF Stores, Keeps, Casting, Resting, Reviewing, Choosing, Registering, Evaluating
<1>9. ASSUME NEW b \in Tokens, Attempt(r) = b PROVE Prepared(r, b)' /\ Selecting(r, b)'
  <2>1. /\ Pick(r)' = Pick(r) /\ Firm(b)' /\ Stage(r)' = Stage(r) /\ ex'[r].mine = ex[r].mine
    BY <1>0, <1>2, <1>5, <1>6, <1>9, StoresKeep DEF Stores
  <2>2. lake'.models[b][Pick(r)] # 0
    BY <1>4, <1>9
  <2> QED
    BY <1>0, <1>1, <1>6, <1>9, <2>1, <2>2 DEF Prepared, Selecting, Framing, Parenting,
       Evaluating, Storing, Choosing, Registering, Closing
<1>10. RunOK(r)'
  BY <1>0, <1>5, <1>6, <1>7, <1>8, <1>9, StoresGo DEF Resting
<1>11. Counted'
  BY <1>0, <1>3, <1>6, CountedStays DEF Counting, Keeps, BeforeFrame, BeforeParent
<1> QED
  BY <1>0, <1>3, <1>5, <1>6, <1>7, <1>10, <1>11, StoresMove, StepOK DEF Stores, Written, Keeps

\* On the way to the model, the claim has locked the candidate to select.
LEMMA Selected ==
    ASSUME IInv, NEW r \in Runs, ex[r].pc \in Registering, NEW a \in Tokens, Attempt(r) = a
    PROVE  /\ Firm(a) /\ Pick(r) \in Candidates /\ Stage(r) \in SELECTION_LOCKED .. COMPLETE
           /\ ex[r].mine.refs["decision"] = Pick(r)
           /\ entry # None /\ entry.attempt = a
           /\ entry.checkpoint \in SELECTION_LOCKED .. COMPLETE
           /\ entry.refs["decision"] = Pick(r)
<1>1. Awake(r)
  BY DEF Awake, Registering, Resting
<1>2. /\ Firm(a) /\ Stage(r) \in SELECTION_LOCKED .. COMPLETE
      /\ ex[r].mine.refs["decision"] = Pick(r)
  BY <1>1, AtWork DEF Selecting
<1>3. Pick(r) \in Candidates
  BY <1>1, <1>2, AtWork, FirmPick
<1>4. Pick(r) # None
  BY <1>3, RunAssumption
<1>5. Stage(r) \in CANDIDATES_READY .. COMPLETE
  BY <1>2, Numbers
<1>6. /\ entry # None /\ entry.attempt = a /\ Stage(r) <= entry.checkpoint
      /\ entry.checkpoint \in CANDIDATES_READY .. COMPLETE
      /\ entry.refs["decision"] = Pick(r)
  BY <1>1, <1>2, <1>4, <1>5, LockedIn DEF RefNames
<1>7. entry.checkpoint \in SELECTION_LOCKED .. COMPLETE
  BY <1>2, <1>6, Numbers
<1> QED
  BY <1>2, <1>3, <1>6, <1>7

\* A version is registered from the candidate the claim has locked.
LEMMA RegisterOK ==
    ASSUME IInv, NEW r \in Runs, Register(r)
    PROVE  IInv'
<1> DEFINE a == Attempt(r)
           c == Pick(r)
           v == mlflow.versions[a][c] + 1
<1>0. /\ ex[r].pc = "register" /\ minted' = minted /\ faults' = faults /\ Awake(r) /\ Typed
      /\ UNCHANGED <<entry, lapsed, input, lake, exposed>>
      /\ mlflow' = [mlflow EXCEPT !.versions[a][c] = v] /\ GoWith(r, v, "persist")
  BY DEF Register, At, OnlyMlflow, Awake, Resting, IInv
<1>1. /\ Casting(r) /\ Prepared(r, a) /\ Selecting(r, a) /\ a \in Tokens
      /\ ex[r].mine \in Rows
  BY <1>0, AtWork
<1>2. /\ c \in Candidates /\ Firm(a) /\ Stage(r) \in SELECTION_LOCKED .. COMPLETE
      /\ ex[r].mine.refs["decision"] = c
  <2>1. /\ Firm(a) /\ Stage(r) \in SELECTION_LOCKED .. COMPLETE
        /\ ex[r].mine.refs["decision"] = c
    BY <1>0, <1>1 DEF Selecting, Registering
  <2> QED
    BY <1>0, <1>1, <2>1, FirmPick
<1>3. v \in Nat /\ v # 0
  <2>1. mlflow.versions[a][c] \in Nat
    BY <1>0, <1>1, <1>2 DEF Typed, Trackers
  <2> QED
    BY <2>1
<1> HIDE DEF v
<1>4. /\ mlflow' \in Trackers /\ mlflow'.parents = mlflow.parents
      /\ mlflow'.versions = [mlflow.versions EXCEPT ![a][c] = v]
      /\ mlflow.versions \in [Tokens -> [Candidates -> Nat]]
  BY <1>0, <1>1, <1>2, <1>3 DEF Typed, Trackers
<1>5. \A b \in Tokens, d \in Candidates :
          mlflow'.versions[b][d] = mlflow.versions[b][d] \/ (b = a /\ d = c)
  BY <1>1, <1>2, <1>4
<1>6. /\ ExTyped' /\ Same(r) /\ Keeps(r) /\ ex'[r].pc = "persist" /\ ex'[r].hand = v
  BY <1>0, <1>3, GoWithMoves DEF Steps, Inside
<1>7. Typed'
  BY <1>0, <1>4, <1>6 DEF Typed, ExTyped
<1>8. Grows /\ Forward /\ EntryOK' /\ BuildsOK'
  BY <1>0, RestMoves
<1>9. OneCandidateSelected'
  <2>1. OneCandidateSelected
    BY DEF IInv
  <2> QED
    BY <1>0, <1>1, <1>2, <1>5, <2>1, Selected DEF OneCandidateSelected, Registering
<1>10. Casting(r)'
  BY <1>0, <1>1, <1>3, <1>6, <1>8, OldStays
     DEF Keeps, Casting, Resting, Reviewing, Choosing, Registering, Evaluating
<1>11. ASSUME NEW b \in Tokens, Attempt(r) = b PROVE Prepared(r, b)' /\ Selecting(r, b)'
  <2>1. /\ Pick(r)' = Pick(r) /\ Firm(b)' /\ Stage(r)' = Stage(r) /\ ex'[r].mine = ex[r].mine
    BY <1>0, <1>2, <1>6, <1>8, <1>11, StoresKeep
  <2> QED
    BY <1>2, <1>6, <2>1 DEF Prepared, Selecting, Framing, Parenting, Evaluating, Storing,
       Choosing, Registering, Closing
<1>12. RunOK(r)'
  <2>1. Holds(r)
    BY <1>0, AtWork
  <2>2. Holds(r)'
    BY <1>0, <1>6, <2>1 DEF Holds, Keeps, Same, Resting
  <2>3. Follows(r)'
    BY <1>6, <1>7, <1>8, FollowsStays DEF Keeps
  <2>4. Reached(r)'
    BY <1>6, <1>11 DEF Reached, Keeps, Attempt
  <2> QED
    BY <1>10, <2>2, <2>3, <2>4 DEF RunOK
<1>13. Counted'
  BY <1>0, <1>4, <1>6, CountedStays DEF Counting, Keeps, BeforeFrame, BeforeParent
<1> QED
  BY <1>0, <1>6, <1>7, <1>8, <1>9, <1>12, <1>13, StepOK DEF Written, Keeps

\* Test data is read for the candidate the claim has locked.
LEMMA ReadTestOK ==
    ASSUME IInv, NEW r \in Runs, ReadTest(r)
    PROVE  IInv'
<1> DEFINE a == Attempt(r)
           c == Pick(r)
<1>0. /\ ex[r].pc = "test" /\ minted' = minted /\ faults' = faults /\ Awake(r) /\ Typed
      /\ UNCHANGED <<entry, lapsed, input, lake, mlflow>>
      /\ lapsed \in BOOLEAN /\ mlflow \in Trackers /\ faults \in 0 .. MaxFaults
  BY DEF ReadTest, At, Awake, Resting, IInv, Typed
<1>1. CASE exposed' = exposed /\ Raise(r)
  <2>1. Quiet
    BY <1>0, <1>1 DEF Quiet
  <2> QED
    BY <1>0, <1>1, <2>1, QuietStop
<1>2. CASE exposed' = [exposed EXCEPT ![a] = @ \cup {c}] /\ Go(r, "model")
  <2>1. /\ Casting(r) /\ Prepared(r, a) /\ Selecting(r, a) /\ a \in Tokens
        /\ ex[r].mine \in Rows
    BY <1>0, AtWork
  <2>2. /\ c \in Candidates /\ Firm(a) /\ Stage(r) \in SELECTION_LOCKED .. COMPLETE
        /\ ex[r].mine.refs["decision"] = c
    BY <1>0, <2>1, Selected DEF Registering
  <2>3. /\ exposed' \in [Tokens -> SUBSET Candidates]
        /\ \A b \in Tokens : \A d \in exposed'[b] : d \in exposed[b] \/ (b = a /\ d = c)
    BY <1>0, <1>2, <2>1, <2>2 DEF Typed
  <2>4. /\ ExTyped' /\ Same(r) /\ Keeps(r) /\ ex'[r].pc = "model"
    BY <1>0, <1>2, GoMoves DEF Steps, Inside
  <2>5. Typed'
    BY <1>0, <2>3, <2>4 DEF Typed, ExTyped
  <2>6. Grows /\ Forward /\ EntryOK' /\ BuildsOK'
    BY <1>0, RestMoves
  <2>7. OneCandidateSelected'
    <3>1. OneCandidateSelected
      BY DEF IInv
    <3> QED
      BY <1>0, <2>1, <2>3, <3>1, Selected DEF OneCandidateSelected, Registering
  <2>8. Casting(r)'
    BY <1>0, <2>1, <2>4, <2>6, OldStays
       DEF Keeps, Casting, Resting, Reviewing, Choosing, Registering, Evaluating
  <2>9. ASSUME NEW b \in Tokens, Attempt(r) = b PROVE Prepared(r, b)' /\ Selecting(r, b)'
    <3>1. /\ Pick(r)' = Pick(r) /\ Firm(b)' /\ Stage(r)' = Stage(r)
          /\ ex'[r].mine = ex[r].mine
      BY <1>0, <2>2, <2>4, <2>6, <2>9, StoresKeep
    <3> QED
      BY <2>2, <2>4, <3>1 DEF Prepared, Selecting, Framing, Parenting, Evaluating, Storing,
         Choosing, Registering, Closing
  <2>10. RunOK(r)'
    <3>1. Holds(r)
      BY <1>0, AtWork
    <3>2. Holds(r)'
      BY <1>0, <2>4, <3>1 DEF Holds, Keeps, Same, Resting
    <3>3. Follows(r)'
      BY <2>4, <2>5, <2>6, FollowsStays DEF Keeps
    <3>4. Reached(r)'
      BY <2>4, <2>9 DEF Reached, Keeps, Attempt
    <3> QED
      BY <2>8, <3>2, <3>3, <3>4 DEF RunOK
  <2>11. Counted'
    BY <1>0, <2>4, CountedStays DEF Counting, Keeps, BeforeFrame, BeforeParent
  <2> QED
    BY <1>0, <2>4, <2>5, <2>6, <2>7, <2>10, <2>11, StepOK DEF Written, Keeps
<1> QED
  BY <1>1, <1>2 DEF ReadTest

\* A build is stored: that of an attempt that has failed, or of the claim's own.
LEMMA StoreBuildOK ==
    ASSUME IInv, NEW r \in Runs, FailBuild(r) \/ StoreAwaiting(r) \/ StoreReady(r)
    PROVE  IInv'
<1> DEFINE a == Attempt(r)
<1>0. /\ ex[r].pc \in {"failbuild", "awaiting", "ready"} /\ minted' = minted
      /\ faults' = faults /\ Awake(r) /\ Typed
      /\ UNCHANGED <<entry, lapsed, input, mlflow, exposed>>
      /\ lapsed \in BOOLEAN /\ mlflow \in Trackers /\ faults \in 0 .. MaxFaults
  BY DEF FailBuild, StoreAwaiting, StoreReady, At, OnlyLake, Awake, Resting, IInv, Typed
<1>1. /\ Casting(r) /\ Prepared(r, a) /\ Selecting(r, a) /\ a \in Tokens
      /\ ex[r].mine \in Rows /\ ex[r].tok \in Tokens /\ Stage(r) \in 0 .. 6
  BY <1>0, AtWork
<1>2. PICK status \in {"FAILED", "AWAITING", "READY"},
           step \in {"failclaim", "stored", "complete"} :
          /\ StoreBuild(r, status, step)
          /\ status = "FAILED" => Doomed(a)
          /\ status # "FAILED" => Firm(a)
          /\ Stage(r) \in CANDIDATES_READY .. COMPLETE
          /\ status = "READY" => Stage(r) \in REGISTERED .. COMPLETE
          /\ step = "failclaim" => Doomed(a) /\ Stage(r) \in CANDIDATES_READY .. REGISTERED
          /\ step = "complete" =>
                /\ status = "READY" /\ Stage(r) \in SELECTION_LOCKED .. COMPLETE
                /\ ex[r].mine.refs["decision"] = Pick(r)
                /\ lake.models[a][Pick(r)] # 0
  <2>1. CASE FailBuild(r)
    <3>1. Doomed(a) /\ Stage(r) \in CANDIDATES_READY .. REGISTERED
      BY <1>1, <2>1 DEF FailBuild, At, Prepared
    <3>2. Stage(r) \in CANDIDATES_READY .. COMPLETE
      BY <3>1, Numbers
    <3> QED
      BY <2>1, <3>1, <3>2 DEF FailBuild
  <2>2. CASE StoreAwaiting(r)
    <3>1. Firm(a) /\ Stage(r) \in CANDIDATES_READY .. COMPLETE
      BY <1>1, <2>2 DEF StoreAwaiting, At, Selecting, Storing
    <3> QED
      BY <2>2, <3>1 DEF StoreAwaiting
  <2>3. CASE StoreReady(r)
    <3>1. /\ Firm(a) /\ Stage(r) \in SELECTION_LOCKED .. COMPLETE
          /\ ex[r].mine.refs["decision"] = Pick(r)
          /\ lake.models[a][Pick(r)] # 0 /\ Stage(r) \in REGISTERED .. COMPLETE
      BY <1>1, <2>3 DEF StoreReady, At, Selecting, Closing
    <3>2. Stage(r) \in CANDIDATES_READY .. COMPLETE
      BY <3>1, Numbers
    <3> QED
      BY <2>3, <3>1, <3>2 DEF StoreReady
  <2> QED
    BY <2>1, <2>2, <2>3
<1> DEFINE row == [status |-> status, by |-> ex[r].tok, code |-> input.code[r],
                   parent |-> ex[r].mine.refs.parent]
<1>3. CASE lake' = lake /\ Raise(r)
  <2>1. Quiet
    BY <1>0, <1>3 DEF Quiet
  <2> QED
    BY <1>0, <1>3, <2>1, QuietStop
<1>4. CASE lake.builds[a] = None /\ lake' = [lake EXCEPT !.builds[a] = row] /\ Go(r, step)
  <2>1. r \notin Reviewers
    BY <1>0, <1>1 DEF Casting, Reviewing, Resting, Choosing, Registering
  <2>2. row \in Builds /\ row # None /\ row.status = status
    <3>1. input.code[r] \in Codes
      BY <1>0, <2>1 DEF Typed, Inputs
    <3>2. ex[r].mine.refs["parent"] \in Tokens
      BY <1>1, <1>2, RowFields, Numbers DEF Stage
    <3>3. row \in Builds
      BY <1>1, <3>1, <3>2 DEF Builds
    <3> QED
      BY <3>3, RunAssumption
  <2> HIDE DEF row
  <2>3. /\ lake' \in Lakes /\ lake'.frames = lake.frames /\ lake'.decisions = lake.decisions
        /\ lake'.models = lake.models /\ lake'.receipts = lake.receipts
        /\ lake'.builds = [lake.builds EXCEPT ![a] = row]
        /\ lake.builds \in [Tokens -> Builds \cup {None}]
    BY <1>0, <1>1, <1>4, <2>2 DEF Typed, Lakes
  <2>4. /\ lake'.builds[a] = row
        /\ \A b \in Tokens : b # a => lake'.builds[b] = lake.builds[b]
    BY <1>1, <2>3
  <2>5. Stores
    BY <1>0, <1>4, <2>3, <2>4 DEF Stores, Grows
  <2>6. /\ ExTyped' /\ Same(r) /\ Keeps(r) /\ ex'[r].pc = step
    BY <1>0, <1>4, GoMoves DEF Steps, Inside
  <2>7. Typed'
    BY <1>0, <2>3, <2>6 DEF Typed, ExTyped
  <2>8. BuildsOK'
    <3> SUFFICES ASSUME NEW b \in Tokens
                 PROVE  /\ lake'.builds[b] # None /\ lake'.builds[b].status = "FAILED" =>
                              Doomed(b)'
                        /\ b \in Selectable' =>
                              /\ Firm(b)'
                              /\ entry # None /\ entry.attempt = b
                              /\ entry.checkpoint \in CANDIDATES_READY .. COMPLETE
                              /\ lake'.builds[b].status = "READY" =>
                                     entry.checkpoint >= REGISTERED
      BY <1>0 DEF BuildsOK
    <3>1. (Doomed(b) => Doomed(b)') /\ (Firm(b) => Firm(b)')
      BY <2>5, Stable DEF Stores
    <3>2. CASE b # a
      <4>1. b \in Selectable' => b \in Selectable
        BY <2>4, <3>2 DEF Selectable
      <4>2. BuildsOK
        BY DEF IInv
      <4> QED
        BY <2>4, <3>1, <3>2, <4>1, <4>2 DEF BuildsOK
    <3>3. CASE b = a
      <4>1. b \in Selectable' => status # "FAILED"
        BY <2>2, <2>4, <3>3 DEF Selectable
      <4>2. ASSUME status # "FAILED"
            PROVE  /\ Firm(b) /\ entry # None /\ entry.attempt = b
                   /\ entry.checkpoint \in CANDIDATES_READY .. COMPLETE
                   /\ status = "READY" => entry.checkpoint >= REGISTERED
        <5>1. /\ Firm(b) /\ entry # None /\ entry.attempt = b /\ Stage(r) <= entry.checkpoint
              /\ entry.checkpoint \in CANDIDATES_READY .. COMPLETE
          BY <1>0, <1>2, <3>3, <4>2, LockedIn
        <5>2. status = "READY" => entry.checkpoint >= REGISTERED
          BY <1>2, <5>1, Numbers
        <5> QED
          BY <5>1, <5>2
      <4> QED
        BY <1>2, <2>2, <2>4, <3>1, <3>3, <4>1, <4>2
    <3> QED
      BY <3>2, <3>3
  <2>9. Casting(r)'
    BY <1>0, <1>1, <2>1, <2>5, <2>6, OldStays
       DEF Stores, Keeps, Casting, Resting, Evaluating
  <2>10. ASSUME NEW b \in Tokens, Attempt(r) = b PROVE Prepared(r, b)' /\ Selecting(r, b)'
    <3>1. /\ Full(b) => Pick(r)' = Pick(r)
          /\ Firm(b) => Firm(b)' /\ Full(b)
          /\ Doomed(b) => Doomed(b)'
          /\ Stage(r)' = Stage(r) /\ ex'[r].mine = ex[r].mine
      BY <1>0, <2>5, <2>6, <2>10, StoresKeep DEF Stores
    <3>2. status = "READY" => b \in Selectable'
      BY <2>2, <2>4, <2>10 DEF Selectable
    <3>3. Prepared(r, b)'
      BY <1>2, <2>6, <2>10, <3>1 DEF Prepared, Framing, Parenting, Evaluating
    <3>4. Selecting(r, b)'
      BY <1>2, <2>3, <2>6, <2>10, <3>1, <3>2 DEF Selecting, Storing, Choosing, Registering,
         Closing
    <3> QED
      BY <3>3, <3>4
  <2>11. RunOK(r)'
    BY <1>0, <2>5, <2>6, <2>7, <2>9, <2>10, StoresGo DEF Resting
  <2>12. Counted'
    BY <1>0, <2>3, <2>6, CountedStays DEF Counting, Keeps, BeforeFrame, BeforeParent
  <2> QED
    BY <1>0, <2>5, <2>6, <2>7, <2>8, <2>11, <2>12, StoresMove, StepOK
       DEF Stores, Written, Keeps
<1> QED
  BY <1>2, <1>3, <1>4 DEF StoreBuild

-----------------------------------------------------------------------------
(* The claim goes on.                                                      *)

\* The reference each checkpoint locks.
LEMMA SuppliedAt ==
    /\ Supplied(1) = {"frame"} /\ Supplied(2) = {"parent"} /\ Supplied(3) = {}
    /\ \A k \in 4 .. 6 : Supplied(k) = {"decision"}
BY Numbers DEF Supplied

\* The references an advance locks.
LEMMA LockedRefs ==
    ASSUME NEW row \in Rows, NEW m \in 1 .. 6, row.checkpoint = m - 1, NEW v,
           m \in {1, 2} => v \in Tokens,
           m = 4 => v \in Candidates,
           SetOnce(row.refs, m, v)
    PROVE  /\ Locked(row.refs, m, v) \in [RefNames -> RefVals \cup {None}]
           /\ Locked(row.refs, m, v)["frame"] \in Tokens \cup {None}
           /\ Locked(row.refs, m, v)["parent"] \in Tokens \cup {None}
           /\ Locked(row.refs, m, v)["decision"] \in Candidates \cup {None}
           /\ \A n \in RefNames :
                 row.refs[n] # None => Locked(row.refs, m, v)[n] = row.refs[n]
           /\ m \in 4 .. 6 => Locked(row.refs, m, v)["decision"] = v
<1>0. row.refs \in [RefNames -> RefVals \cup {None}]
  BY RowFields
<1>1. /\ row.refs["frame"] \in Tokens \cup {None}
      /\ row.refs["parent"] \in Tokens \cup {None}
      /\ row.refs["decision"] \in Candidates \cup {None}
      /\ m \in {5, 6} => row.refs["decision"] \in Candidates
  BY RowFields
<1>2. Candidates \subseteq RefVals /\ Tokens \subseteq RefVals /\ None \notin RefVals
  BY RunAssumption
<1>3. CASE m = 1
  BY <1>0, <1>1, <1>2, <1>3, SuppliedAt DEF Locked, SetOnce, RefNames
<1>4. CASE m = 2
  BY <1>0, <1>1, <1>2, <1>4, SuppliedAt DEF Locked, SetOnce, RefNames
<1>5. CASE m = 3
  BY <1>0, <1>1, <1>2, <1>5, SuppliedAt DEF Locked, SetOnce, RefNames
<1>6. CASE m \in 4 .. 6
  <2>1. Supplied(m) = {"decision"}
    BY <1>6, SuppliedAt
  <2>2. v \in Candidates
    BY <1>1, <1>2, <1>6, <2>1 DEF SetOnce
  <2> QED
    BY <1>0, <1>1, <1>2, <1>6, <2>1, <2>2 DEF Locked, SetOnce, RefNames
<1> QED
  BY <1>3, <1>4, <1>5, <1>6

\* What an advance has done.
Moved(r, v, step) ==
    /\ ExTyped' /\ Same(r) /\ ex'[r].pc = step /\ ex'[r].mine = entry'
    /\ ex'[r].tok = ex[r].tok /\ ex'[r].old = ex[r].old
    /\ ex'[r].hand = ex[r].hand /\ ex'[r].left = ex[r].left
    /\ entry' \in Rows /\ entry'.attempt = Attempt(r)
    /\ entry'.checkpoint = Stage(r) + 1 /\ Stage(r) \in 0 .. 5
    /\ Stage(r) = 3 => entry'.refs["decision"] = v
    /\ Stage(r) \in 4 .. 5 => entry'.refs["decision"] = ex[r].mine.refs["decision"]
    /\ lapsed' \in BOOLEAN
    /\ Written(r) /\ Grows /\ Forward
    /\ EntryOK' /\ BuildsOK' /\ OneCandidateSelected'

\* An advance is refused, or it takes the claim to the next checkpoint, or finds
\* it COMPLETE; the checkpoint is what the execution has the right to.
LEMMA Advanced ==
    ASSUME IInv, NEW r \in Runs, Awake(r), ex[r].pc # "disown", NEW v, NEW step \in Steps,
           AdvanceTo(r, v, step), UNCHANGED <<input, minted, faults>>, OnlyClaim,
           NEW a \in Tokens, Attempt(r) = a,
           Stage(r) \in 0 .. 5,
           Stage(r) \in {0, 1} => v \in Tokens,
           Stage(r) = 2 => Full(a),
           Stage(r) = 3 => Firm(a) /\ v \in Candidates /\ v \in Decided(a),
           Stage(r) = 4 => lake.models[a][v] # 0,
           Stage(r) = 5 => a \in Selectable
    PROVE  (entry' = entry /\ lapsed' = lapsed /\ Raise(r)) \/ Moved(r, v, step)
<1> DEFINE k == Stage(r)
<1>0. /\ Typed /\ ex[r].mine \in Rows /\ ex[r].mine # None /\ entry \in Rows /\ entry # None
      /\ Holds(r) /\ Follows(r) /\ ex[r].tok # 0 /\ EntryOK /\ BuildsOK
      /\ OneCandidateSelected /\ lapsed \in BOOLEAN
  BY AtWork DEF IInv, Typed
<1>1. UNCHANGED <<input, lake, mlflow, exposed>>
  BY DEF OnlyClaim
<1>2. Grows
  BY <1>1 DEF Grows
<1>3. CASE entry' = entry /\ lapsed' = lapsed /\ Raise(r)
  BY <1>3
<1>4. CASE /\ Completed(r) /\ UNCHANGED ledgerVars
           /\ ex' = [ex EXCEPT ![r].pc = step, ![r].mine = entry]
  <2>1. k = 5 /\ entry.checkpoint = 6 /\ entry' = entry /\ lapsed' = lapsed
    BY <1>4, Numbers DEF Completed, ledgerVars
  <2>2. entry.attempt = a /\ Firm(a)
    BY <1>0, <2>1 DEF BuildsOK
  <2>3. ~Doomed(a) /\ ex[r].mine.refs["decision"] # None
    BY <1>0, <2>1, <2>2, RowFields, RunAssumption DEF Doomed, Firm, Stage
  <2>4. entry.refs["decision"] = ex[r].mine.refs["decision"]
    BY <1>0, <2>3 DEF Follows, RefNames, Attempt
  <2>5. /\ ExTyped' /\ Same(r) /\ ex'[r].pc = step /\ ex'[r].mine = entry
        /\ ex'[r].tok = ex[r].tok /\ ex'[r].old = ex[r].old
        /\ ex'[r].hand = ex[r].hand /\ ex'[r].left = ex[r].left
    BY <1>0, <1>4, HandedMoves
  <2>6. Forward /\ EntryOK' /\ BuildsOK' /\ OneCandidateSelected'
    BY <1>1, <2>1, QuietMoves DEF Quiet
  <2>7. /\ Written(r) /\ lapsed' \in BOOLEAN /\ entry'.checkpoint = k + 1
        /\ entry' \in Rows /\ k \in 0 .. 5 /\ k # 3
    BY <1>0, <2>1 DEF Written
  <2> QED
    BY <1>2, <2>1, <2>2, <2>4, <2>5, <2>6, <2>7 DEF Moved
<1>5. CASE /\ Advance(ex[r].tok, v) /\ lapsed' = FALSE
           /\ ex' = [ex EXCEPT ![r].pc = step, ![r].mine = entry']
  <2>1. entry = ex[r].mine /\ entry.token = ex[r].tok
    BY <1>0, <1>5 DEF Advance, Holds, Awake, Resting
  <2>2. entry.checkpoint = k /\ entry.attempt = a
    BY <2>1 DEF Stage, Attempt
  <2>3. /\ SetOnce(entry.refs, k + 1, v)
        /\ PayloadComplete(k + 1, Locked(entry.refs, k + 1, v))
        /\ entry' = [entry EXCEPT !.checkpoint = k + 1, !.refs = Locked(@, k + 1, v)]
    BY <1>5, <2>2 DEF Advance
  <2>4. /\ entry' \in Rows /\ entry'.attempt = a /\ entry'.token = ex[r].tok
        /\ entry'.checkpoint = k + 1
        /\ \A n \in RefNames : entry.refs[n] # None => entry'.refs[n] = entry.refs[n]
        /\ k \in 3 .. 5 => entry'.refs["decision"] = v
    <3> DEFINE m == k + 1
               refs == Locked(entry.refs, m, v)
    <3>1. /\ m \in 1 .. 6 /\ entry.checkpoint = m - 1
          /\ m \in {1, 2} => v \in Tokens
          /\ m = 4 => v \in Candidates
          /\ k \in 3 .. 5 => m \in 4 .. 6
      BY <2>2
    <3>2. entry' = [entry EXCEPT !.checkpoint = m, !.refs = refs]
      BY <2>3
    <3>3. /\ SetOnce(entry.refs, m, v) /\ PayloadComplete(m, refs)
          /\ refs = Locked(entry.refs, m, v)
      BY <2>3
    <3> HIDE DEF m
    <3>4. entry \in Rows /\ entry \in Claims
      BY <1>0 DEF Rows
    <3>5. /\ refs \in [RefNames -> RefVals \cup {None}]
          /\ refs["frame"] \in Tokens \cup {None}
          /\ refs["parent"] \in Tokens \cup {None}
          /\ refs["decision"] \in Candidates \cup {None}
          /\ \A n \in RefNames : entry.refs[n] # None => refs[n] = entry.refs[n]
          /\ m \in 4 .. 6 => refs["decision"] = v
      BY <3>1, <3>3, <3>4, LockedRefs
    <3>6. m \in Checkpoints \cup {FAILED}
      BY <3>1, Numbers DEF Checkpoints
    <3> HIDE DEF refs
    <3>7. /\ entry' \in Claims /\ entry'.attempt = entry.attempt
          /\ entry'.token = entry.token /\ entry'.checkpoint = m /\ entry'.refs = refs
      BY <3>2, <3>4, <3>5, <3>6 DEF Claims
    <3>8. entry' \in Rows
      BY <3>3, <3>5, <3>7 DEF Rows
    <3> QED
      BY <2>1, <2>2, <3>1, <3>5, <3>7, <3>8 DEF m
  <2>5. entry' # None /\ (k \in 4 .. 5 => entry'.refs["decision"] = entry.refs["decision"])
    BY <1>0, <2>2, <2>4, RowFields, RunAssumption DEF RefNames
  <2>6. /\ ExTyped' /\ Same(r) /\ ex'[r].pc = step /\ ex'[r].mine = entry'
        /\ ex'[r].tok = ex[r].tok /\ ex'[r].old = ex[r].old
        /\ ex'[r].hand = ex[r].hand /\ ex'[r].left = ex[r].left
    BY <1>0, <1>5, <2>4, HandedMoves
  <2>7. Forward
    BY <2>2, <2>4, <2>5 DEF Forward
  <2>8. /\ Full(a) => Full(a)'
        /\ Firm(a) => Firm(a)'
        /\ Selectable' = Selectable /\ Decided(a)' = Decided(a)
        /\ \A b \in Tokens : (Doomed(b) => Doomed(b)') /\ (Firm(b) => Firm(b)')
    BY <1>1, <1>2, Stable DEF Selectable, Decided
  <2>9. EntryOK'
    <3>1. /\ k \in 3 .. 5 => Full(a)
          /\ k \in 4 .. 5 => Firm(a) /\ entry.refs["decision"] \in Decided(a)
          /\ k = 5 => lake.models[a][entry.refs["decision"]] # 0
      BY <1>0, <2>2, Numbers DEF EntryOK
    <3>2. k + 1 \in 3 .. 6 => Full(a)'
      BY <2>8, <3>1
    <3>3. k + 1 \in 4 .. 6 => Firm(a)' /\ entry'.refs["decision"] \in Decided(a)'
      BY <2>4, <2>5, <2>8, <3>1
    <3>4. k + 1 \in 5 .. 6 => lake'.models[a][entry'.refs["decision"]] # 0
      BY <1>1, <2>4, <2>5, <3>1
    <3>5. k + 1 = 6 => a \in Selectable'
      BY <2>8
    <3> QED
      BY <2>4, <3>2, <3>3, <3>4, <3>5, Numbers DEF EntryOK
  <2>10. BuildsOK'
    <3> SUFFICES ASSUME NEW b \in Tokens
                 PROVE  /\ lake.builds[b] # None /\ lake.builds[b].status = "FAILED" =>
                              Doomed(b)'
                        /\ b \in Selectable =>
                              /\ Firm(b)'
                              /\ entry' # None /\ entry'.attempt = b
                              /\ entry'.checkpoint \in CANDIDATES_READY .. COMPLETE
                              /\ lake.builds[b].status = "READY" =>
                                     entry'.checkpoint >= REGISTERED
      BY <1>1, <2>8 DEF BuildsOK
    <3>1. /\ lake.builds[b] # None /\ lake.builds[b].status = "FAILED" => Doomed(b)
          /\ b \in Selectable =>
                /\ Firm(b) /\ b = a /\ k \in 3 .. 6
                /\ lake.builds[b].status = "READY" => k >= 5
      BY <1>0, <2>2, Numbers DEF BuildsOK
    <3> QED
      BY <2>4, <2>5, <2>8, <3>1, Numbers
  <2>11. OneCandidateSelected'
    <3> SUFFICES ASSUME NEW b \in Tokens, NEW c \in Candidates,
                        c \in exposed[b] \/ mlflow.versions[b][c] > 0
                 PROVE  /\ entry' # None /\ entry'.attempt = b
                        /\ entry'.checkpoint \in SELECTION_LOCKED .. COMPLETE
                        /\ entry'.refs["decision"] = c
      BY <1>1 DEF OneCandidateSelected
    <3>1. entry.attempt = b /\ entry.checkpoint \in 4 .. 6 /\ entry.refs["decision"] = c
      BY <1>0, Numbers DEF OneCandidateSelected
    <3> QED
      BY <2>2, <2>4, <2>5, <3>1, Numbers
  <2>12. Written(r) /\ lapsed' \in BOOLEAN
    BY <1>0, <1>5, <2>4, <2>5 DEF Written
  <2>13. /\ k = 3 => entry'.refs["decision"] = v
         /\ k \in 4 .. 5 => entry'.refs["decision"] = ex[r].mine.refs["decision"]
    BY <2>1, <2>4, <2>5
  <2> QED
    BY <1>2, <2>4, <2>6, <2>7, <2>9, <2>10, <2>11, <2>12, <2>13 DEF Moved
<1> QED
  BY <1>3, <1>4, <1>5 DEF AdvanceTo, ledgerVars

\* A COMPLETE claim is not advanced.
LEMMA NotAdvanced ==
    ASSUME IInv, NEW r \in Runs, Awake(r), ex[r].pc # "disown", NEW v, NEW step,
           AdvanceTo(r, v, step), Stage(r) = COMPLETE
    PROVE  entry' = entry /\ lapsed' = lapsed /\ Raise(r)
<1>1. Holds(r)
  BY AtWork
<1>2. ~Advance(ex[r].tok, v)
  BY <1>1 DEF Advance, Holds, Awake, Resting, Terminal, Stage
<1>3. ~Completed(r)
  BY Numbers DEF Completed
<1> QED
  BY <1>2, <1>3 DEF AdvanceTo, ledgerVars

\* What an execution can rely on after an advance.
LEMMA MovedKeeps ==
    ASSUME IInv, NEW r \in Runs, Awake(r), NEW v, NEW step, Moved(r, v, step), OnlyClaim,
           NEW a \in Tokens, Attempt(r) = a
    PROVE  /\ Stage(r)' = Stage(r) + 1 /\ ex'[r].mine # None /\ ex'[r].mine.attempt = a
           /\ Full(a) => Full(a)' /\ Pick(r)' = Pick(r)
           /\ Firm(a) => Firm(a)' /\ Full(a) /\ Pick(r) \in Candidates
           /\ lake' = lake
<1>1. Stage(r)' = Stage(r) + 1 /\ ex'[r].mine.attempt = a /\ ex'[r].mine # None /\ Grows
  BY RowFields DEF Moved, Stage
<1>2. Full(a) => Pick(r)' = Pick(r)
  BY <1>1, PickStays
<1>3. Firm(a) => Pick(r) \in Candidates
  BY AtWork, FirmPick
<1> QED
  BY <1>1, <1>2, <1>3, Stable DEF OnlyClaim, Firm

\* After an advance it remains to see to the next step of the execution.
LEMMA MovedOK ==
    ASSUME IInv, NEW r \in Runs, Awake(r), NEW v, NEW step, Moved(r, v, step), OnlyClaim,
           UNCHANGED <<input, minted, faults>>, step \notin Resting \cup {"claim"},
           step \in BeforeFrame => ex[r].pc \in BeforeFrame,
           step \in BeforeParent => ex[r].pc \in BeforeParent,
           Casting(r)',
           \A a \in Tokens : Attempt(r) = a => Prepared(r, a)' /\ Selecting(r, a)'
    PROVE  IInv'
<1>1. Typed'
  BY DEF IInv, Typed, Moved, OnlyClaim, ExTyped
<1>2. Counted'
  BY CountedStays DEF Counting, Moved, OnlyClaim
<1>3. RunOK(r)'
  <2>1. Holds(r) /\ entry' # None
    BY AtWork, RowFields DEF Moved
  <2>2. Holds(r)'
    BY <2>1 DEF Holds, Moved, Same, Awake
  <2>3. Follows(r)'
    <3>1. entry'.checkpoint # FAILED /\ entry'.checkpoint <= entry'.checkpoint
      BY Numbers DEF Moved
    <3> QED
      BY <2>1, <3>1 DEF Follows, Moved
  <2>4. Reached(r)'
    BY DEF Reached, Moved
  <2> QED
    BY <2>2, <2>3, <2>4 DEF RunOK
<1> QED
  BY <1>1, <1>2, <1>3, StepOK DEF Moved

\* The frame and the parent run are bound, the candidates closed.
LEMMA BindOK ==
    ASSUME IInv, NEW r \in Runs, BindFrame(r) \/ BindParent(r) \/ CandidatesReady(r)
    PROVE  IInv'
<1> DEFINE a == Attempt(r)
<1>0. /\ ex[r].pc \in {"bind", "bindparent", "candidates"} /\ Awake(r) /\ OnlyClaim
      /\ UNCHANGED <<input, minted, faults>> /\ Typed
      /\ lapsed \in BOOLEAN /\ mlflow \in Trackers /\ faults \in 0 .. MaxFaults
  BY DEF BindFrame, BindParent, CandidatesReady, At, Awake, Resting, IInv, Typed
<1>1. Casting(r) /\ Prepared(r, a) /\ a \in Tokens
  BY <1>0, AtWork
<1>2. PICK v \in Tokens \cup {None}, step \in {"readframe", "enter", "recommend"} :
          /\ AdvanceTo(r, v, step)
          /\ \/ ex[r].pc = "bind" /\ step = "readframe" /\ Stage(r) = 0 /\ v \in Tokens
             \/ ex[r].pc = "bindparent" /\ step = "enter" /\ Stage(r) = 1 /\ v \in Tokens
             \/ ex[r].pc = "candidates" /\ step = "recommend" /\ Stage(r) = 2 /\ Full(a)
  <2>1. CASE BindFrame(r)
    BY <1>1, <2>1, Numbers DEF BindFrame, At, Casting, Prepared, Framing
  <2>2. CASE BindParent(r)
    BY <1>1, <2>2, Numbers DEF BindParent, At, Casting, Prepared, Parenting
  <2>3. CASE CandidatesReady(r)
    BY <1>1, <2>3, Numbers DEF CandidatesReady, At, Prepared
  <2> QED
    BY <2>1, <2>2, <2>3
<1>3. step \in Steps /\ step \notin Resting \cup {"claim"} /\ ex[r].pc # "disown"
  BY <1>0 DEF Steps, Inside, Resting
<1>4. (entry' = entry /\ lapsed' = lapsed /\ Raise(r)) \/ Moved(r, v, step)
  BY <1>0, <1>1, <1>2, <1>3, Advanced
<1>5. CASE entry' = entry /\ lapsed' = lapsed /\ Raise(r)
  <2>1. Quiet /\ mlflow' = mlflow
    BY <1>0, <1>5 DEF Quiet, OnlyClaim
  <2> QED
    BY <1>0, <1>5, <2>1, QuietStop
<1>6. CASE Moved(r, v, step)
  <2>1. ex'[r].pc = step /\ ex'[r].old = ex[r].old /\ Grows
    BY <1>6 DEF Moved
  <2>2. Casting(r)'
    BY <1>0, <1>1, <1>2, <2>1, OldStays
       DEF Casting, Resting, Reviewing, Choosing, Registering, Evaluating
  <2>3. ASSUME NEW b \in Tokens, Attempt(r) = b PROVE Prepared(r, b)' /\ Selecting(r, b)'
    <3>1. Stage(r)' = Stage(r) + 1 /\ (Full(b) => Full(b)')
      BY <1>0, <1>6, <2>3, MovedKeeps
    <3>2. /\ step = "readframe" => Stage(r)' \in FRAME_READY .. REGISTERED
          /\ step = "enter" => Stage(r)' \in PARENT_READY .. REGISTERED
          /\ step = "recommend" => Stage(r)' \in CANDIDATES_READY .. REGISTERED
      BY <1>2, <3>1, Numbers
    <3> QED
      BY <1>2, <2>1, <2>3, <3>1, <3>2 DEF Prepared, Selecting, Framing, Parenting,
         Evaluating, Storing, Choosing, Registering, Closing
  <2> QED
    BY <1>0, <1>2, <1>3, <1>6, <2>2, <2>3, MovedOK DEF BeforeFrame, BeforeParent
<1> QED
  BY <1>4, <1>5, <1>6

\* A step that leaves all but the lease as it was, and ends the execution.
LEMMA LeaseStop ==
    ASSUME IInv, NEW r \in Runs, OnlyClaim, UNCHANGED <<input, minted, faults>>,
           entry' = entry, lapsed' \in BOOLEAN, End(r) \/ Return(r) \/ Raise(r)
    PROVE  IInv'
<1>1. Quiet /\ mlflow' = mlflow
  BY DEF Quiet, OnlyClaim
<1>2. faults \in 0 .. MaxFaults /\ mlflow \in Trackers
  BY DEF IInv, Typed
<1> QED
  BY <1>1, <1>2, QuietStop

\* The selection is locked: to a candidate that has been decided on.
LEMMA LockOK ==
    ASSUME IInv, NEW r \in Runs, Lock(r)
    PROVE  IInv'
<1> DEFINE a == Attempt(r)
           c == Pick(r)
<1>0. /\ ex[r].pc = "lock" /\ Awake(r) /\ OnlyClaim /\ UNCHANGED <<input, minted, faults>>
      /\ Typed /\ lapsed \in BOOLEAN /\ AdvanceTo(r, c, "test")
  BY DEF Lock, At, Awake, Resting, IInv, Typed
<1>1. Casting(r) /\ Prepared(r, a) /\ Selecting(r, a) /\ a \in Tokens
  BY <1>0, AtWork
<1>2. Firm(a) /\ Stage(r) = 3 /\ c \in Decided(a) /\ c \in Candidates
  <2>1. Firm(a) /\ Stage(r) = 3 /\ c \in Decided(a)
    BY <1>0, <1>1, Numbers DEF Selecting, Choosing
  <2> QED
    BY <1>0, <1>1, <2>1, FirmPick
<1>3. "test" \in Steps /\ "test" \notin Resting \cup {"claim"} /\ ex[r].pc # "disown"
  BY <1>0 DEF Steps, Inside, Resting
<1>4. (entry' = entry /\ lapsed' = lapsed /\ Raise(r)) \/ Moved(r, c, "test")
  BY <1>0, <1>1, <1>2, <1>3, Advanced
<1>5. CASE Moved(r, c, "test")
  <2>1. /\ ex'[r].pc = "test" /\ ex'[r].old = ex[r].old /\ Grows
        /\ ex'[r].mine.refs["decision"] = c
    BY <1>2, <1>5 DEF Moved
  <2>2. Casting(r)'
    BY <1>0, <1>1, <2>1, OldStays
       DEF Casting, Resting, Reviewing, Choosing, Registering, Evaluating
  <2>3. ASSUME NEW b \in Tokens, Attempt(r) = b PROVE Prepared(r, b)' /\ Selecting(r, b)'
    <3>1. Stage(r)' = Stage(r) + 1 /\ Firm(b)' /\ Pick(r)' = c
      BY <1>0, <1>2, <1>5, <2>3, MovedKeeps
    <3>2. Stage(r)' \in SELECTION_LOCKED .. COMPLETE
      BY <1>2, <3>1, Numbers
    <3> QED
      BY <2>1, <3>1, <3>2 DEF Prepared, Selecting, Framing, Parenting, Evaluating, Storing,
         Choosing, Registering, Closing
  <2> QED
    BY <1>0, <1>3, <1>5, <2>2, <2>3, MovedOK DEF BeforeFrame, BeforeParent
<1> QED
  BY <1>0, <1>4, <1>5, LeaseStop

\* The model is stored: the claim goes on to REGISTERED, if it is not there.
LEMMA RegisteredOK ==
    ASSUME IInv, NEW r \in Runs, Registered(r)
    PROVE  IInv'
<1> DEFINE a == Attempt(r)
           c == Pick(r)
<1>0. /\ ex[r].pc = "registered" /\ Awake(r) /\ OnlyClaim
      /\ UNCHANGED <<input, minted, faults>>
      /\ Typed /\ lapsed \in BOOLEAN /\ mlflow \in Trackers
  BY DEF Registered, At, Awake, Resting, IInv, Typed
<1>1. Casting(r) /\ Prepared(r, a) /\ Selecting(r, a) /\ a \in Tokens
  BY <1>0, AtWork
<1>2. /\ Firm(a) /\ Stage(r) \in SELECTION_LOCKED .. COMPLETE /\ lake.models[a][c] # 0
      /\ ex[r].mine.refs["decision"] = c
  BY <1>0, <1>1 DEF Selecting
<1>3. PICK next \in {"logparent", "ready"} :
          /\ next = IF r \in Reviewers THEN "logparent" ELSE "ready"
          /\ IF Stage(r) = SELECTION_LOCKED THEN AdvanceTo(r, c, next)
             ELSE UNCHANGED ledgerVars /\ Go(r, next)
  BY DEF Registered
<1>4. /\ next \in Steps /\ next \notin Resting \cup {"claim"} /\ ex[r].pc # "disown"
      /\ next \notin BeforeFrame /\ next \notin BeforeParent
  BY <1>0, <1>3 DEF Steps, Inside, Resting, BeforeFrame, BeforeParent
<1>5. CASE Stage(r) = SELECTION_LOCKED /\ AdvanceTo(r, c, next)
  <2>1. (entry' = entry /\ lapsed' = lapsed /\ Raise(r)) \/ Moved(r, c, next)
    BY <1>0, <1>1, <1>2, <1>4, <1>5, Advanced, Numbers
  <2>2. CASE Moved(r, c, next)
    <3>1. /\ ex'[r].pc = next /\ ex'[r].old = ex[r].old /\ Grows
          /\ ex'[r].mine.refs["decision"] = c
      BY <1>2, <1>5, <2>2, Numbers DEF Moved
    <3>2. Casting(r)'
      BY <1>0, <1>1, <1>3, <3>1, OldStays
         DEF Casting, Resting, Reviewing, Choosing, Registering, Evaluating
    <3>3. ASSUME NEW b \in Tokens, Attempt(r) = b PROVE Prepared(r, b)' /\ Selecting(r, b)'
      <4>1. Stage(r)' = Stage(r) + 1 /\ Firm(b)' /\ Pick(r)' = c /\ lake' = lake
        BY <1>0, <1>2, <2>2, <3>3, MovedKeeps
      <4>2. /\ Stage(r)' \in SELECTION_LOCKED .. COMPLETE
            /\ Stage(r)' \in REGISTERED .. COMPLETE
        BY <1>5, <4>1, Numbers
      <4> QED
        BY <1>2, <1>3, <3>1, <3>3, <4>1, <4>2 DEF Prepared, Selecting, Framing, Parenting,
           Evaluating, Storing, Choosing, Registering, Closing
    <3> QED
      BY <1>0, <1>4, <2>2, <3>2, <3>3, MovedOK
  <2> QED
    BY <1>0, <2>1, <2>2, LeaseStop
<1>6. CASE Stage(r) # SELECTION_LOCKED /\ UNCHANGED ledgerVars /\ Go(r, next)
  <2>1. Quiet /\ mlflow' = mlflow /\ lapsed' = lapsed
    BY <1>0, <1>6 DEF Quiet, OnlyClaim, ledgerVars
  <2>2. /\ ExTyped' /\ Same(r) /\ Keeps(r) /\ ex'[r].pc = next
    BY <1>0, <1>4, <1>6, GoMoves
  <2>3. Casting(r)'
    BY <1>0, <1>1, <1>3, <2>1, <2>2, OldStays, QuietMoves
       DEF Keeps, Casting, Resting, Reviewing, Choosing, Registering, Evaluating
  <2>4. Stage(r) \in REGISTERED .. COMPLETE
    BY <1>2, <1>6, Numbers
  <2>5. ASSUME NEW b \in Tokens, Attempt(r) = b PROVE Prepared(r, b)' /\ Selecting(r, b)'
    <3>1. Stage(r)' = Stage(r) /\ Firm(b)' /\ Pick(r)' = c /\ lake' = lake
          /\ ex'[r].mine = ex[r].mine
      BY <1>0, <1>2, <2>1, <2>2, <2>5, QuietKeeps
    <3> QED
      BY <1>2, <1>3, <2>2, <2>4, <2>5, <3>1 DEF Prepared, Selecting, Framing, Parenting,
         Evaluating, Storing, Choosing, Registering, Closing
  <2> QED
    BY <1>0, <1>4, <2>1, <2>2, <2>3, <2>5, QuietOn
<1> QED
  BY <1>3, <1>5, <1>6

\* Automatic research, or the reviewer, closes the claim of a stored build.
LEMMA CompleteOK ==
    ASSUME IInv, NEW r \in Runs, Complete(r) \/ Close(r)
    PROVE  IInv'
<1> DEFINE a == Attempt(r)
           c == Pick(r)
<1>0. /\ ex[r].pc \in {"complete", "closing"} /\ Awake(r) /\ OnlyClaim
      /\ UNCHANGED <<input, minted, faults>> /\ Typed /\ lapsed \in BOOLEAN
  BY DEF Complete, Close, At, Awake, Resting, IInv, Typed
<1>1. Casting(r) /\ Prepared(r, a) /\ Selecting(r, a) /\ a \in Tokens
  BY <1>0, AtWork
<1>2. Firm(a) /\ Stage(r) \in REGISTERED .. COMPLETE
  BY <1>0, <1>1 DEF Selecting, Closing
<1>3. a \in Selectable
  <2>1. CASE ex[r].pc = "complete"
    BY <1>1, <2>1 DEF Selecting
  <2>2. CASE ex[r].pc = "closing"
    <3>1. ex[r].old # 0 /\ ex[r].old \in Selectable /\ ex[r].old \in Tokens
      BY <1>1, <2>2 DEF Casting, Resting, Selectable
    <3>2. entry.attempt = ex[r].old
      BY <3>1 DEF IInv, BuildsOK
    <3>3. Stage(r) \in CANDIDATES_READY .. COMPLETE
      BY <1>2, Numbers
    <3>4. entry.attempt = a
      BY <1>0, <1>1, <1>2, <3>3, LockedIn
    <3> QED
      BY <3>1, <3>2, <3>4
  <2> QED
    BY <1>0, <2>1, <2>2
<1>4. PICK step \in {"finalize", "reviewed"} :
          /\ AdvanceTo(r, c, step)
          /\ step = "reviewed" => r \in Reviewers
          /\ step = "finalize" => r \notin Reviewers
  BY <1>1 DEF Complete, Close, At, Casting, Reviewing, Resting, Choosing, Registering
<1>5. /\ step \in Steps /\ step \notin Resting \cup {"claim"} /\ ex[r].pc # "disown"
      /\ step \notin BeforeFrame /\ step \notin BeforeParent
  BY <1>0 DEF Steps, Inside, Resting, BeforeFrame, BeforeParent
<1>6. CASE Stage(r) = COMPLETE
  BY <1>0, <1>4, <1>5, <1>6, NotAdvanced, LeaseStop
<1>7. CASE Stage(r) = REGISTERED
  <2>1. (entry' = entry /\ lapsed' = lapsed /\ Raise(r)) \/ Moved(r, c, step)
    BY <1>0, <1>1, <1>3, <1>4, <1>5, <1>7, Advanced, Numbers
  <2>2. CASE Moved(r, c, step)
    <3>1. /\ ex'[r].pc = step /\ ex'[r].old = ex[r].old /\ Grows
      BY <2>2 DEF Moved
    <3>2. Casting(r)'
      BY <1>0, <1>1, <1>4, <3>1, OldStays
         DEF Casting, Resting, Reviewing, Choosing, Registering, Evaluating
    <3>3. ASSUME NEW b \in Tokens, Attempt(r) = b PROVE Prepared(r, b)' /\ Selecting(r, b)'
      BY <3>1 DEF Prepared, Selecting, Framing, Parenting, Evaluating, Storing,
         Choosing, Registering, Closing
    <3> QED
      BY <1>0, <1>5, <2>2, <3>2, <3>3, MovedOK
  <2> QED
    BY <1>0, <2>1, <2>2, LeaseStop
<1>8. Stage(r) \in {REGISTERED, COMPLETE}
  BY <1>2, Numbers
<1> QED
  BY <1>6, <1>7, <1>8

\* The claim is brought where the stored build says it should be.
LEMMA SettleOK ==
    ASSUME IInv, NEW r \in Runs, Settle(r)
    PROVE  IInv'
<1> DEFINE a == Attempt(r)
<1>0. /\ ex[r].pc = "settle" /\ Awake(r) /\ OnlyClaim
      /\ UNCHANGED <<input, minted, faults>> /\ Typed /\ lapsed \in BOOLEAN
  BY DEF Settle, At, Awake, Resting, IInv, Typed
<1>1. /\ Casting(r) /\ Holds(r) /\ a \in Tokens /\ ex[r].mine \in Rows
      /\ entry # None /\ entry \in Rows
  BY <1>0, AtWork
<1>2. /\ ex[r].old # 0 /\ ex[r].old \in Selectable /\ ex[r].old \in Tokens
      /\ entry.attempt = ex[r].old /\ r \notin Reviewers
  <2>1. ex[r].old # 0 /\ ex[r].old \in Selectable
    BY <1>0, <1>1 DEF Casting
  <2>2. r \notin Reviewers
    BY <1>0, <1>1 DEF Casting, Reviewing, Resting, Choosing, Registering
  <2> QED
    BY <2>1, <2>2 DEF Selectable, IInv, BuildsOK
<1>3. CASE entry' = entry /\ lapsed' \in BOOLEAN /\ (End(r) \/ Return(r) \/ Raise(r))
  BY <1>0, <1>3, LeaseStop
<1>4. CASE Stage(r) = REGISTERED /\ AdvanceTo(r, entry.refs.decision, "settle")
  <2> DEFINE v == entry.refs.decision
  <2>1. Stage(r) = 5 /\ "settle" \in Steps
    BY <1>4, Numbers DEF Steps
  <2>2. ex'[r].pc = "settle" /\ ex'[r].old = ex[r].old /\ Grows => Casting(r)'
    BY <1>1, <1>2, OldStays
       DEF Casting, Resting, Reviewing, Choosing, Registering, Evaluating
  <2>3. ASSUME ex'[r].pc = "settle", NEW b \in Tokens
        PROVE  Prepared(r, b)' /\ Selecting(r, b)'
    BY <2>3 DEF Prepared, Selecting, Framing, Parenting, Evaluating, Storing, Choosing,
       Registering, Closing
  <2>4. CASE a \in Selectable
    <3>1. (entry' = entry /\ lapsed' = lapsed /\ Raise(r)) \/ Moved(r, v, "settle")
      BY <1>0, <1>1, <1>4, <2>1, <2>4, Advanced
    <3>2. CASE Moved(r, v, "settle")
      <4>1. Casting(r)' /\ ex'[r].pc = "settle"
        BY <2>2, <3>2 DEF Moved
      <4> QED
        BY <1>0, <2>3, <3>2, <4>1, MovedOK DEF Resting, BeforeFrame, BeforeParent
    <3> QED
      BY <1>0, <3>1, <3>2, LeaseStop
  <2>5. CASE a \notin Selectable
    <3>1. ~Advance(ex[r].tok, v)
      BY <1>0, <1>1, <1>2, <2>5 DEF Advance, Holds, Resting, Attempt
    <3>2. CASE Raise(r) /\ UNCHANGED ledgerVars
      BY <1>0, <3>2, LeaseStop DEF ledgerVars
    <3>3. CASE /\ Completed(r) /\ UNCHANGED ledgerVars
               /\ ex' = [ex EXCEPT ![r].pc = "settle", ![r].mine = entry]
      <4>1. /\ ExTyped' /\ Same(r) /\ ex'[r].pc = "settle" /\ ex'[r].mine = entry
            /\ ex'[r].tok = ex[r].tok /\ ex'[r].old = ex[r].old
        BY <1>0, <1>1, <2>1, <3>3, HandedMoves
      <4>2. Quiet /\ lapsed' = lapsed /\ mlflow' = mlflow
        BY <1>0, <3>3 DEF Quiet, OnlyClaim, ledgerVars
      <4>3. Casting(r)'
        BY <2>2, <4>1, <4>2, QuietMoves
      <4>4. Holds(r)'
        BY <1>0, <1>1, <4>1, <4>2 DEF Holds, Same, Resting, Quiet
      <4>5. Follows(r)'
        <5>1. entry.checkpoint = 6 /\ entry.checkpoint # FAILED
              /\ entry.checkpoint <= entry.checkpoint
          BY <3>3, Numbers DEF Completed
        <5> QED
          BY <1>1, <4>1, <4>2, <5>1 DEF Follows, Quiet
      <4>6. Reached(r)'
        BY <2>3, <4>1 DEF Reached
      <4>7. RunOK(r)'
        BY <4>3, <4>4, <4>5, <4>6 DEF RunOK
      <4>8. Counting(r) /\ faults \in 0 .. MaxFaults /\ mlflow \in Trackers
        BY <1>0, <4>1, <4>2 DEF Counting, BeforeFrame, BeforeParent, Quiet, Typed
      <4> QED
        BY <1>0, <4>1, <4>2, <4>7, <4>8, QuietStep
    <3> QED
      BY <1>4, <3>1, <3>2, <3>3 DEF AdvanceTo
  <2> QED
    BY <2>4, <2>5
<1> QED
  BY <1>0, <1>3, <1>4 DEF Settle, Releases, Refused, ledgerVars

-----------------------------------------------------------------------------
(* The claim fails, is taken over, or is opened.                           *)

\* The claim is written, and with it an execution stops.
LEMMA WriteStop ==
    ASSUME IInv, NEW r \in Runs, OnlyClaim, UNCHANGED <<input, minted, faults>>,
           End(r) \/ Raise(r), entry' \in Rows \cup {None}, lapsed' \in BOOLEAN,
           Forward, Written(r), EntryOK', BuildsOK', OneCandidateSelected'
    PROVE  IInv'
<1>1. Typed /\ Grows
  BY DEF IInv, OnlyClaim, Grows
<1>2. ExTyped' /\ Same(r) /\ (Stopped(r) \/ Disowns(r))
  BY <1>1, EndMoves, RaiseMoves
<1>3. Typed'
  BY <1>1, <1>2 DEF Typed, ExTyped, OnlyClaim
<1>4. RunOK(r)'
  BY <1>1, <1>2, <1>3, StopOK, DisownOK
<1>5. Counted'
  BY <1>2, CountedStays DEF Counting, OnlyClaim, Stopped, Disowns, Keeps, BeforeFrame,
     BeforeParent
<1> QED
  BY <1>1, <1>2, <1>3, <1>4, <1>5, StepOK DEF Stopped, Disowns, Keeps

\* A claim fails whose attempt has failed: nothing has been selected from it.
LEMMA FailedStop ==
    ASSUME IInv, NEW r \in Runs, Awake(r), ex[r].pc # "disown", OnlyClaim,
           UNCHANGED <<input, minted, faults>>, End(r) \/ Raise(r), FailsClaim(r),
           NEW a \in Tokens, Attempt(r) = a, Doomed(a)
    PROVE  IInv'
<1>0. /\ Typed /\ entry \in Rows /\ entry # None /\ Holds(r) /\ ex[r].tok # 0
      /\ EntryOK /\ BuildsOK /\ OneCandidateSelected /\ lapsed \in BOOLEAN
  BY AtWork DEF IInv, Typed
<1>1. CASE UNCHANGED ledgerVars
  BY <1>0, <1>1, LeaseStop DEF ledgerVars
<1>2. CASE Fail(ex[r].tok) /\ UNCHANGED lapsed
  <2>1. entry = ex[r].mine /\ entry.token = ex[r].tok
    BY <1>0, <1>2 DEF Fail, Holds, Awake, Resting
  <2>2. entry.attempt = a /\ entry.checkpoint \in 0 .. 7
    BY <1>0, <2>1, RowFields DEF Attempt
  <2>3. /\ entry' \in Rows /\ entry' # None /\ entry'.attempt = a /\ entry'.checkpoint = 7
        /\ entry'.token = ex[r].tok
    <3>1. entry \in Claims /\ PayloadComplete(FAILED, entry.refs)
      BY <1>0, Numbers DEF Rows, PayloadComplete, NeededFrom, RefNames
    <3>2. entry' = [entry EXCEPT !.checkpoint = FAILED]
      BY <1>2 DEF Fail
    <3>3. /\ entry' \in Claims /\ entry'.checkpoint = FAILED /\ entry'.refs = entry.refs
          /\ entry'.attempt = entry.attempt /\ entry'.token = entry.token
      BY <3>1, <3>2 DEF Claims
    <3>4. entry' \in Rows
      BY <1>0, <3>1, <3>3 DEF Rows
    <3> QED
      BY <2>1, <2>2, <3>3, <3>4, RowFields, Numbers
  <2>3a. Grows /\ Selectable' = Selectable
    BY DEF OnlyClaim, Grows, Selectable
  <2>4. /\ \A b \in Tokens : (Doomed(b) => Doomed(b)') /\ (Firm(b) => Firm(b)')
        /\ Doomed(a)'
    BY <2>3a, Stable
  <2>5. Forward
    BY <2>2, <2>3 DEF Forward
  <2>6. EntryOK'
    <3>1. Full(a)'
      BY <2>4 DEF Doomed
    <3> QED
      BY <2>3, <2>4, <3>1, Numbers DEF EntryOK
  <2>7. a \notin Selectable
    BY <1>0 DEF BuildsOK, Firm, Doomed
  <2>8. BuildsOK'
    <3>1. \A b \in Tokens : b \in Selectable => b = a
      BY <1>0, <2>2 DEF BuildsOK
    <3> QED
      BY <1>0, <2>3a, <2>4, <2>7, <3>1 DEF BuildsOK, OnlyClaim
  <2>9. OneCandidateSelected'
    <3>1. ASSUME NEW b \in Tokens, NEW c \in Candidates,
                 c \in exposed[b] \/ mlflow.versions[b][c] > 0
          PROVE  FALSE
      <4>1. entry.attempt = b /\ entry.checkpoint \in SELECTION_LOCKED .. COMPLETE
        BY <1>0, <3>1 DEF OneCandidateSelected
      <4>2. Firm(a)
        BY <1>0, <2>2, <4>1 DEF EntryOK
      <4> QED
        BY <4>2 DEF Firm, Doomed
    <3> QED
      BY <3>1 DEF OneCandidateSelected, OnlyClaim
  <2> QED
    BY <1>0, <1>2, <2>3, <2>5, <2>6, <2>8, <2>9, WriteStop DEF Written
<1> QED
  BY <1>1, <1>2 DEF FailsClaim

\* FailClaim fails the claim of an attempt that has failed.
LEMMA FailClaimOK ==
    ASSUME IInv, NEW r \in Runs, FailClaim(r)
    PROVE  IInv'
<1>1. /\ ex[r].pc = "failclaim" /\ Awake(r) /\ OnlyClaim
      /\ UNCHANGED <<input, minted, faults>> /\ FailsClaim(r) /\ Raise(r)
  BY DEF FailClaim, At, Awake, Resting
<1>2. Attempt(r) \in Tokens /\ Prepared(r, Attempt(r))
  BY <1>1, AtWork
<1>3. Doomed(Attempt(r))
  BY <1>1, <1>2 DEF Prepared
<1> QED
  BY <1>1, <1>2, <1>3, FailedStop

\* A FAILED build is that of an attempt that has failed.
LEMMA CheckOK ==
    ASSUME IInv, NEW r \in Runs, Check(r)
    PROVE  IInv'
<1> DEFINE a == Attempt(r)
           build == lake.builds[a]
<1>0. /\ ex[r].pc = "check" /\ Awake(r) /\ OnlyClaim /\ UNCHANGED <<input, minted, faults>>
      /\ Typed /\ lapsed \in BOOLEAN /\ mlflow \in Trackers
  BY DEF Check, At, Awake, Resting, IInv, Typed
<1>1. Casting(r) /\ Prepared(r, a) /\ a \in Tokens /\ Stage(r) \in 0 .. 6
  BY <1>0, AtWork
<1>2. CASE build # None /\ build.status = "FAILED" /\ FailsClaim(r) /\ End(r)
  <2>1. Doomed(a)
    BY <1>1, <1>2 DEF IInv, BuildsOK
  <2> QED
    BY <1>0, <1>1, <1>2, <2>1, FailedStop
<1>3. CASE UNCHANGED ledgerVars /\ End(r)
  BY <1>0, <1>3, LeaseStop DEF ledgerVars
<1>4. CASE /\ UNCHANGED ledgerVars
           /\ Go(r, IF Stage(r) = CLAIMED THEN "frame" ELSE "readframe")
  <2>1. Quiet /\ mlflow' = mlflow /\ lapsed' = lapsed
    BY <1>0, <1>4 DEF Quiet, OnlyClaim, ledgerVars
  <2>2. /\ ExTyped' /\ Same(r) /\ Keeps(r)
        /\ ex'[r].pc = IF Stage(r) = CLAIMED THEN "frame" ELSE "readframe"
    BY <1>0, <1>4, GoMoves DEF Steps
  <2>3. Casting(r)'
    BY <1>0, <1>1, <2>1, <2>2, OldStays, QuietMoves
       DEF Keeps, Casting, Resting, Reviewing, Choosing, Registering, Evaluating
  <2>4. /\ Stage(r) # CLAIMED => Stage(r) \in FRAME_READY .. REGISTERED
        /\ Stage(r)' = Stage(r)
    <3>1. Stage(r) \in CLAIMED .. REGISTERED
      BY <1>0, <1>1 DEF Prepared
    <3> QED
      BY <1>1, <2>2, <3>1, Numbers DEF Keeps, Stage
  <2>5. \A b \in Tokens : Attempt(r) = b => Prepared(r, b)' /\ Selecting(r, b)'
    BY <2>2, <2>4 DEF Prepared, Selecting, Framing, Parenting, Evaluating,
       Storing, Choosing, Registering, Closing
  <2> QED
    BY <1>0, <2>1, <2>2, <2>3, <2>5, QuietOn DEF Resting, BeforeFrame, BeforeParent
<1> QED
  BY <1>2, <1>3, <1>4 DEF Check

\* What a claim that an execution is handed says.
Claimed(r) ==
    /\ entry' \in Rows /\ entry' # None /\ lapsed' \in BOOLEAN /\ Forward /\ Written(r)
    /\ EntryOK' /\ BuildsOK' /\ OneCandidateSelected'

\* The first claim, or a fresh attempt after a failure: nothing is selectable.
LEMMA Opened ==
    ASSUME IInv, NEW r \in Runs, NEW c \in Codes, ex[r].tok \in Tokens, ex[r].tok # 0,
           Open(r, c, ex[r].tok), lapsed' = FALSE, OnlyClaim, input' = input
    PROVE  Claimed(r)
<1> DEFINE t == ex[r].tok
<1>0. EntryOK /\ BuildsOK /\ OneCandidateSelected /\ entry \in Rows \cup {None}
  BY DEF IInv, Typed
<1>1. entry # None => entry.checkpoint = 7
  BY Numbers DEF Open
<1>2. entry' = Fresh(r, c, t)
  BY DEF Open
<1>3. /\ entry' \in Claims /\ entry'.attempt = t /\ entry'.token = t /\ entry'.checkpoint = 0
      /\ entry'.refs = NoRefs
  BY <1>2, Numbers, RunAssumption DEF Fresh, Claims, Checkpoints, NoRefs, RefNames
<1>4. entry' \in Rows
  BY <1>3, Numbers DEF Rows, NoRefs, RefNames, PayloadComplete, NeededFrom
<1>5. entry' # None
  BY <1>4, RowFields
<1>6. Grows /\ Selectable' = Selectable
  BY DEF OnlyClaim, Grows, Selectable
<1>7. \A b \in Tokens : Doomed(b) => Doomed(b)'
  BY <1>6, Stable
<1>8. \A b \in Tokens : entry # None /\ entry.attempt = b => Doomed(b)
  BY <1>0, <1>1, Numbers DEF EntryOK
<1>9. Forward
  BY <1>5, <1>8 DEF Forward
<1>10. EntryOK'
  BY <1>3, Numbers DEF EntryOK
<1>11. \A b \in Tokens : b \notin Selectable
  BY <1>0, <1>1, Numbers DEF BuildsOK
<1>12. BuildsOK'
  BY <1>0, <1>6, <1>7, <1>11 DEF BuildsOK, OnlyClaim
<1>13. OneCandidateSelected'
  <2>1. ASSUME NEW b \in Tokens, NEW d \in Candidates,
               d \in exposed[b] \/ mlflow.versions[b][d] > 0
        PROVE  FALSE
    BY <1>0, <1>1, <2>1, Numbers DEF OneCandidateSelected
  <2> QED
    BY <2>1 DEF OneCandidateSelected, OnlyClaim
<1> QED
  BY <1>3, <1>4, <1>5, <1>9, <1>10, <1>12, <1>13 DEF Claimed, Written

\* A takeover changes the holder alone.
LEMMA TakenOver ==
    ASSUME IInv, NEW r \in Runs, NEW c \in Codes, ex[r].tok \in Tokens, ex[r].tok # 0,
           TakeOver(r, c, ex[r].tok), lapsed' = FALSE, OnlyClaim, input' = input
    PROVE  Claimed(r)
<1>0. /\ EntryOK /\ BuildsOK /\ OneCandidateSelected /\ entry \in Rows /\ entry # None
  BY DEF IInv, Typed, TakeOver
<1>1. /\ entry' = [entry EXCEPT !.owner = r, !.token = ex[r].tok] /\ entry \in Claims
  BY <1>0 DEF TakeOver, Rows
<1>2. /\ entry' \in Claims /\ entry'.attempt = entry.attempt /\ entry'.token = ex[r].tok
      /\ entry'.checkpoint = entry.checkpoint /\ entry'.refs = entry.refs
  BY <1>1 DEF Claims
<1>3. entry' \in Rows
  BY <1>0, <1>2 DEF Rows
<1>4. entry' # None /\ entry.checkpoint \in 0 .. 7
  BY <1>0, <1>3, RowFields
<1>5. Grows /\ Selectable' = Selectable
  BY DEF OnlyClaim, Grows, Selectable
<1>6. \A b \in Tokens :
          /\ Full(b) => Full(b)'
          /\ Doomed(b) => Doomed(b)'
          /\ Firm(b) => Firm(b)'
          /\ Decided(b)' = Decided(b)
  BY <1>5, Stable DEF OnlyClaim, Decided
<1>7. Forward
  BY <1>2, <1>4 DEF Forward
<1>8. EntryOK'
  BY <1>0, <1>2, <1>5, <1>6 DEF EntryOK, OnlyClaim
<1>9. BuildsOK'
  BY <1>0, <1>2, <1>4, <1>5, <1>6 DEF BuildsOK, OnlyClaim
<1>10. OneCandidateSelected'
  BY <1>0, <1>2, <1>4 DEF OneCandidateSelected, OnlyClaim
<1> QED
  BY <1>2, <1>3, <1>4, <1>7, <1>8, <1>9, <1>10 DEF Claimed, Written

\* The execution that claims, and what it is handed.
LEMMA AcquireOK ==
    ASSUME IInv, NEW r \in Runs, Acquire(r)
    PROVE  IInv'
<1>0. /\ ex[r].pc = "claim" /\ OnlyClaim /\ UNCHANGED <<input, minted, faults>> /\ Typed
      /\ lapsed \in BOOLEAN /\ Holds(r) /\ Casting(r) /\ entry \in Rows \cup {None}
  BY DEF Acquire, At, IInv, RunOK, Typed
<1>1. ex[r].tok # 0 /\ ex[r].tok \in Tokens /\ ex[r].mine = None
  <2>1. ex[r].tok # 0 /\ ex[r].mine = None
    BY <1>0 DEF Holds, Resting
  <2> QED
    BY <1>0, <2>1, ExFields
<1>2. /\ ex[r].old # 0 => ex[r].old \in Selectable /\ ex[r].old \in Tokens
      /\ r \in Reviewers => ex[r].old # 0
  BY <1>0 DEF Casting, Resting, Selectable
<1>3. CodeOf(r) \in Codes
  <2>1. CASE r \in Reviewers
    <3>1. lake.builds[ex[r].old] \in Builds
      BY <1>0, <1>2, <2>1 DEF Selectable, Typed, Lakes
    <3> QED
      BY <2>1, <3>1 DEF CodeOf, Builds
  <2>2. CASE r \notin Reviewers
    BY <1>0, <2>2 DEF CodeOf, Typed, Inputs
  <2> QED
    BY <2>1, <2>2
<1>4. CASE UNCHANGED ledgerVars /\ End(r)
  BY <1>0, <1>4, LeaseStop DEF ledgerVars
<1>5. CASE /\ Claimed(r)
           /\ ex' = IF Route(r, entry') = "raise" THEN [ex EXCEPT ![r] = Idle]
                    ELSE [ex EXCEPT ![r].pc = Route(r, entry'), ![r].mine = entry']
  <2>0. entry' \in Rows /\ entry' # None /\ lapsed' \in BOOLEAN
    BY <1>5 DEF Claimed
  <2>1. entry'.checkpoint \in 0 .. 7
    BY <2>0, RowFields
  <2>2. PICK step \in {"raise", "decide", "yield", "reuse", "reload", "check"} :
            /\ step = Route(r, entry')
            /\ step = "decide" => r \in Reviewers /\ entry'.checkpoint \in 3 .. 6
            /\ step \in {"yield", "reuse"} => r \notin Reviewers /\ ex[r].old # 0
            /\ step = "reload" => r \notin Reviewers /\ entry'.checkpoint = 6
            /\ step = "check" => r \notin Reviewers /\ entry'.checkpoint \in 0 .. 5
    <3>1. CASE r \in Reviewers
      BY <3>1, Numbers DEF Route
    <3>2. CASE r \notin Reviewers /\ ex[r].old # 0
      BY <3>2 DEF Route
    <3>3. CASE r \notin Reviewers /\ ex[r].old = 0
      BY <2>1, <3>3, Numbers DEF Route
    <3> QED
      BY <3>1, <3>2, <3>3
  <2>3. CASE step = "raise"
    BY <1>0, <1>5, <2>2, <2>3, WriteStop DEF Claimed, End
  <2>4. CASE step # "raise"
    <3>1. step \in Steps
      BY <2>4 DEF Steps, Inside
    <3>2. ex' = [ex EXCEPT ![r].pc = step, ![r].mine = entry']
      BY <1>5, <2>2, <2>4
    <3>3. /\ ExTyped' /\ Same(r) /\ ex'[r].pc = step /\ ex'[r].mine = entry'
          /\ ex'[r].tok = ex[r].tok /\ ex'[r].old = ex[r].old
      <4>1. PICK row \in Rows : row = entry'
        BY <2>0
      <4>2. ex' = [ex EXCEPT ![r].pc = step, ![r].mine = row]
        BY <3>2, <4>1
      <4>3. Typed
        BY <1>0
      <4>4. /\ ExTyped' /\ Same(r) /\ ex'[r].pc = step /\ ex'[r].mine = row
            /\ ex'[r].tok = ex[r].tok /\ ex'[r].old = ex[r].old
        BY <3>1, <4>2, <4>3, HandedMoves
      <4> QED
        BY <4>1, <4>4
    <3>4. Grows /\ Selectable' = Selectable
      BY <1>0 DEF Grows, OnlyClaim, Selectable
    <3>5. ASSUME NEW b \in Tokens, ex[r].old = b
          PROVE  Firm(b)' /\ entry'.attempt = b /\ entry'.checkpoint \in 3 .. 6
      <4>1. b \in Selectable'
        BY <1>2, <3>4, <3>5, RunAssumption
      <4> QED
        BY <1>5, <4>1, Numbers DEF Claimed, BuildsOK
    <3>6. entry'.checkpoint \in 0 .. 6
      BY <1>2, <2>1, <2>2, <2>4, <3>5
    <3>7. Typed'
      BY <1>0, <1>5, <3>3 DEF Typed, ExTyped, Claimed, OnlyClaim
    <3>8. Counted'
      BY <1>0, <3>3, CountedStays DEF Counting, OnlyClaim, BeforeFrame, BeforeParent
    <3>9. Holds(r)'
      BY <1>0, <1>1, <2>0, <2>2, <2>4, <3>3 DEF Holds, Same, Resting
    <3>10. Follows(r)'
      BY <2>0, <3>3, <3>6, Numbers DEF Follows
    <3>11. Casting(r)'
      BY <1>2, <2>2, <2>4, <3>3, <3>4
         DEF Casting, Resting, Reviewing, Choosing, Registering, Evaluating
    <3>12. Reached(r)'
      <4> SUFFICES ASSUME NEW a \in Tokens, entry'.attempt = a
                   PROVE  Prepared(r, a)' /\ Selecting(r, a)'
        BY <3>3 DEF Reached
      <4>1. Stage(r)' = entry'.checkpoint
        BY <3>3 DEF Stage
      <4>2. /\ step = "decide" => Firm(a)' /\ Stage(r)' \in CANDIDATES_READY .. COMPLETE
            /\ step = "check" => Stage(r)' \in CLAIMED .. REGISTERED
        BY <1>2, <2>2, <3>5, <4>1, Numbers
      <4> QED
        BY <2>2, <2>4, <3>3, <4>2 DEF Prepared, Selecting, Framing, Parenting, Evaluating,
           Storing, Choosing, Registering, Closing
    <3>13. RunOK(r)'
      BY <3>9, <3>10, <3>11, <3>12 DEF RunOK
    <3> QED
      BY <1>0, <1>5, <3>3, <3>4, <3>7, <3>8, <3>13, StepOK DEF Claimed
  <2> QED
    BY <2>3, <2>4
<1>6. ASSUME Open(r, CodeOf(r), ex[r].tok) \/ TakeOver(r, CodeOf(r), ex[r].tok),
             lapsed' = FALSE
      PROVE  Claimed(r)
  BY <1>0, <1>1, <1>3, <1>6, Opened, TakenOver
<1>7. ASSUME entry # None, UNCHANGED ledgerVars
      PROVE  Claimed(r) /\ entry' = entry
  <2>1. Quiet
    BY <1>0, <1>7 DEF Quiet, OnlyClaim, ledgerVars
  <2> QED
    BY <1>0, <1>7, <2>1, QuietMoves DEF Claimed, Written, ledgerVars
<1> QED
  BY <1>4, <1>5, <1>6, <1>7 DEF Acquire

-----------------------------------------------------------------------------
(* Executions begin, and leases end.                                       *)

\* A new execution draws the next token.
LEMMA Drawn ==
    ASSUME IInv, NEW r \in Runs, Begin(r)
    PROVE  /\ ExTyped' /\ Same(r) /\ ex'[r].mine = None
           /\ ex'[r].old # 0 => ex'[r].old \in Selectable
           /\ \/ ex'[r].pc = "idle" /\ ex'[r].tok = 0
              \/ /\ ex'[r].pc = "claim" /\ ex'[r].tok = minted + 1
                 /\ r \in Reviewers => ex'[r].old # 0
<1>0. Typed /\ Holds(r) /\ Casting(r) /\ ex[r].pc = "idle"
  BY DEF Begin, IInv, RunOK
<1>1. CASE ex' = ex
  <2>1. ExTyped' /\ Same(r) /\ ex'[r] = ex[r]
    BY <1>0, <1>1 DEF ExTyped, Same, Typed
  <2> QED
    BY <1>0, <2>1 DEF Holds, Casting, Resting
<1>2. CASE ex' = [ex EXCEPT ![r] =
                     [Idle EXCEPT !.pc = "claim", !.tok = minted + 1,
                                  !.old = IF Selectable = {} THEN 0
                                          ELSE CHOOSE a \in Selectable : TRUE]]
  <2> DEFINE found == IF Selectable = {} THEN 0 ELSE CHOOSE a \in Selectable : TRUE
             t == minted + 1
             new == [Idle EXCEPT !.pc = "claim", !.tok = t, !.old = found]
  <2>1. /\ Selectable # {} => found \in Selectable
        /\ Selectable = {} => found = 0
    OBVIOUS
  <2>2. Selectable \subseteq Tokens /\ 0 \notin Tokens
    BY RunAssumption DEF Selectable
  <2>3. t \in Tokens /\ (r \in Reviewers => Selectable # {})
    BY DEF Begin
  <2>4. ex' = [ex EXCEPT ![r] = new]
    BY <1>2
  <2> HIDE DEF found, t
  <2>5. found \in Tokens \cup {0}
    BY <2>1, <2>2
  <2>6. /\ new \in Executions /\ new.pc = "claim" /\ new.tok = t /\ new.old = found
        /\ new.mine = None
    BY <2>3, <2>5 DEF Idle, Executions, Steps
  <2> HIDE DEF new
  <2>7. ExTyped' /\ Same(r) /\ ex'[r] = new
    BY <1>0, <2>4, <2>6, ExWritten
  <2> QED
    BY <2>1, <2>2, <2>3, <2>6, <2>7 DEF t
<1> QED
  BY <1>1, <1>2 DEF Begin

\* Begin keeps the invariant: the token is new.
LEMMA BeginOK ==
    ASSUME IInv, NEW r \in Runs, Begin(r)
    PROVE  IInv'
<1>0. /\ Typed /\ Quiet /\ minted + 1 \in Tokens /\ minted' = minted + 1
      /\ lapsed' = lapsed /\ faults' = faults /\ mlflow' = mlflow
      /\ minted \in Nat /\ \A s \in Runs : ex[s].tok \in Nat /\ ex[s].tok <= minted
  BY TokenFields DEF Begin, Reads, Quiet, IInv, RunOK, Holds
<1>1. /\ ExTyped' /\ Same(r) /\ ex'[r].mine = None
      /\ ex'[r].old # 0 => ex'[r].old \in Selectable
      /\ \/ ex'[r].pc = "idle" /\ ex'[r].tok = 0
         \/ /\ ex'[r].pc = "claim" /\ ex'[r].tok = minted + 1
            /\ r \in Reviewers => ex'[r].old # 0
  BY Drawn
<1>2. Typed'
  <2>1. \A t \in 1 .. minted' : t \in 1 .. minted \/ t = minted + 1
    BY <1>0
  <2>2. minted' \in Nat /\ 1 .. minted' \subseteq Tokens
    BY <1>0, <2>1 DEF Typed
  <2> QED
    BY <1>0, <1>1, <2>2 DEF Typed, ExTyped, Quiet
<1>3. /\ Grows /\ Forward /\ EntryOK' /\ BuildsOK' /\ OneCandidateSelected'
      /\ Selectable' = Selectable
  BY <1>0, QuietMoves DEF Quiet, Selectable
<1>4. \A s \in Runs \ {r} : RunOK(s)'
  BY <1>0, <1>1, <1>2, <1>3, OthersStay DEF Written, Quiet
<1>5. RunOK(r)'
  <2>1. Holds(r)'
    <3>1. ex'[r].tok <= minted' /\ (ex'[r].tok = 0 <=> ex'[r].pc \in Resting)
      BY <1>0, <1>1 DEF Resting
    <3>2. \A s \in Runs : ex'[s].tok = ex'[r].tok /\ ex'[r].tok # 0 => s = r
      BY <1>0, <1>1 DEF Same
    <3> QED
      BY <1>1, <3>1, <3>2 DEF Holds, Resting
  <2>2. Follows(r)' /\ Reached(r)'
    BY <1>1 DEF Follows, Reached
  <2>3. Casting(r)'
    BY <1>1, <1>3 DEF Casting, Resting, Reviewing, Evaluating
  <2> QED
    BY <2>1, <2>2, <2>3 DEF RunOK
<1>6. Counted'
  <2> SUFFICES ASSUME NEW a \in Tokens
               PROVE  /\ \E made \in SUBSET (1 .. minted') :
                            /\ Cardinality(made) = lake'.frames[a]
                            /\ \A s \in Runs : ex'[s].tok \in made => ex'[s].pc \notin BeforeFrame
                      /\ \E made \in SUBSET (1 .. minted') :
                            /\ Cardinality(made) = Len(mlflow'.parents[a])
                            /\ \A s \in Runs : ex'[s].tok \in made => ex'[s].pc \notin BeforeParent
    BY DEF Counted, Numbered
  <2>1. ASSUME NEW n, NEW before, Numbered(n, before)
        PROVE  \E made \in SUBSET (1 .. minted') :
                   /\ Cardinality(made) = n
                   /\ \A s \in Runs : ex'[s].tok \in made => ex'[s].pc \notin before
    <3>1. PICK made \in SUBSET (1 .. minted) :
              /\ Cardinality(made) = n
              /\ \A s \in Runs : ex[s].tok \in made => ex[s].pc \notin before
      BY <2>1 DEF Numbered
    <3>2. made \in SUBSET (1 .. minted') /\ 0 \notin made /\ minted + 1 \notin made
      BY <1>0
    <3>3. \A s \in Runs : ex'[s].tok \in made => ex'[s].pc \notin before
      BY <1>1, <3>1, <3>2 DEF Same
    <3> QED
      BY <3>1, <3>2, <3>3
  <2>2. Numbered(lake.frames[a], BeforeFrame) /\ Numbered(Len(mlflow.parents[a]), BeforeParent)
    BY DEF IInv, Counted
  <2> QED
    BY <1>0, <2>1, <2>2 DEF Quiet
<1> QED
  BY <1>2, <1>3, <1>4, <1>5, <1>6 DEF IInv

\* A lease that ends, or nothing at all.
LEMMA LapseOK ==
    ASSUME IInv, Lapse \/ UNCHANGED vars
    PROVE  IInv'
<1>1. /\ entry' = entry /\ UNCHANGED <<input, minted, lake, mlflow, exposed, ex>>
      /\ lapsed' \in BOOLEAN /\ faults' \in 0 .. MaxFaults
  <2>1. lapsed \in BOOLEAN /\ faults \in 0 .. MaxFaults /\ MaxFaults \in Nat
    BY RunAssumption DEF IInv, Typed
  <2>2. faults' = faults \/ (faults < MaxFaults /\ faults' = faults + 1)
    BY DEF Lapse, vars
  <2>3. faults' \in 0 .. MaxFaults
    BY <2>1, <2>2
  <2> QED
    BY <2>1, <2>3 DEF Lapse, vars
<1>2. Typed'
  BY <1>1 DEF IInv, Typed
<1>3. Quiet
  BY <1>1 DEF Quiet
<1>4. Grows /\ Forward /\ EntryOK' /\ BuildsOK' /\ OneCandidateSelected'
  BY <1>3, QuietMoves
<1>5. ASSUME NEW s \in Runs PROVE RunOK(s)'
  <2>1. Holds(s) /\ Casting(s)
    BY DEF IInv, RunOK
  <2>2. Follows(s)' /\ Reached(s)'
    BY <1>1, <1>2, <1>4, FollowsStays, ReachedStays
  <2>3. Holds(s)'
    BY <1>1, <2>1 DEF Holds
  <2>4. Casting(s)'
    BY <1>1, <2>1 DEF Casting, Selectable
  <2> QED
    BY <2>2, <2>3, <2>4 DEF RunOK
<1>6. Counted'
  BY <1>1 DEF IInv, Counted, Numbered
<1> QED
  BY <1>2, <1>4, <1>5, <1>6 DEF IInv

-----------------------------------------------------------------------------
(* The theorems.                                                           *)

\* At the start there is no claim, nothing is stored, and nobody is at work.
LEMMA InitOK == Init => IInv
<1> SUFFICES ASSUME Init PROVE IInv
  OBVIOUS
<1>1. entry = None /\ lapsed = FALSE /\ minted = 0 /\ faults = 0
  BY DEF Init, LedgerInit
<1>2. /\ input \in Inputs
      /\ exposed = [a \in Tokens |-> {}] /\ ex = [r \in Runs |-> Idle]
  BY DEF Init, Inputs
<1>3. /\ lake \in Lakes /\ lake.frames = [a \in Tokens |-> 0]
      /\ lake.builds = [a \in Tokens |-> None]
  BY DEF Init, Lakes, PerCandidate
<1>4. /\ mlflow \in Trackers /\ mlflow.parents = [a \in Tokens |-> <<>>]
      /\ mlflow.versions = [a \in Tokens |-> [c \in Candidates |-> 0]]
  <2>1. <<>> \in Seq(Statuses) /\ <<>> \in Seq(TagSet \cup {None})
    OBVIOUS
  <2> QED
    BY <2>1 DEF Init, Trackers, PerCandidate
<1>5. /\ Idle \in Executions /\ Idle.pc = "idle" /\ Idle.tok = 0 /\ Idle.old = 0
      /\ Idle.mine = None
  BY DEF Idle, Executions, Steps
<1>6. Typed
  <2>1. 0 \in 0 .. MaxFaults /\ 1 .. 0 \subseteq Tokens
    BY RunAssumption
  <2>2. ex \in [Runs -> Executions] /\ exposed \in [Tokens -> SUBSET Candidates]
    BY <1>2, <1>5
  <2> QED
    BY <1>1, <1>2, <1>3, <1>4, <2>1, <2>2 DEF Typed
<1>7. Counted
  <2> SUFFICES ASSUME NEW a \in Tokens
               PROVE  /\ Numbered(lake.frames[a], BeforeFrame)
                      /\ Numbered(Len(mlflow.parents[a]), BeforeParent)
    BY DEF Counted
  <2>1. Cardinality({}) = 0 /\ {} \in SUBSET (1 .. minted)
    BY FS_EmptySet
  <2>2. lake.frames[a] = 0 /\ Len(mlflow.parents[a]) = 0
    BY <1>3, <1>4
  <2> QED
    BY <2>1, <2>2 DEF Numbered
<1>8. EntryOK /\ BuildsOK
  BY <1>1, <1>3 DEF EntryOK, BuildsOK, Selectable
<1>9. OneCandidateSelected
  BY <1>2, <1>4 DEF OneCandidateSelected
<1>10. ASSUME NEW r \in Runs PROVE RunOK(r)
  <2>1. /\ ex[r].pc = "idle" /\ ex[r].tok = 0 /\ ex[r].old = 0 /\ ex[r].mine = None
    BY <1>2, <1>5
  <2>2. Holds(r)
    BY <1>1, <2>1 DEF Holds, Resting
  <2>3. Follows(r) /\ Reached(r)
    BY <2>1 DEF Follows, Reached
  <2>4. Casting(r)
    BY <2>1 DEF Casting, Resting, Reviewing, Evaluating
  <2> QED
    BY <2>2, <2>3, <2>4 DEF RunOK
<1> QED
  BY <1>6, <1>7, <1>8, <1>9, <1>10 DEF IInv

\* Every step of every execution keeps the invariant.
LEMMA EveryStepOK == IInv /\ [Next]_vars => IInv'
<1> SUFFICES ASSUME IInv, [Next]_vars PROVE IInv'
  OBVIOUS
<1>1. CASE Lapse \/ UNCHANGED vars
  BY <1>1, LapseOK
<1>2. ASSUME NEW r \in Runs, Error(r) \/ Crash(r) PROVE IInv'
  BY <1>2, FaultOK
<1>3. ASSUME NEW r \in Runs, Step(r) PROVE IInv'
  <2>1. CASE \/ Begin(r) \/ Acquire(r) \/ Yield(r) \/ Reload(r) \/ Reuse(r) \/ Settle(r)
             \/ Check(r)
    BY <2>1, BeginOK, AcquireOK, ReturnOK, ReloadOK, ReuseOK, SettleOK, CheckOK
  <2>2. CASE \/ FindFrame(r) \/ AppendFrame(r) \/ BindFrame(r) \/ ReadFrame(r)
             \/ FindParent(r) \/ NewParent(r) \/ BindParent(r) \/ Enter(r)
    BY <2>2, FindFrameOK, AppendFrameOK, BindOK, ReadFrameOK, FindParentOK, NewParentOK,
       EnterOK
  <2>3. CASE \/ FindReceipt(r) \/ FindChild(r) \/ NewChild(r) \/ Train(r) \/ StoreReceipt(r)
             \/ CandidatesReady(r) \/ Recommend(r)
    BY <2>3, FindReceiptOK, FindChildOK, NewChildOK, TrainOK, StoreReceiptOK, BindOK,
       RecommendOK
  <2>4. CASE \/ FailBuild(r) \/ FailClaim(r) \/ Release(r) \/ StoreAwaiting(r)
             \/ Awaiting(r) \/ StoreReady(r) \/ Complete(r) \/ Finalize(r)
    BY <2>4, StoreBuildOK, FailClaimOK, ReleaseOK, ReturnOK, CompleteOK
  <2>5. CASE \/ Decide(r) \/ NewDecision(r) \/ Lock(r) \/ ReadTest(r)
             \/ FindModel(r) \/ FindVersion(r) \/ Register(r) \/ StoreModel(r)
             \/ Registered(r)
    BY <2>5, DecideOK, NewDecisionOK, LockOK, ReadTestOK, FindModelOK, RegisterOK,
       StoreModelOK, RegisteredOK
  <2>6. CASE LogParent(r) \/ Close(r) \/ Reviewed(r) \/ Disown(r)
    BY <2>6, LogParentOK, CompleteOK, ReturnOK
  <2> QED
    BY <1>3, <2>1, <2>2, <2>3, <2>4, <2>5, <2>6 DEF Step
<1> QED
  BY <1>1, <1>2, <1>3 DEF Next

\* The inductive invariant holds, whatever the constants.
THEOREM Invariance == Spec => []IInv
BY InitOK, EveryStepOK, PTL DEF Spec

\* The claim, the stores and the executions keep their types.
THEOREM RunTypes == Spec => []TypeOK
<1>1. IInv => TypeOK
  BY TypedIsOK DEF IInv
<1> QED
  BY <1>1, Invariance, PTL

\* Whichever executions overlap, crash or take over: at most one attempt can be
\* selected from, it is that of the claim, and a COMPLETE claim finds its build,
\* its decision and its model.
THEOREM ClaimTellsStores == Spec => []StoresFollowClaim
<1>1. ASSUME IInv PROVE StoresFollowClaim
  <2>0. Typed /\ EntryOK /\ BuildsOK
    BY <1>1 DEF IInv
  <2>1. Cardinality(Selectable) <= 1
    <3>1. CASE Selectable = {}
      BY <3>1, FS_EmptySet
    <3>2. CASE Selectable # {}
      <4>1. PICK a \in Selectable : TRUE
        BY <3>2
      <4>2. Selectable = {a}
        BY <2>0, <4>1 DEF BuildsOK, Selectable
      <4>3. Cardinality({a}) = 1
        BY FS_Singleton
      <4> QED
        BY <4>2, <4>3
    <3> QED
      BY <3>1, <3>2
  <2>2. \A a \in Selectable : a \in Tokens
    BY DEF Selectable
  <2>3. ASSUME entry # None, entry.checkpoint = COMPLETE
        PROVE  /\ entry.attempt \in Selectable
               /\ entry.refs.decision \in Decided(entry.attempt)
               /\ lake.models[entry.attempt][entry.refs.decision] # 0
    <3>1. entry.attempt \in Tokens
      BY <2>0, <2>3, RowFields DEF Typed
    <3> QED
      BY <2>0, <2>3, <3>1, Numbers DEF EntryOK
  <2> QED
    BY <2>0, <2>1, <2>2, <2>3 DEF StoresFollowClaim, BuildsOK
<1> QED
  BY <1>1, Invariance, PTL

\* Test data is read for, and versions are registered from, the one candidate
\* that the claim has locked.
THEOREM LockedAlone == Spec => []OneCandidateSelected
<1>1. IInv => OneCandidateSelected
  BY DEF IInv
<1> QED
  BY <1>1, Invariance, PTL
=============================================================================
