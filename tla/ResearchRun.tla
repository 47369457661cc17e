----------------------------- MODULE ResearchRun -----------------------------
(***************************************************************************)
(* The research of one model build, from its claim to the registered model *)
(* (src/src/next_ads/model_development/research_runtime.py, research_store *)
(* and research_selection, src/jobs/model/research/                        *)
(* select_research_candidate.py).                                          *)
(*                                                                         *)
(* The state of a build is spread over systems that share no transaction:  *)
(* the claim (ClaimLedger), immutable Delta rows, MLflow runs and tags,    *)
(* the model registry.  An execution reads one, writes the next, and it    *)
(* may crash, raise or be overtaken between two of those steps; a later    *)
(* one resumes from what they say.                                         *)
(*                                                                         *)
(* A run is a top-level job run.  Under AUTO its research goes on to       *)
(* select and register the recommended candidate.  Under REVIEW it ends    *)
(* with AWAITING_SELECTION, and reviewers, job runs of their own, select.  *)
(***************************************************************************)
EXTENDS ClaimLedger, Sequences, FiniteSets

CONSTANTS
    Reviewers,       \* the runs that select; the others research
    Candidates,      \* candidates that the research plan declares
    Required,        \* those whose failure is not allowed
    MinReady,        \* minimum_successful_candidates
    Policies,        \* selection policies to consider
    Overlap,         \* a lease may lapse under an execution still at work
    MaxFaults        \* bound on crashes, transient errors and such lapses

\* The rows of the claim and the Delta tables, and the tags of a child run.
TagSet == [status : {"READY", "FAILED"}, by : Tokens]
Claims == [code : Codes, attempt : Tokens, owner : Runs, token : Tokens,
           checkpoint : Checkpoints \cup {FAILED},
           refs : [RefNames -> RefVals \cup {None}]]
Receipts == [status : {"READY", "FAILED"}, tags : TagSet, run : Nat, recovered : BOOLEAN]
Builds == [status : {"AWAITING", "READY", "FAILED"}, by : Tokens, code : Codes,
           parent : Tokens]

\* Tokens numbers the executions and bounds them; RefVals holds what the claim
\* may lock: the number of an append or of an MLflow run, or a candidate.  A
\* research plan has at least one candidate (ResearchPlan.__post_init__).
ASSUME RunAssumption ==
    /\ Tokens \subseteq Nat \ {0}
    /\ Candidates \cup Tokens \subseteq RefVals
    /\ Reviewers \subseteq Runs /\ Required \subseteq Candidates /\ Candidates # {}
    /\ MinReady \in Nat \ {0} /\ MaxFaults \in Nat
    /\ Policies \subseteq {"AUTO", "REVIEW"} /\ Overlap \in BOOLEAN
    /\ None \notin RefVals \cup TagSet \cup Claims \cup Receipts \cup Builds

VARIABLES
    input,      \* the policy, the code of each run, the choice of each reviewer
    minted,     \* executions begun; each draws one lease token
    faults,     \* crashes and transient errors so far
    lake,       \* the Delta tables, and the appends of each attempt's frame
    mlflow,     \* status of parent runs, tags of child runs, model versions
    exposed,    \* per attempt: the candidates evaluated on the test split
    ex          \* the execution of each run

vars == <<entry, lapsed, input, minted, faults, lake, mlflow, exposed, ex>>

Idle == [pc |-> "idle", tok |-> 0,   \* where the execution is, and its token
         old |-> 0,                  \* attempt of the build found at the start
         mine |-> None,              \* the claim it was last handed
         hand |-> 0,                 \* number of the run or version in hand
         eval |-> None,              \* the evaluation in hand
         left |-> {}]                \* candidates still to evaluate

PerCandidate(x) == [a \in Tokens |-> [c \in Candidates |-> x]]

Init ==
    /\ LedgerInit
    /\ input \in [policy : Policies, code : [Runs \ Reviewers -> Codes],
                  choice : [Reviewers -> Candidates]]
    /\ minted = 0 /\ faults = 0
    /\ lake = [frames |-> [a \in Tokens |-> 0], receipts |-> PerCandidate(None),
               builds |-> [a \in Tokens |-> None], decisions |-> {},
               models |-> PerCandidate(0)]
    /\ mlflow = [parents |-> [a \in Tokens |-> <<>>], children |-> PerCandidate(<<>>),
                 versions |-> PerCandidate(0)]
    /\ exposed = [a \in Tokens |-> {}]
    /\ ex = [r \in Runs |-> Idle]

-----------------------------------------------------------------------------
(* What an execution knows, and what the systems say.                      *)

Attempt(r) == ex[r].mine.attempt
Stage(r) == ex[r].mine.checkpoint
Automatic == input.policy = "AUTO"

Selectable ==
    {a \in Tokens : lake.builds[a] # None
                    /\ lake.builds[a].status \in {"AWAITING", "READY"}}

ReadyOnes(a) ==
    {c \in Candidates : lake.receipts[a][c] # None
                        /\ lake.receipts[a][c].status = "READY"}

\* recommend_candidate, whose ranking is some fixed order on evaluations.
Fails(a) == ~(Required \subseteq ReadyOnes(a)) \/ Cardinality(ReadyOnes(a)) < MinReady
Recommended(a) == CHOOSE c \in ReadyOnes(a) : TRUE

\* The candidate an execution is to select.
Pick(r) == IF r \in Reviewers THEN input.choice[r] ELSE Recommended(Attempt(r))

Decided(a) == {d.choice : d \in {e \in lake.decisions : e.attempt = a}}

-----------------------------------------------------------------------------
(* How an execution goes on.                                               *)

At(r, step) == ex[r].pc = step /\ UNCHANGED <<input, minted, faults>>
Go(r, step) == ex' = [ex EXCEPT ![r].pc = step]
GoWith(r, n, step) == ex' = [ex EXCEPT ![r].pc = step, ![r].hand = n]
End(r) == ex' = [ex EXCEPT ![r] = Idle]
Return(r) == ex' = [ex EXCEPT ![r] = [Idle EXCEPT !.pc = "done"]]

\* The steps at which run_model_research knows the parent run.
Inside == {"receipt", "child", "newchild", "train", "store", "candidates",
           "recommend", "failbuild", "failclaim", "release", "awaiting", "stored",
           "decide", "newdecision", "lock", "test", "model", "search", "register",
           "persist", "registered", "ready", "complete", "finalize"}

\* An exception: a research run that knows its parent goes on to mark it.
Raise(r) ==
    IF r \notin Reviewers /\ ex[r].pc \in Inside THEN Go(r, "disown") ELSE End(r)

\* What a step leaves alone.
Reads == UNCHANGED <<entry, lapsed, lake, mlflow, exposed>>
OnlyClaim == UNCHANGED <<lake, mlflow, exposed>>
OnlyLake == UNCHANGED <<entry, lapsed, mlflow, exposed>>
OnlyMlflow == UNCHANGED <<entry, lapsed, lake, exposed>>

-----------------------------------------------------------------------------
(* The claim, as ClaimLedger promises it.                                  *)

Mine(r) == entry # None /\ entry.token = ex[r].tok /\ entry.checkpoint \notin Terminal

\* advance_research_claim; it renews the lease.  A claim that is COMPLETE is
\* handed out to whoever was to complete it.  A refused advance raises, and one
\* under a lease that has lapsed may be refused.
Completed(r) == entry # None /\ entry.checkpoint = COMPLETE /\ Stage(r) = REGISTERED

AdvanceTo(r, v, step) ==
    \/ /\ Advance(ex[r].tok, v)
       /\ lapsed' = FALSE
       /\ ex' = [ex EXCEPT ![r].pc = step, ![r].mine = entry']
    \/ /\ Completed(r)
       /\ UNCHANGED ledgerVars
       /\ ex' = [ex EXCEPT ![r].pc = step, ![r].mine = entry]
    \/ /\ ~Completed(r)
       /\ ~Mine(r) \/ lapsed \/ ~SetOnce(entry.refs, entry.checkpoint + 1, v)
       /\ UNCHANGED ledgerVars
       /\ Raise(r)

\* release_research_claim, which has nothing to do at a terminal claim.
Ended == entry # None /\ entry.checkpoint \in Terminal
Releases(r) ==
    \/ Mine(r) /\ lapsed' = TRUE /\ UNCHANGED entry
    \/ Ended /\ UNCHANGED ledgerVars
Refused(r) == ~Ended /\ (~Mine(r) \/ lapsed) /\ UNCHANGED ledgerVars /\ Raise(r)

\* fail_research_claim; the caller raises whether or not it succeeds.
FailsClaim(r) ==
    \/ Fail(ex[r].tok) /\ UNCHANGED lapsed
    \/ (~Mine(r) \/ lapsed) /\ UNCHANGED ledgerVars

\* The lease runs out; under an execution still at work, that is a fault.
Lapse ==
    /\ entry # None /\ ~lapsed
    /\ entry.checkpoint \notin Terminal
    /\ \/ /\ \A r \in Runs : ex[r].tok # entry.token
          /\ UNCHANGED faults
       \/ /\ \E r \in Runs : ex[r].tok = entry.token
          /\ Overlap /\ faults < MaxFaults
          /\ faults' = faults + 1
    /\ lapsed' = TRUE
    /\ UNCHANGED <<entry, input, minted, lake, mlflow, exposed, ex>>

\* An execution that another run's lease, or the state of the candidate it is
\* to select, stops at once: left out when leases keep their holders.
Welcome(r) ==
    /\ entry # None => entry.checkpoint \in Terminal \/ entry.owner = r \/ lapsed
    /\ r \in Reviewers => \A a \in Selectable : input.choice[r] \in ReadyOnes(a)

\* load_selectable_research_build, before the claim.
Begin(r) ==
    /\ ex[r].pc = "idle"
    /\ Overlap \/ Welcome(r)
    /\ r \in Reviewers => ~Automatic /\ Selectable # {}
    /\ minted + 1 \in Tokens
    /\ minted' = minted + 1
    /\ IF Cardinality(Selectable) > 1 THEN UNCHANGED ex
       ELSE ex' = [ex EXCEPT ![r] =
                [Idle EXCEPT !.pc = "claim", !.tok = minted + 1,
                             !.old = IF Selectable = {} THEN 0
                                     ELSE CHOOSE a \in Selectable : TRUE]]
    /\ UNCHANGED <<input, faults>> /\ Reads

\* The code a claim is made with: a reviewer uses that of the build.
CodeOf(r) == IF r \in Reviewers THEN lake.builds[ex[r].old].code ELSE input.code[r]

\* Where an execution that holds the claim, or finds it terminal, goes next.
Route(r, row) ==
    CASE r \in Reviewers ->
            IF row.checkpoint \in CANDIDATES_READY .. COMPLETE THEN "decide" ELSE "raise"
      [] r \notin Reviewers /\ ex[r].old # 0 ->
            IF /\ lake.builds[ex[r].old].status = "AWAITING"
               /\ row.checkpoint \in {CANDIDATES_READY, SELECTION_LOCKED}
            THEN "yield" ELSE "reuse"
      [] OTHER ->
            CASE row.checkpoint = FAILED -> "raise"
              [] row.checkpoint = COMPLETE -> "reload"
              [] OTHER -> "check"

\* claim_research_build
Acquire(r) ==
    /\ At(r, "claim")
    /\ LET t == ex[r].tok
           Hold(row) == ex' = IF Route(r, row) = "raise" THEN [ex EXCEPT ![r] = Idle]
                              ELSE [ex EXCEPT ![r].pc = Route(r, row), ![r].mine = row]
       IN  \/ /\ Open(r, CodeOf(r), t) \/ TakeOver(r, CodeOf(r), t)
              /\ lapsed' = FALSE
              /\ Hold(entry')
           \/ /\ entry # None
              /\ entry.checkpoint \in Terminal
              /\ entry.code = CodeOf(r)
              /\ UNCHANGED ledgerVars
              /\ Hold(entry)
           \/ /\ entry # None
              /\ IF entry.code # CodeOf(r) THEN entry.checkpoint # FAILED
                 ELSE /\ entry.checkpoint \notin Terminal
                      /\ ~(entry.owner = r \/ lapsed)
              /\ UNCHANGED ledgerVars
              /\ End(r)
    /\ OnlyClaim

-----------------------------------------------------------------------------
(* Reuse of a build that an earlier execution has stored.                  *)

\* AWAITING_SELECTION, not yet registered: give the claim back.
Yield(r) ==
    /\ At(r, "yield") /\ OnlyClaim
    /\ (Releases(r) /\ Return(r)) \/ Refused(r)

\* A COMPLETE claim met without a build: load it again.
Reload(r) ==
    /\ At(r, "reload") /\ Reads
    /\ IF Cardinality(Selectable) = 1
       THEN ex' = [ex EXCEPT ![r].pc = "reuse", ![r].old = CHOOSE a \in Selectable : TRUE]
       ELSE End(r)

\* _reused_research_result: reload every object, reconcile the parent run.
Reuse(r) ==
    LET a == ex[r].old
        known == \E c \in Decided(a) : Decided(a) = {c} /\ lake.models[a][c] # 0
        waits == ~Automatic /\ Decided(a) = {}
    IN  /\ At(r, "reuse")
        /\ IF known \/ waits THEN Go(r, "settle") ELSE End(r)
        /\ mlflow' = IF waits \/ (Automatic /\ known)
                     THEN [mlflow EXCEPT !.parents[a][lake.builds[a].parent] = "FINISHED"]
                     ELSE mlflow
        /\ OnlyMlflow

\* Mutant: a READY build whose claim is not COMPLETE is taken for a disagreement.
SettleComplete(r) ==
    /\ At(r, "settle") /\ OnlyClaim
    /\ UNCHANGED ledgerVars
    /\ IF Stage(r) = COMPLETE THEN Return(r) ELSE End(r)

\* Then bring the claim where the build says it should be.
Settle(r) ==
    LET a == ex[r].old
        done == Stage(r) = COMPLETE
        waiting == lake.builds[a].status = "AWAITING" /\ Stage(r) = REGISTERED
        ready == lake.builds[a].status = "READY" /\ Stage(r) = REGISTERED
    IN  /\ At(r, "settle") /\ OnlyClaim
        /\ \/ done /\ UNCHANGED ledgerVars /\ Return(r)
           \/ ready /\ AdvanceTo(r, entry.refs.decision, "settle")
           \/ waiting /\ Decided(a) # {} /\ Releases(r) /\ Return(r)
           \/ waiting /\ Decided(a) # {} /\ Refused(r)
           \/ /\ ~done /\ ~ready /\ ~(waiting /\ Decided(a) # {})
              /\ UNCHANGED ledgerVars /\ End(r)

\* No build at the start: the attempt of the claim may have ended since.
Check(r) ==
    LET build == lake.builds[Attempt(r)]
    IN  /\ At(r, "check") /\ OnlyClaim
        /\ IF build # None /\ build.status = "FAILED"
           THEN FailsClaim(r) /\ End(r)
           ELSE /\ UNCHANGED ledgerVars
                /\ CASE build # None -> End(r)
                     [] Stage(r) = CLAIMED -> Go(r, "frame")
                     [] OTHER -> Go(r, "readframe")

-----------------------------------------------------------------------------
(* The frame and the parent run: look for it, else create it; then lock it. *)

\* persist_research_frame finds the receipt of an earlier append.
FindFrame(r) ==
    LET n == lake.frames[Attempt(r)]
    IN  /\ At(r, "frame") /\ Reads
        /\ CASE n = 0 -> Go(r, "append")
             [] n = 1 -> GoWith(r, 1, "bind")
             [] OTHER -> End(r)

AppendFrame(r) ==
    LET n == lake.frames[Attempt(r)] + 1
    IN  /\ At(r, "append") /\ OnlyLake
        /\ lake' = [lake EXCEPT !.frames[Attempt(r)] = n]
        /\ GoWith(r, n, "bind")

BindFrame(r) == At(r, "bind") /\ OnlyClaim /\ AdvanceTo(r, ex[r].hand, "readframe")

\* read_research_frame: the table at the bound version, where the rows of the
\* attempt are those of every append up to it.
ReadFrame(r) ==
    /\ At(r, "readframe") /\ Reads
    /\ IF ex[r].mine.refs.frame # 1 THEN End(r)
       ELSE Go(r, IF Stage(r) = FRAME_READY THEN "parent" ELSE "enter")

\* _find_exact_tagged_run
FindParent(r) ==
    LET n == Len(mlflow.parents[Attempt(r)])
    IN  /\ At(r, "parent") /\ Reads
        /\ CASE n = 0 -> Go(r, "newparent")
             [] n = 1 -> GoWith(r, 1, "bindparent")
             [] OTHER -> End(r)

NewParent(r) ==
    LET a == Attempt(r)
    IN  /\ At(r, "newparent") /\ OnlyMlflow
        /\ mlflow' = [mlflow EXCEPT !.parents[a] = Append(@, "RUNNING")]
        /\ GoWith(r, Len(mlflow.parents[a]) + 1, "bindparent")

BindParent(r) == At(r, "bindparent") /\ OnlyClaim /\ AdvanceTo(r, ex[r].hand, "enter")

Marks(r, status) ==
    mlflow' = [mlflow EXCEPT !.parents[Attempt(r)][ex[r].mine.refs.parent] = status]

\* start_run on the parent.
Enter(r) ==
    /\ At(r, "enter") /\ OnlyMlflow
    /\ Marks(r, "RUNNING")
    /\ ex' = [ex EXCEPT ![r].pc = "receipt", ![r].left = Candidates]

-----------------------------------------------------------------------------
(* The candidates, one after the other.                                    *)

Candidate(r) == CHOOSE c \in ex[r].left : TRUE
NextCandidate(r) ==
    LET rest == ex[r].left \ {Candidate(r)}
        step == IF rest # {} THEN "receipt"
                ELSE IF Stage(r) = PARENT_READY THEN "candidates" ELSE "recommend"
    IN  ex' = [ex EXCEPT ![r].pc = step, ![r].left = rest, ![r].hand = 0, ![r].eval = None]

\* load_terminal_candidate_evaluation; a stored receipt must agree with the
\* tags of the one child run.
FindReceipt(r) ==
    LET c == Candidate(r)
        row == lake.receipts[Attempt(r)][c]
        runs == mlflow.children[Attempt(r)][c]
    IN  /\ At(r, "receipt") /\ Reads
        /\ IF row = None THEN Go(r, "child")
           ELSE IF Len(runs) = 1 /\ row.run = 1 /\ runs[1] = row.tags
                THEN NextCandidate(r)
           ELSE Raise(r)

\* Mutant: a child run is created without a search.
CreatesChild(r) == At(r, "child") /\ Reads /\ Go(r, "newchild")

\* _find_exact_tagged_run, then _recover_tagged_candidate.
FindChild(r) ==
    LET runs == mlflow.children[Attempt(r)][Candidate(r)]
    IN  /\ At(r, "child") /\ Reads
        /\ CASE Len(runs) = 0 -> Go(r, "newchild")
             [] Len(runs) = 1 /\ runs[1] = None -> GoWith(r, 1, "train")
             [] Len(runs) = 1 /\ runs[1] # None ->
                  ex' = [ex EXCEPT ![r].pc = "store", ![r].hand = 1,
                                   ![r].eval = [tags |-> runs[1], recovered |-> TRUE]]
             [] OTHER -> Raise(r)

NewChild(r) ==
    LET a == Attempt(r)
        c == Candidate(r)
    IN  /\ At(r, "newchild") /\ OnlyMlflow
        /\ mlflow' = [mlflow EXCEPT !.children[a][c] = Append(@, None)]
        /\ GoWith(r, Len(mlflow.children[a][c]) + 1, "train")

\* Train and evaluate; _tag_candidate_terminal writes the status tag last, so
\* the tags count from that write on.
Train(r) ==
    /\ At(r, "train") /\ OnlyMlflow
    /\ \E status \in {"READY", "FAILED"} :
          LET tags == [status |-> status, by |-> ex[r].tok]
          IN  /\ mlflow' = [mlflow EXCEPT
                     !.children[Attempt(r)][Candidate(r)][ex[r].hand] = tags]
              /\ ex' = [ex EXCEPT ![r].pc = "store",
                                  ![r].eval = [tags |-> tags, recovered |-> FALSE]]

\* persist_candidate_evaluation.  A row that another execution has stored is
\* the same only if both were recovered, and then only at equal times.
StoreReceipt(r) ==
    LET a == Attempt(r)
        c == Candidate(r)
        row == [status |-> ex[r].eval.tags.status, tags |-> ex[r].eval.tags,
                run |-> ex[r].hand, recovered |-> ex[r].eval.recovered]
        stored == lake.receipts[a][c]
    IN  /\ At(r, "store") /\ OnlyLake
        /\ \/ /\ stored = None
              /\ lake' = [lake EXCEPT !.receipts[a][c] = row]
              /\ NextCandidate(r)
           \/ stored = row /\ row.recovered /\ UNCHANGED lake /\ NextCandidate(r)
           \/ stored # None /\ UNCHANGED lake /\ Raise(r)

CandidatesReady(r) == At(r, "candidates") /\ OnlyClaim /\ AdvanceTo(r, None, "recommend")

\* recommend_candidate on the evaluations, which are the stored receipts: each
\* was stored, or found stored, by this execution, and a row never changes.
Recommend(r) ==
    LET failed == Fails(Attempt(r))
    IN  /\ At(r, "recommend") /\ OnlyMlflow
        /\ Marks(r, IF failed THEN "FAILED" ELSE IF Automatic THEN "RUNNING" ELSE "FINISHED")
        /\ Go(r, IF failed THEN "failbuild" ELSE IF Automatic THEN "decide" ELSE "release")

\* persist_research_build: immutable, and no two executions write one row.
StoreBuild(r, status, step) ==
    LET a == Attempt(r)
        row == [status |-> status, by |-> ex[r].tok, code |-> input.code[r],
                parent |-> ex[r].mine.refs.parent]
    IN  IF lake.builds[a] = None
        THEN /\ lake' = [lake EXCEPT !.builds[a] = row]
             /\ Go(r, step)
        ELSE UNCHANGED lake /\ Raise(r)

FailBuild(r) == At(r, "failbuild") /\ OnlyLake /\ StoreBuild(r, "FAILED", "failclaim")
FailClaim(r) == At(r, "failclaim") /\ OnlyClaim /\ FailsClaim(r) /\ Raise(r)

\* Under REVIEW the claim is released first, the build stored after.
Release(r) ==
    /\ At(r, "release") /\ OnlyClaim
    /\ (Releases(r) /\ Go(r, "awaiting")) \/ Refused(r)

StoreAwaiting(r) ==
    At(r, "awaiting") /\ OnlyLake /\ StoreBuild(r, "AWAITING", "stored")
Awaiting(r) == At(r, "stored") /\ Reads /\ Return(r)

-----------------------------------------------------------------------------
(* Selection and registration.                                             *)

\* Mutant: a decision is compared with the claim alone, when it is there.
DecidesAnew(r) ==
    /\ At(r, "decide") /\ Reads
    /\ Go(r, IF Pick(r) \notin ReadyOnes(Attempt(r)) THEN "disown"
             ELSE IF Pick(r) \in Decided(Attempt(r)) THEN "test" ELSE "newdecision")

\* The stored decision of the attempt must be the one to be taken; before the
\* lock it may be missing, after it the claim must name it.
Decide(r) ==
    LET c == Pick(r)
        stored == Decided(Attempt(r))
        fits == /\ stored \subseteq {c}
                /\ c \in ReadyOnes(Attempt(r))
    IN  /\ At(r, "decide") /\ Reads
        /\ CASE ~fits -> Raise(r)
             [] fits /\ Stage(r) = CANDIDATES_READY ->
                  Go(r, IF stored = {} THEN "newdecision" ELSE "lock")
             [] OTHER ->
                  IF /\ ex[r].mine.refs.decision = c
                     /\ Automatic => stored = {c}
                  THEN Go(r, "test") ELSE Raise(r)

\* persist_selection_decision, keyed by decision and attempt.
NewDecision(r) ==
    LET d == [attempt |-> Attempt(r), choice |-> Pick(r)]
    IN  /\ At(r, "newdecision") /\ OnlyLake
        /\ IF d \in lake.decisions THEN UNCHANGED lake /\ Raise(r)
           ELSE /\ lake' = [lake EXCEPT !.decisions = @ \cup {d}]
                /\ Go(r, "lock")

Lock(r) == At(r, "lock") /\ OnlyClaim /\ AdvanceTo(r, Pick(r), "test")

\* read_selected_test_frame needs the stored decision.
ReadTest(r) ==
    LET a == Attempt(r)
    IN  /\ At(r, "test") /\ UNCHANGED <<entry, lapsed, lake, mlflow>>
        /\ IF Pick(r) \in Decided(a)
           THEN exposed' = [exposed EXCEPT ![a] = @ \cup {Pick(r)}] /\ Go(r, "model")
           ELSE UNCHANGED exposed /\ Raise(r)

\* Mutant: the model is registered without a look at what there is.
RegistersAnew(r) == At(r, "model") /\ Reads /\ Go(r, "register")

\* load_ready_model_build
FindModel(r) ==
    LET v == lake.models[Attempt(r)][Pick(r)]
    IN  /\ At(r, "model") /\ Reads
        /\ IF v # 0 THEN GoWith(r, v, "persist") ELSE Go(r, "search")

\* _registered_version_for_child_run
FindVersion(r) ==
    LET n == mlflow.versions[Attempt(r)][Pick(r)]
    IN  /\ At(r, "search") /\ Reads
        /\ CASE n = 0 -> Go(r, "register")
             [] n = 1 -> GoWith(r, 1, "persist")
             [] OTHER -> Raise(r)

\* register_model, then the lineage tags.
Register(r) ==
    LET a == Attempt(r)
        c == Pick(r)
    IN  /\ At(r, "register") /\ OnlyMlflow
        /\ mlflow' = [mlflow EXCEPT !.versions[a][c] = @ + 1]
        /\ GoWith(r, mlflow.versions[a][c] + 1, "persist")

\* persist_model_build replaces the row of the build.
StoreModel(r) ==
    /\ At(r, "persist") /\ OnlyLake
    /\ lake' = [lake EXCEPT !.models[Attempt(r)][Pick(r)] = ex[r].hand]
    /\ Go(r, "registered")

\* Mutant: automatic research stores its build before it advances the claim.
RegisteredLater(r) ==
    LET next == IF r \in Reviewers THEN "logparent" ELSE "ready"
    IN  /\ At(r, "registered") /\ OnlyClaim
        /\ IF r \in Reviewers /\ Stage(r) = SELECTION_LOCKED
           THEN AdvanceTo(r, Pick(r), next)
           ELSE UNCHANGED ledgerVars /\ Go(r, next)

Registered(r) ==
    LET next == IF r \in Reviewers THEN "logparent" ELSE "ready"
    IN  /\ At(r, "registered") /\ OnlyClaim
        /\ IF Stage(r) = SELECTION_LOCKED THEN AdvanceTo(r, Pick(r), next)
           ELSE UNCHANGED ledgerVars /\ Go(r, next)

StoreReady(r) == At(r, "ready") /\ OnlyLake /\ StoreBuild(r, "READY", "complete")
Complete(r) == At(r, "complete") /\ OnlyClaim /\ AdvanceTo(r, Pick(r), "finalize")

\* _finalize_parent_run
Finalize(r) == At(r, "finalize") /\ OnlyMlflow /\ Marks(r, "FINISHED") /\ Return(r)

\* A reviewer's own end: _log_parent_selection, then COMPLETE.
LogParent(r) ==
    /\ At(r, "logparent") /\ OnlyMlflow
    /\ Marks(r, "FINISHED")
    /\ Go(r, IF Stage(r) = COMPLETE THEN "reviewed" ELSE "closing")

Close(r) == At(r, "closing") /\ OnlyClaim /\ AdvanceTo(r, Pick(r), "reviewed")
Reviewed(r) == At(r, "reviewed") /\ Reads /\ Return(r)

-----------------------------------------------------------------------------
(* Failures.                                                               *)

\* The handler of run_model_research marks the parent run FAILED.
Disown(r) == At(r, "disown") /\ OnlyMlflow /\ Marks(r, "FAILED") /\ End(r)

Active(r) == ex[r].pc \notin {"idle", "done"}

\* A read or a write raises, or raises after it has succeeded; an exception
\* in the handler itself is swallowed.
Error(r) ==
    /\ Active(r) /\ faults < MaxFaults
    /\ faults' = faults + 1
    /\ Raise(r)
    /\ UNCHANGED <<input, minted>> /\ Reads

\* The driver is lost.
Crash(r) ==
    /\ Active(r) /\ faults < MaxFaults
    /\ faults' = faults + 1
    /\ End(r)
    /\ UNCHANGED <<input, minted>> /\ Reads

-----------------------------------------------------------------------------
Step(r) ==
    \/ Begin(r) \/ Acquire(r) \/ Yield(r) \/ Reload(r) \/ Reuse(r) \/ Settle(r)
    \/ Check(r) \/ FindFrame(r) \/ AppendFrame(r) \/ BindFrame(r) \/ ReadFrame(r)
    \/ FindParent(r) \/ NewParent(r) \/ BindParent(r) \/ Enter(r)
    \/ FindReceipt(r) \/ FindChild(r) \/ NewChild(r) \/ Train(r) \/ StoreReceipt(r)
    \/ CandidatesReady(r) \/ Recommend(r)
    \/ FailBuild(r) \/ FailClaim(r) \/ Release(r) \/ StoreAwaiting(r) \/ Awaiting(r)
    \/ Decide(r) \/ NewDecision(r) \/ Lock(r) \/ ReadTest(r)
    \/ FindModel(r) \/ FindVersion(r) \/ Register(r) \/ StoreModel(r)
    \/ Registered(r) \/ StoreReady(r) \/ Complete(r) \/ Finalize(r)
    \/ LogParent(r) \/ Close(r) \/ Reviewed(r) \/ Disown(r)

Next == Lapse \/ \E r \in Runs : Step(r) \/ Error(r) \/ Crash(r)

Spec == Init /\ [][Next]_vars

\* The task of a run is retried until it returns; leases are not for ever.
FairSpec == Spec /\ WF_vars(Lapse) /\ \A r \in Runs : WF_vars(Step(r))

-----------------------------------------------------------------------------
(* Correctness.                                                            *)

Steps == Inside \cup {"idle", "done", "claim", "yield", "reload", "reuse", "settle",
    "check", "frame", "append", "bind", "readframe", "parent", "newparent",
    "bindparent", "enter", "logparent", "closing", "reviewed", "disown"}

\* Types of the claim, the stores and the executions.
TypeOK ==
    /\ entry \in Claims \cup {None} /\ lapsed \in BOOLEAN
    /\ minted \in Nat /\ faults \in 0 .. MaxFaults
    /\ lake.frames \in [Tokens -> Nat]
    /\ lake.receipts \in [Tokens -> [Candidates -> Receipts \cup {None}]]
    /\ lake.builds \in [Tokens -> Builds \cup {None}]
    /\ lake.decisions \subseteq [attempt : Tokens, choice : Candidates]
    /\ lake.models \in [Tokens -> [Candidates -> Nat]]
    /\ mlflow.parents \in [Tokens -> Seq({"RUNNING", "FINISHED", "FAILED"})]
    /\ mlflow.children \in [Tokens -> [Candidates -> Seq(TagSet \cup {None})]]
    /\ mlflow.versions \in [Tokens -> [Candidates -> Nat]]
    /\ exposed \in [Tokens -> SUBSET Candidates]
    /\ ex \in [Runs ->
          [pc : Steps, tok : Tokens \cup {0}, old : Tokens \cup {0},
           mine : Claims \cup {None}, hand : Nat,
           eval : [tags : TagSet, recovered : BOOLEAN] \cup {None},
           left : SUBSET Candidates]]

\* The stored build and the claim tell one story, though no transaction spans
\* them: at most one attempt can be selected from, it is that of the claim, and
\* a COMPLETE claim finds its build, its decision and its model
\* (load_selectable_research_build raises on two; the resume logic of
\* _run_model_research_impl relies on the rest).
StoresFollowClaim ==
    /\ Cardinality(Selectable) <= 1
    /\ \A a \in Selectable :
          /\ entry # None /\ entry.attempt = a
          /\ entry.checkpoint \in CANDIDATES_READY .. COMPLETE
          /\ lake.builds[a].status = "READY" => entry.checkpoint >= REGISTERED
    /\ entry # None /\ entry.checkpoint = COMPLETE =>
          /\ entry.attempt \in Selectable
          /\ entry.refs.decision \in Decided(entry.attempt)
          /\ lake.models[entry.attempt][entry.refs.decision] # 0

\* Test data is read for, and versions are registered from, one candidate of
\* an attempt: the one the claim has locked, whichever executions overlap
\* (read_selected_test_frame, "Read test only after the exact, durable
\* selection has been recorded").
OneCandidateSelected ==
    \A a \in Tokens, c \in Candidates :
        c \in exposed[a] \/ mlflow.versions[a][c] > 0 =>
            /\ entry # None /\ entry.attempt = a
            /\ entry.checkpoint \in SELECTION_LOCKED .. COMPLETE
            /\ entry.refs.decision = c

\* As long as no lease lapses under its holder, crashes and retries create
\* nothing twice, though every creation is a search and then a write, and
\* leave no receipt that disagrees with MLflow: any of these would make every
\* later execution raise.
NothingTwice ==
    \A a \in Tokens :
        /\ lake.frames[a] <= 1
        /\ Len(mlflow.parents[a]) <= 1
        /\ Cardinality(Decided(a)) <= 1
        /\ \A c \in Candidates :
              /\ Len(mlflow.children[a][c]) <= 1
              /\ mlflow.versions[a][c] <= 1
              /\ lake.receipts[a][c] # None =>
                    mlflow.children[a][c] = <<lake.receipts[a][c].tags>>

\* The model a COMPLETE claim stands for stays what it was.
SelectedModelStays ==
    [][entry # None /\ entry.checkpoint = COMPLETE =>
          /\ lake'.models = lake.models
          /\ mlflow'.versions = mlflow.versions]_vars

\* Wherever executions crash or raise, retries bring every run to its end, or
\* the attempt to its failure; a reviewer too, who has chosen a READY candidate.
EveryRunSettles ==
    \A r \in Runs :
        <>(\/ ex[r].pc = "done"
           \/ entry # None /\ entry.checkpoint = FAILED
           \/ r \in Reviewers /\ (Automatic \/ \E a \in Selectable :
                                            input.choice[r] \notin ReadyOnes(a)))

\* "leave its parent MLflow run terminally honest" (run_model_research): when
\* research has returned and nobody is at work, the parent run of a build that
\* can be selected from does not show FAILED.
ParentHonest ==
    /\ \A r \in Runs : ~Active(r)
    /\ \E r \in Runs \ Reviewers : ex[r].pc = "done"
    => \A a \in Selectable :
          mlflow.parents[a][lake.builds[a].parent] # "FAILED"
=============================================================================
