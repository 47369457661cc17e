-------------------------- MODULE AutoMLDiscovery --------------------------
(***************************************************************************)
(* The external AutoML discovery of one request: its claim, which nobody   *)
(* may take over (src/src/next_ads/model_development/automl_claims.py),    *)
(* and the job that drives it (src/jobs/model/research/                    *)
(* run_automl_discovery.py).                                               *)
(*                                                                         *)
(* The experiment runs outside every transaction and cannot be undone, so  *)
(* the claim is written before it starts and says how far it came.  A      *)
(* driver may crash or raise between any two steps; a later one may finish *)
(* what has evidence and must not begin again what has none.               *)
(*                                                                         *)
(* Every driver asks for the same request (one discovery_id): a request    *)
(* with another checksum has a claim and receipts of its own.              *)
(***************************************************************************)
EXTENDS Naturals, FiniteSets

CONSTANTS
    Drivers,      \* tasks that ask for the discovery; each may be run again
    MaxFaults,    \* bound on crashes and transient errors
    None          \* no row

HasEvidence == {"EVIDENCE_READY", "COMPLETE"}
Checkpoints == {"CLAIMED", "RUNNING", "FAILED"} \cup HasEvidence
Evidences == (Nat \ {0}) \cup {None}

ClaimRow == [token : Nat \ {0}, checkpoint : Checkpoints, version : Nat,
             evidence : Evidences, by : Drivers]
ReceiptRow == [status : {"READY", "FAILED"}, evidence : Evidences,
               completed : [checkpoint : Checkpoints, by : Drivers]]

ASSUME DiscoveryAssumption ==
    /\ MaxFaults \in Nat
    /\ None \notin Nat \cup Drivers \cup ClaimRow \cup ReceiptRow

VARIABLES
    claim,        \* the row of the claim table, or None
    receipt,      \* the row of the receipt table, or None
    experiments,  \* experiments started outside
    minted,       \* lease tokens drawn
    faults,       \* crashes and transient errors so far
    ex            \* the execution of each driver

vars == <<claim, receipt, experiments, minted, faults, ex>>

\* Mutant: updated_at is left out.
RowUnstamped(token, checkpoint, version, evidence, by) ==
    [token |-> token, checkpoint |-> checkpoint, version |-> version,
     evidence |-> evidence, by |-> None]

\* A claim row: its token, its checkpoint and version, the experiment that is
\* its evidence, and who wrote it last (updated_at: each write has its time).
Row(token, checkpoint, version, evidence, by) ==
    [token |-> token, checkpoint |-> checkpoint, version |-> version,
     evidence |-> evidence, by |-> by]

Idle == [pc |-> "idle",
         prior |-> None,     \* the READY receipt found at the start
         mine |-> None,      \* the claim last read or written
         sent |-> None,      \* the row it has sent, to be read back
         then |-> "idle",    \* where it goes once that row is confirmed
         found |-> 0]        \* the experiment whose summary it holds

Init ==
    /\ claim = None /\ receipt = None
    /\ experiments = 0 /\ minted = 0 /\ faults = 0
    /\ ex = [d \in Drivers |-> Idle]

-----------------------------------------------------------------------------
At(d, step) == ex[d].pc = step
Go(d, step) == ex' = [ex EXCEPT ![d].pc = step]
Return(d) == ex' = [ex EXCEPT ![d] = [Idle EXCEPT !.pc = "done"]]
Raise(d) == ex' = [ex EXCEPT ![d] = Idle]

Reads == UNCHANGED <<claim, receipt, experiments, minted, faults>>
OnlyClaim == UNCHANGED <<receipt, experiments, minted, faults>>

\* load_ready_automl_discovery_receipt, the first of two reads.
LoadPrior(d) ==
    /\ At(d, "idle") /\ Reads
    /\ ex' = [ex EXCEPT ![d].pc = "load",
                        ![d].prior = IF receipt # None /\ receipt.status = "READY"
                                     THEN receipt ELSE None]

\* Mutant: only a COMPLETE claim is recovered.
RoutesFinished(d, row) ==
    CASE ex[d].prior # None -> IF row.checkpoint = "COMPLETE" THEN "done" ELSE "raise"
      [] ex[d].prior = None /\ row = None -> "insert"
      [] OTHER -> IF row.checkpoint = "COMPLETE" THEN "store" ELSE "raise"

\* load_automl_claim, and where run_discovery goes with what it has read.
Route(d, row) ==
    CASE ex[d].prior # None ->
            IF row = None THEN "done"
            ELSE IF row.evidence # ex[d].prior.evidence THEN "raise"
            ELSE CASE row.checkpoint = "EVIDENCE_READY" -> "complete"
                   [] row.checkpoint = "COMPLETE" -> "done"
                   [] OTHER -> "raise"
      [] ex[d].prior = None /\ row = None -> "insert"
      [] OTHER ->
            CASE row.checkpoint \in HasEvidence -> "store"
              [] row.checkpoint = "FAILED" -> "storefailed"
              [] OTHER -> "raise"

Follow(d, step, row) ==
    CASE step = "done" -> Return(d)
      [] step = "raise" -> Raise(d)
      [] OTHER -> ex' = [ex EXCEPT ![d].pc = step, ![d].mine = row]

LoadClaim(d) == At(d, "load") /\ Reads /\ Follow(d, Route(d, claim), claim)

\* Mutant: a claim that has failed is replaced, as one of a research build is.
InsertsOverFailed(d) ==
    LET row == Row(minted + 1, "CLAIMED", 0, None, d)
    IN  /\ At(d, "insert")
        /\ minted' = minted + 1
        /\ claim' = IF claim = None \/ claim.checkpoint = "FAILED" THEN row ELSE claim
        /\ ex' = [ex EXCEPT ![d].pc = "inserted", ![d].sent = row]
        /\ UNCHANGED <<receipt, experiments, faults>>

\* The insert-only MERGE of claim_automl_discovery, under a token of its own.
Insert(d) ==
    LET row == Row(minted + 1, "CLAIMED", 0, None, d)
    IN  /\ At(d, "insert")
        /\ minted' = minted + 1
        /\ claim' = IF claim = None THEN row ELSE claim
        /\ ex' = [ex EXCEPT ![d].pc = "inserted", ![d].sent = row]
        /\ UNCHANGED <<receipt, experiments, faults>>

\* Mutant: the claim that is read back is taken for one's own.
InsertedByAny(d) ==
    /\ At(d, "inserted") /\ Reads
    /\ ex' = [ex EXCEPT ![d].pc = "prepare", ![d].mine = claim]

\* It is the claim of this driver if it carries the token.
Inserted(d) ==
    /\ At(d, "inserted") /\ Reads
    /\ IF claim.token = ex[d].sent.token
       THEN ex' = [ex EXCEPT ![d].pc = "prepare", ![d].mine = claim]
       ELSE Raise(d)

-----------------------------------------------------------------------------
\* _owned_transition: a guarded MERGE, then the row is read back and must be
\* the one that was sent.
Transition(d, checkpoint, evidence, next) ==
    LET seen == ex[d].mine
        row == Row(seen.token, checkpoint, seen.version + 1, evidence, d)
        matches == /\ claim # None
                   /\ claim.token = seen.token
                   /\ claim.checkpoint = seen.checkpoint
                   /\ claim.version = seen.version
    IN  /\ claim' = IF matches THEN row ELSE claim
        /\ ex' = [ex EXCEPT ![d].pc = "confirm", ![d].sent = row, ![d].then = next]
        /\ OnlyClaim

Confirm(d) ==
    /\ At(d, "confirm") /\ Reads
    /\ IF claim # ex[d].sent THEN Raise(d)
       ELSE IF ex[d].then = "done" THEN Return(d)
       ELSE ex' = [ex EXCEPT ![d].pc = ex[d].then, ![d].mine = claim]

-----------------------------------------------------------------------------
(* The owner's way, which ends in evidence or in a recorded failure.       *)

\* read_automl_discovery_frame and _prepare_automl_frame
Prepare(d) == At(d, "prepare") /\ Reads /\ (Go(d, "start") \/ Go(d, "fail"))

Start(d) == At(d, "start") /\ Transition(d, "RUNNING", None, "classify")

\* classify starts the experiment, whether or not it comes back with trials.
Classify(d) ==
    /\ At(d, "classify")
    /\ experiments' = experiments + 1
    /\ \/ ex' = [ex EXCEPT ![d].pc = "leaderboard", ![d].found = experiments + 1]
       \/ Go(d, "fail")
    /\ UNCHANGED <<claim, receipt, minted, faults>>

\* _log_leaderboard_artifact
Leaderboard(d) == At(d, "leaderboard") /\ Reads /\ (Go(d, "record") \/ Go(d, "fail"))

\* Mutant: the claim is completed first and the receipt stored after.
RecordsComplete(d) ==
    At(d, "record") /\ Transition(d, "COMPLETE", ex[d].found, "store")

Record(d) == At(d, "record") /\ Transition(d, "EVIDENCE_READY", ex[d].found, "store")

\* fail_automl_claim, which refuses a claim with evidence.
FailClaim(d) ==
    /\ At(d, "fail")
    /\ ex[d].mine.checkpoint \in {"CLAIMED", "RUNNING"}
    /\ Transition(d, "FAILED", None, "storefailed")

-----------------------------------------------------------------------------
(* The receipt, a pure function of the claim as it was last read.          *)

ReceiptOf(row) ==
    [status |-> IF row.checkpoint \in HasEvidence THEN "READY" ELSE "FAILED",
     evidence |-> row.evidence,
     completed |-> [checkpoint |-> row.checkpoint, by |-> row.by]]

\* persist_automl_discovery_receipt: an immutable row of the claim's attempt.
Store(d) ==
    LET row == ReceiptOf(ex[d].mine)
    IN  /\ At(d, "store") \/ At(d, "storefailed")
        /\ receipt' = IF receipt = None THEN row ELSE receipt
        /\ CASE receipt' # row \/ At(d, "storefailed") -> Raise(d)
             [] receipt' = row /\ At(d, "store")
                /\ ex[d].mine.checkpoint = "EVIDENCE_READY" -> Go(d, "complete")
             [] OTHER -> Return(d)
        /\ UNCHANGED <<claim, experiments, minted, faults>>

\* complete_automl_claim, by the owner or by whoever found the evidence.
Complete(d) ==
    At(d, "complete") /\ Transition(d, "COMPLETE", ex[d].mine.evidence, "done")

-----------------------------------------------------------------------------
\* The driver is lost, or a read or a write raises outside the two handlers,
\* be it after the write has succeeded.
Fault(d) ==
    /\ ex[d].pc \notin {"idle", "done"} /\ faults < MaxFaults
    /\ faults' = faults + 1
    /\ Raise(d)
    /\ UNCHANGED <<claim, receipt, experiments, minted>>

Step(d) ==
    \/ LoadPrior(d) \/ LoadClaim(d) \/ Insert(d) \/ Inserted(d) \/ Confirm(d)
    \/ Prepare(d) \/ Start(d) \/ Classify(d) \/ Leaderboard(d) \/ Record(d)
    \/ FailClaim(d) \/ Store(d) \/ Complete(d)

Next == \E d \in Drivers : Step(d) \/ Fault(d)

Spec == Init /\ [][Next]_vars

\* A driver at work goes on, and one that has not succeeded is run again.
FairSpec == Spec /\ \A d \in Drivers : WF_vars(Step(d))

-----------------------------------------------------------------------------
(* Correctness.                                                            *)

Steps == {"idle", "load", "insert", "inserted", "confirm", "prepare", "start", "classify",
          "leaderboard", "record", "fail", "store", "storefailed", "complete", "done"}

\* Types of the claim, the receipt and the executions.
TypeOK ==
    /\ claim \in ClaimRow \cup {None}
    /\ receipt \in ReceiptRow \cup {None}
    /\ experiments \in Nat /\ minted \in Nat /\ faults \in 0 .. MaxFaults
    /\ ex \in [Drivers -> [pc : Steps, prior : ReceiptRow \cup {None},
                           mine : ClaimRow \cup {None}, sent : ClaimRow \cup {None},
                           then : Steps, found : Nat]]

\* A request starts at most one experiment, however its drivers overlap, crash
\* and are run again ("A duplicate experiment will not be launched
\* automatically", automl_claims.py).
OneExperiment == experiments <= 1

\* The receipt says what the claim says: a READY one carries the evidence that
\* the claim has locked, a FAILED one stands for a claim that has failed, and a
\* COMPLETE claim has its READY receipt (complete_automl_claim: "after its
\* immutable READY receipt exists").
ReceiptTellsClaim ==
    /\ receipt # None =>
          /\ claim # None
          /\ receipt.status = "READY" <=> claim.checkpoint \in HasEvidence
          /\ receipt.status = "FAILED" <=> claim.checkpoint = "FAILED"
          /\ receipt.evidence = claim.evidence
    /\ claim # None /\ claim.checkpoint = "COMPLETE" => receipt # None

\* Only the driver that made the claim moves it as long as it has no evidence,
\* and evidence once locked is neither lost nor replaced nor failed.
NeverTakenOver ==
    claim # None => /\ claim' # None /\ claim'.token = claim.token
                    /\ claim.checkpoint \notin HasEvidence => claim'.by = claim.by
                    /\ claim.checkpoint \in HasEvidence =>
                          /\ claim'.checkpoint \in HasEvidence
                          /\ claim'.evidence = claim.evidence

ClaimIsFenced == [][NeverTakenOver]_vars

\* Evidence that is locked reaches every driver: each one, also the owner that
\* crashed before its receipt, ends with the READY receipt and no second
\* experiment.
EvidenceIsDelivered ==
    claim # None /\ claim.checkpoint = "EVIDENCE_READY"
        ~> \A d \in Drivers : ex[d].pc = "done"
=============================================================================
