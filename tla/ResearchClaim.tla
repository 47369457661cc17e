---------------------------- MODULE ResearchClaim ----------------------------
(***************************************************************************)
(* The ownership and recovery protocol of one model research build         *)
(* (src/src/next_ads/model_development/research_claims.py).                *)
(*                                                                         *)
(* One row of the claim table is shared by every job run that was given    *)
(* the same logical build.  A run takes the row with a MERGE under a fresh *)
(* lease token, then moves it from checkpoint to checkpoint.  Nothing is   *)
(* locked while it works: every operation reads the clock, reads the row,  *)
(* decides, writes with a guarded MERGE and reads the row back, and any    *)
(* other run, or a crash, may come between two of those steps.             *)
(*                                                                         *)
(* Drivers share one clock.  A run is the top-level job run, the identity  *)
(* `_claim_owner_id` keeps across its task retries: its executions follow  *)
(* one another, and each claims once, so the number of an execution's      *)
(* lease token also stands for the attempt id that it proposes.            *)
(***************************************************************************)
EXTENDS ResearchCheckpoints

CONSTANTS
    Runs,           \* top-level job runs: the owner invocation ids
    Codes,          \* values of code_sha
    LeaseSeconds,   \* length of a lease, in clock ticks
    MaxClock,       \* bound on the clock
    MaxTokens,      \* bound on the lease tokens (uuid4) drawn
    MaxVersion      \* bound on checkpoint_version

ClaimRow ==
    [code : Codes, attempt : Nat, owner : Runs, token : Nat, expires : Nat,
     checkpoint : Checkpoints \cup {FAILED}, version : Nat,
     refs : [RefNames -> RefVals \cup {None}], created : Nat, updated : Nat]

\* What the ledger keeps of a row.
LedgerEntry ==
    [code : Codes, attempt : Nat, owner : Runs, token : Nat,
     checkpoint : Checkpoints \cup {FAILED},
     refs : [RefNames -> RefVals \cup {None}]]

Operations == {"renew", "release", "advance", "fail"}
NoTask == [op |-> "renew", target |-> CLAIMED, ref |-> None]

ASSUME ClaimAssumption ==
    /\ LeaseSeconds \in Nat \ {0}
    /\ MaxClock \in Nat /\ MaxTokens \in Nat /\ MaxVersion \in Nat
    /\ None \notin RefVals \cup Codes
    /\ None \notin ClaimRow \cup LedgerEntry

VARIABLES
    now,      \* the clock
    claim,    \* the stored row, or None
    minted,   \* lease tokens drawn so far
    pc,       \* where each run is: idle, acquire, verify, held, load, write, confirm
    code,     \* code_sha of the run's current execution
    tok,      \* lease token of the run's current execution
    until,    \* lease_expires_at of the claim the execution was handed
    at,       \* the `now` that the current operation captured
    task,     \* the operation in progress and its arguments
    seen      \* the row that the current operation has loaded

locals == <<pc, code, tok, until, at, task, seen>>
vars == <<now, claim, minted, locals>>

PCs == {"idle", "acquire", "verify", "held", "load", "write", "confirm"}

Init ==
    /\ now = 0
    /\ claim = None
    /\ minted = 0
    /\ pc = [r \in Runs |-> "idle"]
    /\ code = [r \in Runs |-> None]
    /\ tok = [r \in Runs |-> 0]
    /\ until = [r \in Runs |-> 0]
    /\ at = [r \in Runs |-> 0]
    /\ task = [r \in Runs |-> NoTask]
    /\ seen = [r \in Runs |-> None]

-----------------------------------------------------------------------------
(* Rows an operation computes.                                             *)

\* What ResearchClaim.__post_init__ accepts when a row is loaded.
Readable(row) == row.created <= row.updated

\* The row proposed by claim_research_build.
Proposed(r) ==
    [code |-> code[r], attempt |-> tok[r], owner |-> r, token |-> tok[r],
     expires |-> at[r] + LeaseSeconds, checkpoint |-> CLAIMED, version |-> 0,
     refs |-> NoRefs, created |-> at[r], updated |-> at[r]]

\* The row an operation on a held claim writes, from the row it has loaded.
Updated(r) ==
    LET t == task[r]
        touched == [seen[r] EXCEPT !.version = @ + 1, !.updated = at[r],
                                   !.expires = at[r] + LeaseSeconds]
    IN  CASE t.op = "renew"   -> touched
          [] t.op = "release" -> [touched EXCEPT !.expires = at[r]]
          [] t.op = "fail"    -> [touched EXCEPT !.checkpoint = FAILED]
          [] t.op = "advance" -> [touched EXCEPT !.checkpoint = t.target,
                                                 !.refs = Locked(@, t.target, t.ref)]

-----------------------------------------------------------------------------
(* The end of an operation: the run keeps its claim, or its execution ends. *)

Keep(r) ==
    /\ pc' = [pc EXCEPT ![r] = "held"]
    /\ until' = [until EXCEPT ![r] = claim.expires]
    /\ at' = [at EXCEPT ![r] = 0]
    /\ task' = [task EXCEPT ![r] = NoTask]
    /\ seen' = [seen EXCEPT ![r] = None]
    /\ UNCHANGED <<code, tok>>

End(r) ==
    /\ pc' = [pc EXCEPT ![r] = "idle"]
    /\ code' = [code EXCEPT ![r] = None]
    /\ tok' = [tok EXCEPT ![r] = 0]
    /\ until' = [until EXCEPT ![r] = 0]
    /\ at' = [at EXCEPT ![r] = 0]
    /\ task' = [task EXCEPT ![r] = NoTask]
    /\ seen' = [seen EXCEPT ![r] = None]

\* The execution raises, is cancelled or loses its driver.
Abandon(r) ==
    /\ pc[r] # "idle"
    /\ End(r)
    /\ UNCHANGED <<now, claim, minted>>

Tick ==
    /\ now < MaxClock
    /\ now' = now + 1
    /\ UNCHANGED <<claim, minted, locals>>

-----------------------------------------------------------------------------
(* claim_research_build: capture `now` and a fresh token, MERGE, read back. *)

BeginClaim(r) ==
    /\ pc[r] = "idle"
    /\ minted < MaxTokens
    /\ minted' = minted + 1
    /\ tok' = [tok EXCEPT ![r] = minted + 1]
    /\ at' = [at EXCEPT ![r] = now]
    /\ \E c \in Codes : code' = [code EXCEPT ![r] = c]
    /\ pc' = [pc EXCEPT ![r] = "acquire"]
    /\ UNCHANGED <<now, claim, until, task, seen>>

\* Mutant: a failed attempt is replaced by any later claim.
RestartsAny(r) == claim.checkpoint = FAILED

\* A failed attempt of other code is replaced by a fresh attempt.
RestartsFailed(r) ==
    /\ claim.checkpoint = FAILED
    /\ claim.code # code[r]

\* Mutant: the lease of the owner is not looked at.
TakesOverAnyone(r) ==
    /\ claim.checkpoint \notin Terminal
    /\ claim.code = code[r]

\* A live attempt is taken by its owner's next execution, or once it lapses.
TakesOver(r) ==
    /\ claim.checkpoint \notin Terminal
    /\ claim.code = code[r]
    /\ claim.owner = r \/ claim.expires <= at[r]

\* Mutant: a takeover does not count as a version.
AcquiredSilently(r) ==
    IF claim = None THEN Proposed(r)
    ELSE IF RestartsFailed(r)
         THEN [Proposed(r) EXCEPT !.version = claim.version + 1]
    ELSE IF TakesOver(r)
         THEN [claim EXCEPT !.owner = r, !.token = tok[r],
                            !.expires = at[r] + LeaseSeconds, !.updated = at[r]]
    ELSE claim

Acquired(r) ==
    IF claim = None THEN Proposed(r)
    ELSE IF RestartsFailed(r)
         THEN [Proposed(r) EXCEPT !.version = claim.version + 1]
    ELSE IF TakesOver(r)
         THEN [claim EXCEPT !.owner = r, !.token = tok[r],
                            !.expires = at[r] + LeaseSeconds,
                            !.version = @ + 1, !.updated = at[r]]
    ELSE claim

MergeAcquisition(r) ==
    /\ pc[r] = "acquire"
    /\ claim # None => claim.version < MaxVersion
    /\ claim' = Acquired(r)
    /\ pc' = [pc EXCEPT ![r] = "verify"]
    /\ UNCHANGED <<now, minted, code, tok, until, at, task, seen>>

\* A terminal row ends the execution too: it is reused, never worked on.
VerifyAcquisition(r) ==
    /\ pc[r] = "verify"
    /\ IF /\ Readable(claim)
          /\ claim.code = code[r]
          /\ claim.checkpoint \notin Terminal
          /\ claim.token = tok[r]
          /\ claim.owner = r
          /\ claim.expires > at[r]
       THEN Keep(r)
       ELSE End(r)
    /\ UNCHANGED <<now, claim, minted>>

-----------------------------------------------------------------------------
(* renew, release, advance and fail: capture `now`, load and validate,     *)
(* MERGE, read back.                                                       *)

Begin(r, t) ==
    /\ pc[r] = "held"
    /\ pc' = [pc EXCEPT ![r] = "load"]
    /\ at' = [at EXCEPT ![r] = now]
    /\ task' = [task EXCEPT ![r] = t]
    /\ UNCHANGED <<now, claim, minted, code, tok, until, seen>>

BeginRenew(r)   == Begin(r, NoTask)
BeginRelease(r) == Begin(r, [NoTask EXCEPT !.op = "release"])
BeginFail(r)    == \E c \in CLAIMED .. REGISTERED :
                       Begin(r, [NoTask EXCEPT !.op = "fail", !.target = c])
BeginAdvance(r) == \E c \in FRAME_READY .. COMPLETE, v \in RefVals :
                       Begin(r, [op |-> "advance", target |-> c, ref |-> v])

\* _validate_live_owner
LiveOwner(r, row) ==
    /\ row.owner = r
    /\ row.token = tok[r]
    /\ row.expires > at[r]

Workable(r) ==
    /\ Readable(claim)
    /\ claim.checkpoint \notin Terminal
    /\ LiveOwner(r, claim)

\* Mutant: an advance does not check where it starts, nor what the row holds.
PermittedAnywhere(r) ==
    LET t == task[r]
    IN  CASE t.op = "advance" -> SetOnce(claim.refs, t.target, t.ref)
          [] t.op = "fail"    -> claim.checkpoint = t.target
          [] OTHER            -> TRUE

\* The conditions particular to each operation; a failed one raises.
Permitted(r) ==
    LET t == task[r]
    IN  CASE t.op = "advance" ->
               /\ claim.checkpoint = t.target - 1
               /\ SetOnce(claim.refs, t.target, t.ref)
               /\ PayloadComplete(t.target, Locked(claim.refs, t.target, t.ref))
          [] t.op = "fail"    -> claim.checkpoint = t.target
          [] OTHER            -> TRUE

\* An advance to the checkpoint the row already has becomes a renewal, which
\* loads the row again under the same `now`.
AlreadyThere(r) == task[r].op = "advance" /\ claim.checkpoint = task[r].target

Load(r) ==
    /\ pc[r] = "load"
    /\ IF ~Workable(r) THEN End(r)
       ELSE IF AlreadyThere(r)
            THEN /\ task' = [task EXCEPT ![r] = NoTask]
                 /\ UNCHANGED <<pc, code, tok, until, at, seen>>
       ELSE IF ~Permitted(r) THEN End(r)
       ELSE /\ seen' = [seen EXCEPT ![r] = claim]
            /\ pc' = [pc EXCEPT ![r] = "write"]
            /\ UNCHANGED <<code, tok, until, at, task>>
    /\ UNCHANGED <<now, claim, minted>>

\* Mutant: the MERGE is fenced by the checkpoint alone.
MatchesUnfenced(r) ==
    /\ claim.expires > Updated(r).updated
    /\ claim.checkpoint = seen[r].checkpoint

\* The guard of _merge_claim_transition.
Matches(r) ==
    /\ claim.owner = Updated(r).owner
    /\ claim.token = Updated(r).token
    /\ claim.expires > Updated(r).updated
    /\ claim.checkpoint = seen[r].checkpoint
    /\ claim.version + 1 = Updated(r).version

Write(r) ==
    /\ pc[r] = "write"
    /\ seen[r].version < MaxVersion
    /\ claim' = IF Matches(r)
                THEN [claim EXCEPT !.owner = Updated(r).owner,
                                   !.token = Updated(r).token,
                                   !.expires = Updated(r).expires,
                                   !.checkpoint = Updated(r).checkpoint,
                                   !.version = Updated(r).version,
                                   !.refs = Updated(r).refs,
                                   !.updated = Updated(r).updated]
                ELSE claim
    /\ pc' = [pc EXCEPT ![r] = "confirm"]
    /\ UNCHANGED <<now, minted, code, tok, until, at, task, seen>>

\* The row read back must be the row written, in every field.
Confirm(r) ==
    /\ pc[r] = "confirm"
    /\ IF /\ claim = Updated(r)
          /\ task[r].op \in {"renew", "advance"}
          /\ claim.checkpoint # COMPLETE
       THEN Keep(r)
       ELSE End(r)
    /\ UNCHANGED <<now, claim, minted>>

-----------------------------------------------------------------------------
Step(r) ==
    \/ BeginClaim(r) \/ MergeAcquisition(r) \/ VerifyAcquisition(r)
    \/ BeginRenew(r) \/ BeginRelease(r) \/ BeginFail(r) \/ BeginAdvance(r)
    \/ Load(r) \/ Write(r) \/ Confirm(r)

Next == Tick \/ \E r \in Runs : Step(r) \/ Abandon(r)

Spec == Init /\ [][Next]_vars

-----------------------------------------------------------------------------
(* Correctness.                                                            *)

\* Types of the clock, the stored row and the runs' local state.
TypeOK ==
    /\ now \in 0 .. MaxClock
    /\ claim \in ClaimRow \cup {None}
    /\ minted \in 0 .. MaxTokens
    /\ pc \in [Runs -> PCs]
    /\ code \in [Runs -> Codes \cup {None}]
    /\ tok \in [Runs -> 0 .. MaxTokens]
    /\ until \in [Runs -> Nat]
    /\ at \in [Runs -> 0 .. MaxClock]
    /\ task \in [Runs -> [op : Operations, target : Checkpoints,
                          ref : RefVals \cup {None}]]
    /\ seen \in [Runs -> ClaimRow \cup {None}]

\* A run that believes its lease is running, and is not giving the claim up.
Holds(r) ==
    /\ pc[r] \in {"held", "load", "write", "confirm"}
    /\ task[r].op \in {"renew", "advance"}
    /\ until[r] > now

\* Two runs never hold unexpired leases on one build at the same time, though
\* each trusts only the row it last read back and a clock it read earlier
\* (the lease and token checks of _merge_claim_acquisition, _validate_live_owner).
LeaseExclusion ==
    \A r, s \in Runs : Holds(r) /\ Holds(s) => r = s

\* checkpoint_version identifies the row: when a delayed transition finds the
\* version it has loaded, the row is the one it has loaded in every field, so
\* writing all mutable fields back overwrites nobody (_merge_claim_transition).
VersionIdentifiesRow ==
    \A r \in Runs :
        pc[r] = "write" /\ claim.version = seen[r].version => claim = seen[r]

\* Whatever takeovers and restarts came between, a row at a checkpoint has all
\* the references a resuming run reads from it, and can be loaded at all
\* (_validate_checkpoint_payload, ResearchClaim.__post_init__).
ResumableRow ==
    claim # None =>
        /\ Readable(claim)
        /\ claim.checkpoint # FAILED => PayloadComplete(claim.checkpoint, claim.refs)

\* An attempt moves to its next checkpoint or fails, and keeps each reference
\* it has locked; a new attempt starts only from a failed one of other code.
AttemptMovesForward ==
    [][claim # None /\ claim' # claim =>
          /\ claim'.version = claim.version + 1
          /\ IF claim'.attempt = claim.attempt
             THEN /\ claim.checkpoint \notin Terminal
                  /\ claim'.checkpoint \in {claim.checkpoint, claim.checkpoint + 1, FAILED}
                  /\ \A n \in RefNames :
                        claim.refs[n] # None => claim'.refs[n] = claim.refs[n]
             ELSE /\ claim.checkpoint = FAILED
                  /\ claim'.checkpoint = CLAIMED
                  /\ claim'.code # claim.code]_vars

\* A run loses an unfinished build to another run only when its lease is over
\* by the clock at that moment, not merely by the clock the taker remembers.
TakenOnlyAfterExpiry ==
    [][\/ claim = None
       \/ claim.checkpoint = FAILED
       \/ claim'.owner = claim.owner
       \/ claim.expires <= now]_vars

\* The protocol implements the ledger: every change of the stored row is one
\* of the ledger's moves (ClaimLedger says what the callers rely on).
Stored == [code |-> claim.code, attempt |-> claim.attempt, owner |-> claim.owner,
           token |-> claim.token, checkpoint |-> claim.checkpoint,
           refs |-> claim.refs]

L == INSTANCE ClaimLedger WITH
        Tokens <- 1 .. MaxTokens,
        entry  <- IF claim = None THEN None ELSE Stored,
        lapsed <- claim # None /\ claim.expires <= now

ImplementsLedger == L!Ledger
=============================================================================
