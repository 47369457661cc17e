----------------------------- MODULE ClaimLedger -----------------------------
(***************************************************************************)
(* What the claim of a research build promises to the runs that use it,    *)
(* without clocks, versions or read-back: one entry, moved only under the  *)
(* token it carries, from checkpoint to checkpoint.  ResearchClaim shows   *)
(* that the MERGE protocol of research_claims.py implements it.            *)
(*                                                                         *)
(* Whether the lease has lapsed matters to takeovers only.  The holder of  *)
(* a lapsed entry may still move it as long as nobody has taken it: the    *)
(* code compares the lease with a clock read at the start of an operation. *)
(***************************************************************************)
EXTENDS ResearchCheckpoints

CONSTANTS Runs, Codes, Tokens

VARIABLES
    entry,    \* None, or the build's code, attempt, owner, token, checkpoint, refs
    lapsed    \* the lease of the entry is over

ledgerVars == <<entry, lapsed>>

Fresh(r, c, t) ==
    [code |-> c, attempt |-> t, owner |-> r, token |-> t,
     checkpoint |-> CLAIMED, refs |-> NoRefs]

LedgerInit == entry = None /\ lapsed = FALSE

\* The first claim, or a fresh attempt after a failure of other code.
Open(r, c, t) ==
    /\ \/ entry = None
       \/ entry # None /\ entry.checkpoint = FAILED /\ entry.code # c
    /\ entry' = Fresh(r, c, t)

\* The owner's next execution takes the entry at once, another run once the
\* lease has lapsed; the attempt and what it has locked stay.
TakeOver(r, c, t) ==
    /\ entry # None
    /\ entry.checkpoint \notin Terminal
    /\ entry.code = c
    /\ entry.owner = r \/ lapsed
    /\ entry' = [entry EXCEPT !.owner = r, !.token = t]

Advance(t, v) ==
    /\ entry # None
    /\ entry.token = t
    /\ entry.checkpoint \notin Terminal
    /\ LET next == entry.checkpoint + 1
       IN  /\ SetOnce(entry.refs, next, v)
           /\ PayloadComplete(next, Locked(entry.refs, next, v))
           /\ entry' = [entry EXCEPT !.checkpoint = next,
                                     !.refs = Locked(@, next, v)]

Fail(t) ==
    /\ entry # None
    /\ entry.token = t
    /\ entry.checkpoint \notin Terminal
    /\ entry' = [entry EXCEPT !.checkpoint = FAILED]

\* Time passes, or the holder renews or releases.
Lease == entry' = entry

LedgerNext ==
    \/ \E r \in Runs, c \in Codes, t \in Tokens : Open(r, c, t) \/ TakeOver(r, c, t)
    \/ \E t \in Tokens, v \in RefVals : Advance(t, v)
    \/ \E t \in Tokens : Fail(t)
    \/ Lease

Ledger == LedgerInit /\ [][LedgerNext /\ lapsed' \in BOOLEAN]_ledgerVars
=============================================================================
