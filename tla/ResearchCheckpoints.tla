------------------------- MODULE ResearchCheckpoints -------------------------
(***************************************************************************)
(* The checkpoints of a model research claim and the references each one   *)
(* locks (src/src/next_ads/model_development/research_claims.py), shared   *)
(* by the claim protocol, its abstract ledger and the research runtime.    *)
(***************************************************************************)
EXTENDS Naturals

CONSTANTS
    RefVals,    \* values an external reference can take
    None        \* SQL NULL

CLAIMED          == 0
FRAME_READY      == 1
PARENT_READY     == 2
CANDIDATES_READY == 3
SELECTION_LOCKED == 4
REGISTERED       == 5
COMPLETE         == 6
FAILED           == 7

Checkpoints == CLAIMED .. COMPLETE
Terminal    == {COMPLETE, FAILED}

\* The references a claim locks: the frame binding, the MLflow parent
\* (experiment and run), the selection decision with its model build.
RefNames == {"frame", "parent", "decision"}
\* Mutant: a fresh attempt leaves the decision columns out.
NoRefsButDecision == [n \in RefNames \ {"decision"} |-> None]

NoRefs   == [n \in RefNames |-> None]

\* The checkpoint from which each reference must be present.
NeededFrom == [frame |-> FRAME_READY, parent |-> PARENT_READY,
               decision |-> SELECTION_LOCKED]

PayloadComplete(checkpoint, refs) ==
    \A n \in RefNames : checkpoint \in NeededFrom[n] .. COMPLETE => refs[n] # None

\* The references the callers hand to an advance towards a checkpoint.
Supplied(checkpoint) ==
    CASE checkpoint = FRAME_READY  -> {"frame"}
      [] checkpoint = PARENT_READY -> {"parent"}
      [] checkpoint \in {SELECTION_LOCKED, REGISTERED, COMPLETE} -> {"decision"}
      [] OTHER -> {}

\* An advance sets the supplied references, and never to a second value.
SetOnce(refs, checkpoint, v) ==
    \A n \in Supplied(checkpoint) : refs[n] \in {None, v}
Locked(refs, checkpoint, v) ==
    [n \in RefNames |-> IF n \in Supplied(checkpoint) THEN v ELSE refs[n]]
=============================================================================
