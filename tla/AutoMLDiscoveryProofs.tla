----------------------- MODULE AutoMLDiscoveryProofs -----------------------
(***************************************************************************)
(* For any set of drivers and any number of faults: one experiment per     *)
(* request, a receipt that tells what the claim tells, a fenced claim.     *)
(*                                                                         *)
(* The argument: at most one driver holds the claim, the one whose token   *)
(* it carries, and as long as it has no evidence the row is the one that   *)
(* driver knows; so classify is reached once.  A driver that does not hold *)
(* the claim acts on locked evidence only, which no step changes.          *)
(***************************************************************************)
EXTENDS AutoMLDiscovery, TLAPS

\* The steps at which a driver knows the claim to be the row it has in hand.
Knows == {"prepare", "start", "classify", "leaderboard", "record", "fail"}

\* A driver that may still move the claim before there is evidence.
Holds(d) ==
    \/ ex[d].pc \in Knows
    \/ ex[d].pc = "confirm" /\ ex[d].then = "classify"
    \/ ex[d].pc = "inserted" /\ claim # None /\ claim.token = ex[d].sent.token

\* Tokens are drawn once.
Tokens ==
    /\ claim # None => claim.token <= minted
    /\ \A d \in Drivers : ex[d].pc = "inserted" =>
          /\ claim # None /\ ex[d].sent # None /\ ex[d].sent.token <= minted
          /\ \A e \in Drivers : ex[e].pc = "inserted" /\ ex[e].sent.token = ex[d].sent.token
                                   => e = d

\* The holder's row is the claim, at the checkpoint that fits its step.
HolderKnows ==
    \A d \in Drivers :
        /\ Holds(d) =>
              /\ claim # None /\ claim.by = d /\ claim.evidence = None
              /\ \A e \in Drivers : Holds(e) => e = d
        /\ ex[d].pc \in Knows => ex[d].mine = claim
        /\ ex[d].pc \in {"prepare", "start", "inserted"} /\ Holds(d) =>
              claim.checkpoint = "CLAIMED"
        /\ ex[d].pc \in {"classify", "leaderboard", "record"} => claim.checkpoint = "RUNNING"
        /\ ex[d].pc = "fail" => claim.checkpoint \in {"CLAIMED", "RUNNING"}
        /\ ex[d].pc = "confirm" /\ ex[d].then = "classify" =>
              claim.checkpoint = "RUNNING" /\ ex[d].sent = claim
        /\ ex[d].pc \in {"leaderboard", "record"} => ex[d].found # 0

\* An experiment has been started only by a holder that is past classify.
Started ==
    /\ experiments <= 1
    /\ experiments = 1 =>
          /\ claim # None /\ claim.checkpoint # "CLAIMED"
          /\ \A d \in Drivers : /\ ex[d].pc # "classify"
                                /\ ~(ex[d].pc = "confirm" /\ ex[d].then = "classify")

\* What a driver that does not hold the claim acts on.
EvidenceOf(d) ==
    /\ ex[d].pc = "load" /\ ex[d].prior # None =>
          receipt = ex[d].prior /\ receipt.status = "READY"
    /\ ex[d].pc \in {"store", "complete"} =>
          /\ claim # None /\ claim.checkpoint \in HasEvidence
          /\ ex[d].mine # None /\ ex[d].mine.checkpoint \in HasEvidence
          /\ ex[d].mine.evidence = claim.evidence
    /\ ex[d].pc = "complete" =>
          receipt # None /\ ex[d].mine.checkpoint = "EVIDENCE_READY"
    /\ ex[d].pc = "storefailed" =>
          claim # None /\ ex[d].mine = claim /\ claim.checkpoint = "FAILED"
    /\ ex[d].pc = "confirm" =>
          /\ ex[d].then \in {"classify", "store", "storefailed", "done"}
          /\ ex[d].sent # None /\ claim # None
    /\ ex[d].pc = "confirm" /\ ex[d].then = "store" =>
          ex[d].sent.checkpoint = "EVIDENCE_READY"
    /\ ex[d].pc = "confirm" /\ ex[d].then = "storefailed" =>
          ex[d].sent.checkpoint = "FAILED"

Evidence ==
    /\ claim # None => (claim.evidence # None <=> claim.checkpoint \in HasEvidence)
    /\ \A d \in Drivers : EvidenceOf(d)

IInv == TypeOK /\ Tokens /\ HolderKnows /\ Started /\ Evidence /\ ReceiptTellsClaim

\* The executions of TypeOK, and the steps at which a driver holds nothing.
Execution == [pc : Steps, prior : ReceiptRow \cup {None}, mine : ClaimRow \cup {None},
              sent : ClaimRow \cup {None}, then : Steps, found : Nat]
Aside == {"idle", "load", "insert", "store", "storefailed", "complete", "done"}

\* The part of TypeOK that is not about the executions.
TablesOK ==
    /\ claim \in ClaimRow \cup {None}
    /\ receipt \in ReceiptRow \cup {None}
    /\ experiments \in Nat /\ minted \in Nat /\ faults \in 0 .. MaxFaults


\* TypeOK, in its two parts.
LEMMA TypesSplit == TypeOK <=> TablesOK /\ ex \in [Drivers -> Execution]
  BY DEF TypeOK, TablesOK, Execution

\* A step of a driver changes its own execution.
LEMMA DriverMoves ==
    ASSUME TypeOK, NEW d \in Drivers, NEW new \in Execution, ex' = [ex EXCEPT ![d] = new]
    PROVE  /\ ex' \in [Drivers -> Execution]
           /\ ex'[d] = new
           /\ \A e \in Drivers : e # d => ex'[e] = ex[e]
  BY TypesSplit

\* An execution that has ended, and one that is about to begin.
LEMMA EndsTyped == Idle \in Execution /\ [Idle EXCEPT !.pc = "done"] \in Execution
                   /\ [Idle EXCEPT !.pc = "done"].pc = "done" /\ Idle.pc = "idle"
  BY DEF Idle, Execution, Steps

\* A driver that holds nothing, or gives up what it held, disturbs nobody.
LEMMA StepsAside ==
    ASSUME IInv, NEW d \in Drivers, UNCHANGED <<claim, experiments, minted>>,
           \A e \in Drivers : e # d => ex'[e] = ex[e], ex'[d].pc \in Aside
    PROVE  Tokens' /\ HolderKnows' /\ Started'
<1>1. \A e \in Drivers : Holds(e)' => Holds(e) /\ e # d
  BY DEF Holds, Knows, Aside
<1>2. Tokens'
  BY DEF IInv, Tokens, Aside
<1>3. HolderKnows'
  BY <1>1 DEF IInv, HolderKnows, Knows, Aside
<1>4. Started'
  BY DEF IInv, Started, Aside
<1>. QED  BY <1>2, <1>3, <1>4

\* The tables stay as they are, and so does what the other drivers know.
LEMMA OthersKnow ==
    ASSUME IInv, NEW d \in Drivers, UNCHANGED <<claim, receipt>>,
           \A e \in Drivers : e # d => ex'[e] = ex[e], EvidenceOf(d)'
    PROVE  Evidence' /\ ReceiptTellsClaim'
<1>1. Evidence'
  BY DEF IInv, Evidence, EvidenceOf
<1>2. ReceiptTellsClaim'
  BY DEF IInv, ReceiptTellsClaim
<1>. QED  BY <1>1, <1>2


\* An execution that ends, well or badly, or dies, leaves the tables as they are.
LEMMA DriverEnds ==
    ASSUME IInv, NEW d \in Drivers, NEW new \in Execution, new.pc \in {"idle", "done"},
           ex' = [ex EXCEPT ![d] = new], faults' \in 0 .. MaxFaults,
           UNCHANGED <<claim, receipt, experiments, minted>>
    PROVE  IInv'
<1>1. /\ ex' \in [Drivers -> Execution] /\ ex'[d] = new
      /\ \A e \in Drivers : e # d => ex'[e] = ex[e]
  BY DriverMoves DEF IInv
<1>2. TypeOK'
  BY <1>1, TypesSplit DEF IInv, TablesOK, TypeOK, Execution
<1>3. Tokens' /\ HolderKnows' /\ Started'
  BY <1>1, StepsAside DEF Aside
<1>4. EvidenceOf(d)'
  BY <1>1 DEF EvidenceOf
<1>. QED  BY <1>1, <1>2, <1>3, <1>4, OthersKnow DEF IInv

\* The holder goes from step to step with its row in hand.
LEMMA HolderGoesOn ==
    ASSUME IInv, NEW d \in Drivers, ex[d].pc \in Knows,
           NEW step \in {"start", "record", "fail"}, Go(d, step),
           UNCHANGED <<claim, receipt, experiments, minted, faults>>,
           step = "start" => claim.checkpoint = "CLAIMED",
           step = "record" => claim.checkpoint = "RUNNING" /\ ex[d].found # 0,
           step = "fail" => claim.checkpoint \in {"CLAIMED", "RUNNING"}
    PROVE  IInv'
<1> DEFINE new == [ex[d] EXCEPT !.pc = step]
<1>1. ex' = [ex EXCEPT ![d] = new]
  <2>1. ex' = [ex EXCEPT ![d].pc = step]
    BY DEF Go
  <2>. QED  BY <2>1, Zenon
<1>2. new \in Execution /\ new.pc = step /\ new.mine = ex[d].mine /\ new.found = ex[d].found
  <2>1. ex[d] \in Execution
    BY TypesSplit DEF IInv
  <2>. QED  BY <2>1 DEF Execution, Steps
<1>. HIDE DEF new
<1>3. /\ ex' \in [Drivers -> Execution] /\ ex'[d] = new
      /\ \A e \in Drivers : e # d => ex'[e] = ex[e]
  BY <1>1, <1>2, DriverMoves DEF IInv
<1>4. TypeOK'
  BY <1>3, TypesSplit DEF IInv, TablesOK, TypeOK, Execution
<1>5. Holds(d)
  BY DEF Holds
<1>6. /\ claim # None /\ claim.by = d /\ claim.evidence = None /\ ex[d].mine = claim
      /\ \A e \in Drivers : Holds(e) => e = d
  BY <1>5 DEF IInv, HolderKnows
<1>7. Tokens'
  BY <1>2, <1>3 DEF IInv, Tokens
<1>8. \A e \in Drivers : e # d => ~Holds(e)'
  BY <1>3, <1>6 DEF Holds
<1>9. HolderKnows'
  BY <1>2, <1>3, <1>6, <1>8 DEF HolderKnows, Holds, Knows
<1>10. Started'
  BY <1>2, <1>3 DEF IInv, Started
<1>11. EvidenceOf(d)'
  BY <1>2, <1>3 DEF EvidenceOf
<1>. QED  BY <1>3, <1>4, <1>7, <1>9, <1>10, <1>11, OthersKnow DEF IInv

-----------------------------------------------------------------------------
\* What a transition does: it sends a row, and the row becomes the claim if
\* the claim is still the one the driver has in hand.
LEMMA TransitionDoes ==
    ASSUME TypeOK, NEW d \in Drivers, ex[d].mine # None,
           NEW checkpoint \in Checkpoints, NEW evidence \in Evidences, NEW next \in Steps,
           Transition(d, checkpoint, evidence, next)
    PROVE  LET row == Row(ex[d].mine.token, checkpoint, ex[d].mine.version + 1, evidence, d)
           IN  /\ TypeOK'
               /\ row \in ClaimRow
               /\ \A e \in Drivers : e # d => ex'[e] = ex[e]
               /\ ex'[d].pc = "confirm" /\ ex'[d].then = next /\ ex'[d].sent = row
               /\ \/ claim' = claim
                  \/ /\ claim' = row /\ claim # None
                     /\ claim.token = ex[d].mine.token
                     /\ claim.checkpoint = ex[d].mine.checkpoint
               /\ claim = ex[d].mine => claim' = row
               /\ UNCHANGED <<receipt, experiments, minted>>
<1> DEFINE seen == ex[d].mine
           row == Row(seen.token, checkpoint, seen.version + 1, evidence, d)
<1>1. seen \in ClaimRow
  BY DEF TypeOK
<1>2. row \in ClaimRow
  BY <1>1 DEF ClaimRow, Row
<1>3. ex' = [ex EXCEPT ![d].pc = "confirm", ![d].sent = row, ![d].then = next]
  BY DEF Transition
<1>4. \A e \in Drivers : e # d => ex'[e] = ex[e]
  BY <1>3 DEF TypeOK
<1>5. ex'[d] = [ex[d] EXCEPT !.pc = "confirm", !.sent = row, !.then = next]
  BY <1>3 DEF TypeOK
<1>6. ex'[d].pc = "confirm" /\ ex'[d].then = next /\ ex'[d].sent = row
  BY <1>5 DEF TypeOK
<1>7. claim' = IF /\ claim # None /\ claim.token = seen.token
                 /\ claim.checkpoint = seen.checkpoint /\ claim.version = seen.version
              THEN row ELSE claim
  BY DEF Transition
<1>8. TypeOK'
  <2>1. claim' \in ClaimRow \cup {None}
    BY <1>2, <1>7 DEF TypeOK
  <2> DEFINE new == [ex[d] EXCEPT !.pc = "confirm", !.sent = row, !.then = next]
  <2>2. ex' = [ex EXCEPT ![d] = new]
    BY <1>3, Zenon
  <2>3. new \in Execution
    <3>1. ex[d] \in Execution
      BY TypesSplit
    <3>. QED  BY <1>2, <3>1 DEF Execution, Steps
  <2>. HIDE DEF new
  <2>4. ex' \in [Drivers -> Execution]
    BY <2>2, <2>3, DriverMoves
  <2>5. receipt' = receipt /\ experiments' = experiments /\ minted' = minted /\ faults' = faults
    BY DEF Transition, OnlyClaim
  <2>. QED  BY <2>1, <2>4, <2>5, TypesSplit DEF TablesOK, TypeOK, Execution
<1>. HIDE DEF row
<1>9. UNCHANGED <<receipt, experiments, minted>>
  BY DEF Transition, OnlyClaim
<1>. QED  BY <1>1, <1>2, <1>4, <1>6, <1>7, <1>8, <1>9 DEF row

\* Reading the receipt first only moves the driver.
LEMMA LoadPriorKeeps ==
    ASSUME IInv, NEW d \in Drivers, LoadPrior(d)
    PROVE  IInv'
<1>1. PICK x \in ReceiptRow \cup {None} :
         /\ ex' = [ex EXCEPT ![d].pc = "load", ![d].prior = x]
         /\ x # None => receipt = x /\ receipt.status = "READY"
  BY DEF IInv, TypeOK, LoadPrior
<1>2. UNCHANGED <<claim, receipt, experiments, minted, faults>>
  BY DEF LoadPrior, Reads
<1> DEFINE new == [ex[d] EXCEPT !.pc = "load", !.prior = x]
<1>3. ex' = [ex EXCEPT ![d] = new]
  BY <1>1, Zenon
<1>4. ex[d] \in Execution
  BY TypesSplit DEF IInv
<1>5. new \in Execution /\ new.pc = "load" /\ new.prior = x
  BY <1>4 DEF Execution, Steps
<1>. HIDE DEF new
<1>6. /\ ex' \in [Drivers -> Execution] /\ ex'[d] = new
      /\ \A e \in Drivers : e # d => ex'[e] = ex[e]
  BY <1>3, <1>5, DriverMoves DEF IInv
<1>7. TypeOK'
  BY <1>2, <1>6, TypesSplit DEF IInv, TablesOK, TypeOK, Execution
<1>8. Tokens' /\ HolderKnows' /\ Started'
  BY <1>2, <1>5, <1>6, StepsAside DEF Aside
<1>9. Evidence' /\ ReceiptTellsClaim'
  <2>1. EvidenceOf(d)'
    BY <1>1, <1>2, <1>5, <1>6 DEF EvidenceOf
  <2>. QED  BY <2>1, <1>2, <1>6, OthersKnow
<1>. QED  BY <1>7, <1>8, <1>9 DEF IInv

\* Reading the claim gives the driver what the claim holds now.
LEMMA LoadClaimKeeps ==
    ASSUME IInv, NEW d \in Drivers, LoadClaim(d)
    PROVE  IInv'
<1>1. UNCHANGED <<claim, receipt, experiments, minted, faults>> /\ ex[d].pc = "load"
  BY DEF LoadClaim, Reads, At
<1>2. ex[d] \in Execution /\ claim \in ClaimRow \cup {None}
  BY TypesSplit DEF IInv, TypeOK
<1>3. \E new \in Execution :
         /\ ex' = [ex EXCEPT ![d] = new]
         /\ new.pc \in {"idle", "done", "complete", "insert", "store", "storefailed"}
         /\ new.pc \in {"complete", "insert", "store", "storefailed"} =>
               new.mine = claim /\ Route(d, claim) = new.pc
  <2>1. CASE Route(d, claim) = "done"
    BY <2>1, EndsTyped DEF LoadClaim, Follow, Return
  <2>2. CASE Route(d, claim) = "raise"
    BY <2>2, EndsTyped DEF LoadClaim, Follow, Raise
  <2>3. CASE Route(d, claim) \in {"complete", "insert", "store", "storefailed"}
    <3> DEFINE new == [ex[d] EXCEPT !.pc = Route(d, claim), !.mine = claim]
    <3>1. ex' = [ex EXCEPT ![d].pc = Route(d, claim), ![d].mine = claim]
      BY <2>3 DEF LoadClaim, Follow
    <3>2. ex' = [ex EXCEPT ![d] = new]
      BY <3>1, Zenon
    <3>3. new \in Execution /\ new.pc = Route(d, claim) /\ new.mine = claim
      BY <1>2, <2>3 DEF Execution, Steps
    <3>. HIDE DEF new
    <3>. QED  BY <2>3, <3>2, <3>3
  <2>. QED  BY <2>1, <2>2, <2>3 DEF Route
<1>4. PICK new \in Execution :
         /\ ex' = [ex EXCEPT ![d] = new]
         /\ new.pc \in {"idle", "done", "complete", "insert", "store", "storefailed"}
         /\ new.pc \in {"complete", "insert", "store", "storefailed"} =>
               new.mine = claim /\ Route(d, claim) = new.pc
  BY <1>3
<1>6. /\ ex' \in [Drivers -> Execution] /\ ex'[d] = new
      /\ \A e \in Drivers : e # d => ex'[e] = ex[e]
  BY <1>4, DriverMoves DEF IInv
<1>7. TypeOK'
  BY <1>1, <1>6, TypesSplit DEF IInv, TablesOK, TypeOK, Execution
<1>8. Tokens' /\ HolderKnows' /\ Started'
  BY <1>1, <1>4, <1>6, StepsAside DEF Aside
<1>9. Evidence' /\ ReceiptTellsClaim'
  <2>1. new.pc \in {"store", "complete"} => claim # None /\ claim.checkpoint \in HasEvidence
    BY <1>1, <1>4 DEF Route, IInv, Evidence, HasEvidence
  <2>2. new.pc = "complete" => receipt # None /\ claim.checkpoint = "EVIDENCE_READY"
    <3>1. new.pc = "complete" => ex[d].prior # None /\ claim.checkpoint = "EVIDENCE_READY"
      BY <1>4 DEF Route, HasEvidence
    <3>. QED  BY <1>1, <3>1 DEF IInv, Evidence, EvidenceOf
  <2>3. new.pc = "storefailed" => claim # None /\ claim.checkpoint = "FAILED"
    BY <1>4 DEF Route
  <2>4. EvidenceOf(d)'
    BY <1>1, <1>4, <1>6, <2>1, <2>2, <2>3 DEF EvidenceOf
  <2>. QED  BY <2>4, <1>1, <1>6, OthersKnow
<1>. QED  BY <1>7, <1>8, <1>9 DEF IInv

\* The insert of claim_automl_discovery leaves every claim that is there.
LEMMA InsertKeeps ==
    ASSUME IInv, NEW d \in Drivers, Insert(d)
    PROVE  IInv'
<1> DEFINE row == Row(minted + 1, "CLAIMED", 0, None, d)
           new == [ex[d] EXCEPT !.pc = "inserted", !.sent = row]
<1>1. /\ ex[d].pc = "insert" /\ minted' = minted + 1
      /\ claim' = IF claim = None THEN row ELSE claim
      /\ UNCHANGED <<receipt, experiments, faults>>
  BY DEF Insert, At
<1>2. row \in ClaimRow /\ row # None
  BY DiscoveryAssumption DEF IInv, TypeOK, ClaimRow, Row, Checkpoints, Evidences
<1>3. /\ row.token = minted + 1 /\ row.checkpoint = "CLAIMED" /\ row.evidence = None
      /\ row.by = d
  BY DEF Row
<1>4. ex' = [ex EXCEPT ![d] = new]
  <2>1. ex' = [ex EXCEPT ![d].pc = "inserted", ![d].sent = row]
    BY DEF Insert
  <2>. QED  BY <2>1, Zenon
<1>. HIDE DEF row
<1>5. new \in Execution /\ new.pc = "inserted" /\ new.sent = row
  <2>1. ex[d] \in Execution
    BY TypesSplit DEF IInv
  <2>. QED  BY <1>2, <2>1 DEF Execution, Steps
<1>. HIDE DEF new
<1>6. /\ ex' \in [Drivers -> Execution] /\ ex'[d] = new
      /\ \A e \in Drivers : e # d => ex'[e] = ex[e]
  BY <1>4, <1>5, DriverMoves DEF IInv
<1>7. TypeOK'
  BY <1>1, <1>2, <1>6, TypesSplit DEF IInv, TablesOK, TypeOK, Execution
<1>8. claim # None => claim.token <= minted /\ claim.token # minted + 1
  BY DEF IInv, Tokens, TypeOK, ClaimRow
<1>9. \A e \in Drivers : ex[e].pc = "inserted" =>
         ex[e].sent.token <= minted /\ ex[e].sent.token # minted + 1
  BY DEF IInv, Tokens, TypeOK, ClaimRow
<1>10. Tokens'
  <2>1. claim' # None /\ claim'.token <= minted'
    BY <1>1, <1>2, <1>3, <1>8 DEF IInv, TypeOK, ClaimRow
  <2>2. \A e \in Drivers : ex'[e].pc = "inserted" => ex'[e].sent # None /\ ex'[e].sent.token <= minted'
    BY <1>1, <1>2, <1>3, <1>5, <1>6 DEF IInv, Tokens, TypeOK, ClaimRow
  <2>3. \A e, f \in Drivers : ex'[e].pc = "inserted" /\ ex'[f].pc = "inserted"
                              /\ ex'[f].sent.token = ex'[e].sent.token => f = e
    <3> SUFFICES ASSUME NEW e \in Drivers, NEW f \in Drivers, ex'[e].pc = "inserted",
                        ex'[f].pc = "inserted", ex'[f].sent.token = ex'[e].sent.token
                 PROVE  f = e
      OBVIOUS
    <3>1. CASE e = d \/ f = d
      BY <1>3, <1>5, <1>6, <1>9, <3>1
    <3>2. CASE e # d /\ f # d
      BY <1>6, <3>2 DEF IInv, Tokens
    <3>. QED  BY <3>1, <3>2
  <2>. QED  BY <2>1, <2>2, <2>3 DEF Tokens
<1>11. CASE claim = None
  <2>1. claim' = row
    BY <1>1, <1>11
  <2>2. \A e \in Drivers : e # d => ex'[e].pc \notin Knows /\ ex'[e].pc # "inserted"
                                 /\ ex'[e].pc # "confirm"
    BY <1>6, <1>11 DEF IInv, Tokens, HolderKnows, Holds, Evidence, EvidenceOf
  <2>3. HolderKnows'
    BY <1>2, <1>3, <1>5, <1>6, <2>1, <2>2 DEF HolderKnows, Holds, Knows
  <2>4. Started'
    BY <1>1, <1>11 DEF IInv, Started, TypeOK
  <2>5. receipt = None
    BY <1>11 DEF IInv, ReceiptTellsClaim
  <2>6. Evidence'
    <3>1. \A e \in Drivers : e # d => EvidenceOf(e)'
      BY <1>1, <1>6, <1>11, <2>2, <2>5 DEF IInv, Evidence, EvidenceOf
    <3>2. EvidenceOf(d)'
      BY <1>5, <1>6 DEF EvidenceOf
    <3>. QED  BY <1>2, <1>3, <2>1, <3>1, <3>2 DEF Evidence, HasEvidence
  <2>7. ReceiptTellsClaim'
    BY <1>1, <1>3, <2>1, <2>5 DEF ReceiptTellsClaim
  <2>. QED  BY <1>7, <1>10, <2>3, <2>4, <2>6, <2>7 DEF IInv
<1>12. CASE claim # None
  <2>1. claim' = claim
    BY <1>1, <1>12
  <2>2. ~Holds(d)'
    BY <1>3, <1>5, <1>6, <1>8, <1>12, <2>1 DEF Holds, Knows
  <2>3. \A e \in Drivers : Holds(e)' => Holds(e) /\ e # d
    BY <1>6, <2>1, <2>2 DEF Holds
  <2>4. HolderKnows'
    BY <1>5, <1>6, <2>1, <2>3 DEF IInv, HolderKnows, Knows
  <2>5. Started'
    BY <1>1, <1>5, <1>6, <2>1 DEF IInv, Started
  <2>6. EvidenceOf(d)'
    BY <1>5, <1>6 DEF EvidenceOf
  <2>7. Evidence' /\ ReceiptTellsClaim'
    BY <1>1, <1>6, <2>1, <2>6, OthersKnow
  <2>. QED  BY <1>7, <1>10, <2>4, <2>5, <2>7 DEF IInv
<1>. QED  BY <1>11, <1>12

\* A driver that reads back its own token holds the claim.
LEMMA InsertedKeeps ==
    ASSUME IInv, NEW d \in Drivers, Inserted(d)
    PROVE  IInv'
<1>1. UNCHANGED <<claim, receipt, experiments, minted, faults>> /\ ex[d].pc = "inserted"
  BY DEF Inserted, Reads, At
<1>2. ex[d] \in Execution /\ claim \in ClaimRow /\ ex[d].sent # None
  BY <1>1, TypesSplit DEF IInv, TypeOK, Tokens
<1>3. CASE claim.token = ex[d].sent.token
  <2> DEFINE new == [ex[d] EXCEPT !.pc = "prepare", !.mine = claim]
  <2>1. ex' = [ex EXCEPT ![d] = new]
    <3>1. ex' = [ex EXCEPT ![d].pc = "prepare", ![d].mine = claim]
      BY <1>3 DEF Inserted
    <3>. QED  BY <3>1, Zenon
  <2>2. new \in Execution /\ new.pc = "prepare" /\ new.mine = claim
    BY <1>2 DEF Execution, Steps
  <2>. HIDE DEF new
  <2>3. /\ ex' \in [Drivers -> Execution] /\ ex'[d] = new
        /\ \A e \in Drivers : e # d => ex'[e] = ex[e]
    BY <2>1, <2>2, DriverMoves DEF IInv
  <2>4. TypeOK'
    BY <1>1, <2>3, TypesSplit DEF IInv, TablesOK, TypeOK, Execution
  <2>5. claim # None
    BY <1>1 DEF IInv, Tokens
  <2>6. Holds(d)
    BY <1>1, <1>3, <2>5 DEF Holds
  <2>7. /\ claim.by = d /\ claim.evidence = None /\ claim.checkpoint = "CLAIMED"
        /\ \A e \in Drivers : Holds(e) => e = d
    BY <1>1, <2>6 DEF IInv, HolderKnows
  <2>8. Tokens'
    BY <1>1, <2>2, <2>3 DEF IInv, Tokens
  <2>9. \A e \in Drivers : e # d => ~Holds(e)'
    BY <1>1, <2>3, <2>7 DEF Holds
  <2>10. HolderKnows'
    BY <1>1, <2>2, <2>3, <2>5, <2>7, <2>9 DEF HolderKnows, Holds, Knows
  <2>11. Started'
    BY <1>1, <2>2, <2>3, <2>7 DEF IInv, Started
  <2>12. EvidenceOf(d)'
    BY <2>2, <2>3 DEF EvidenceOf
  <2>. QED  BY <1>1, <2>3, <2>4, <2>8, <2>10, <2>11, <2>12, OthersKnow DEF IInv
<1>4. CASE claim.token # ex[d].sent.token
  <2>1. Raise(d)
    BY <1>4, Zenon DEF Inserted
  <2>2. ex' = [ex EXCEPT ![d] = Idle]
    BY <2>1 DEF Raise
  <2>3. faults' \in 0 .. MaxFaults
    BY <1>1 DEF IInv, TypeOK
  <2>. QED  BY <1>1, <2>2, <2>3, DriverEnds, EndsTyped
<1>. QED  BY <1>3, <1>4

\* The read-back of a transition tells the driver nothing it may not know.
LEMMA ConfirmKeeps ==
    ASSUME IInv, NEW d \in Drivers, Confirm(d)
    PROVE  IInv'
<1>1. UNCHANGED <<claim, receipt, experiments, minted, faults>> /\ ex[d].pc = "confirm"
  BY DEF Confirm, Reads, At
<1>2. /\ ex[d] \in Execution /\ claim \in ClaimRow \cup {None}
      /\ ex[d].then \in {"classify", "store", "storefailed", "done"}
  BY <1>1, TypesSplit DEF IInv, TypeOK, Evidence, EvidenceOf
<1>3. CASE claim # ex[d].sent
  <2>1. Raise(d)
    BY <1>3, Zenon DEF Confirm
  <2>2. ex' = [ex EXCEPT ![d] = Idle]
    BY <2>1 DEF Raise
  <2>3. faults' \in 0 .. MaxFaults
    BY <1>1 DEF IInv, TypeOK
  <2>. QED  BY <1>1, <2>2, <2>3, DriverEnds, EndsTyped
<1>4. CASE claim = ex[d].sent /\ ex[d].then = "done"
  <2>1. Return(d)
    BY <1>4, Zenon DEF Confirm
  <2>2. ex' = [ex EXCEPT ![d] = [Idle EXCEPT !.pc = "done"]]
    BY <2>1 DEF Return
  <2>3. faults' \in 0 .. MaxFaults
    BY <1>1 DEF IInv, TypeOK
  <2>. QED  BY <1>1, <2>2, <2>3, DriverEnds, EndsTyped
<1>5. CASE claim = ex[d].sent /\ ex[d].then # "done"
  <2> DEFINE new == [ex[d] EXCEPT !.pc = ex[d].then, !.mine = claim]
  <2>1. ex' = [ex EXCEPT ![d] = new]
    <3>1. ex' = [ex EXCEPT ![d].pc = ex[d].then, ![d].mine = claim]
      BY <1>5 DEF Confirm
    <3>. QED  BY <3>1, Zenon
  <2>2. new \in Execution /\ new.pc = ex[d].then /\ new.mine = claim
    BY <1>2 DEF Execution, Steps
  <2>. HIDE DEF new
  <2>3. /\ ex' \in [Drivers -> Execution] /\ ex'[d] = new
        /\ \A e \in Drivers : e # d => ex'[e] = ex[e]
    BY <2>1, <2>2, DriverMoves DEF IInv
  <2>4. TypeOK'
    BY <1>1, <2>3, TypesSplit DEF IInv, TablesOK, TypeOK, Execution
  <2>5. claim # None
    BY <1>1 DEF IInv, Evidence, EvidenceOf
  <2>6. CASE ex[d].then = "classify"
    <3>1. Holds(d)
      BY <1>1, <2>6 DEF Holds
    <3>2. /\ claim.by = d /\ claim.evidence = None /\ claim.checkpoint = "RUNNING"
          /\ \A e \in Drivers : Holds(e) => e = d
      BY <1>1, <2>6, <3>1 DEF IInv, HolderKnows
    <3>3. Tokens'
      BY <1>1, <2>2, <2>3, <2>6 DEF IInv, Tokens
    <3>4. \A e \in Drivers : e # d => ~Holds(e)'
      BY <1>1, <2>3, <3>2 DEF Holds
    <3>5. HolderKnows'
      BY <1>1, <2>2, <2>3, <2>5, <2>6, <3>2, <3>4 DEF HolderKnows, Holds, Knows
    <3>6. Started'
      BY <1>1, <2>2, <2>3, <2>6 DEF IInv, Started, TypeOK
    <3>7. EvidenceOf(d)'
      BY <2>2, <2>3, <2>6 DEF EvidenceOf
    <3>. QED  BY <1>1, <2>3, <2>4, <3>3, <3>5, <3>6, <3>7, OthersKnow DEF IInv
  <2>7. CASE ex[d].then \in {"store", "storefailed"}
    <3>1. Tokens' /\ HolderKnows' /\ Started'
      BY <1>1, <2>2, <2>3, <2>7, StepsAside DEF Aside
    <3>2. ex[d].then = "store" => claim.checkpoint = "EVIDENCE_READY"
      BY <1>1, <1>5 DEF IInv, Evidence, EvidenceOf
    <3>3. ex[d].then = "storefailed" => claim.checkpoint = "FAILED"
      BY <1>1, <1>5 DEF IInv, Evidence, EvidenceOf
    <3>4. EvidenceOf(d)'
      BY <1>1, <2>2, <2>3, <2>5, <2>7, <3>2, <3>3 DEF EvidenceOf, HasEvidence
    <3>. QED  BY <1>1, <2>3, <2>4, <3>1, <3>4, OthersKnow DEF IInv
  <2>. QED  BY <1>2, <1>5, <2>6, <2>7
<1>. QED  BY <1>3, <1>4, <1>5

\* Preparing the frame changes the driver alone.
LEMMA PrepareKeeps ==
    ASSUME IInv, NEW d \in Drivers, Prepare(d)
    PROVE  IInv'
<1>1. /\ UNCHANGED <<claim, receipt, experiments, minted, faults>> /\ ex[d].pc = "prepare"
      /\ Go(d, "start") \/ Go(d, "fail")
  BY DEF Prepare, Reads, At
<1>2. claim.checkpoint = "CLAIMED"
  BY <1>1 DEF IInv, HolderKnows, Holds, Knows
<1>. QED  BY <1>1, <1>2, HolderGoesOn DEF Knows

\* Only the holder of a fresh claim starts the experiment.
LEMMA StartKeeps ==
    ASSUME IInv, NEW d \in Drivers, Start(d)
    PROVE  IInv'
<1> USE DiscoveryAssumption
<1> DEFINE row == Row(ex[d].mine.token, "RUNNING", ex[d].mine.version + 1, None, d)
<1>a. ex[d].mine # None /\ ex[d].mine = claim /\ Holds(d) /\ ex[d].pc = "start"
  BY DEF Start, At, IInv, TypeOK, Tokens, HolderKnows, Holds, Knows, Started,
    Evidence, EvidenceOf, HasEvidence, Checkpoints, Steps, Evidences, ClaimRow, ReceiptRow,
    HasEvidence
<1>b. None \in Evidences /\ "RUNNING" \in Checkpoints /\ "classify" \in Steps
  BY <1>a DEF IInv, TypeOK, Checkpoints, Steps, Evidences, ClaimRow, ReceiptRow,
    HasEvidence
<1>c. Transition(d, "RUNNING", None, "classify")
  BY DEF Start
<1>d. /\ TypeOK' /\ row \in ClaimRow
      /\ \A e \in Drivers : e # d => ex'[e] = ex[e]
      /\ ex'[d].pc = "confirm" /\ ex'[d].then = "classify" /\ ex'[d].sent = row
      /\ \/ claim' = claim
         \/ /\ claim' = row /\ claim # None
            /\ claim.token = ex[d].mine.token
            /\ claim.checkpoint = ex[d].mine.checkpoint
      /\ claim = ex[d].mine => claim' = row
      /\ UNCHANGED <<receipt, experiments, minted>>
  BY <1>a, <1>b, <1>c, TransitionDoes DEF IInv
<1>e. /\ row.token = ex[d].mine.token /\ row.checkpoint = "RUNNING"
      /\ row.evidence = None /\ row.by = d /\ row # None
  BY <1>d DEF Row
<1>. HIDE DEF row
<1>1. TypeOK'
  BY <1>d
<1>2. Tokens'
  BY <1>a, <1>d, <1>e DEF IInv, TypeOK, Tokens, HolderKnows, Holds, Knows, Started,
    Evidence, EvidenceOf, HasEvidence
<1>3. HolderKnows'
  BY <1>a, <1>d, <1>e DEF IInv, TypeOK, Tokens, HolderKnows, Holds, Knows, Started,
    Evidence, EvidenceOf, HasEvidence
<1>4. Started'
  BY <1>a, <1>d, <1>e DEF IInv, TypeOK, Tokens, HolderKnows, Holds, Knows, Started,
    Evidence, EvidenceOf, HasEvidence
<1>5. Evidence'
  BY <1>a, <1>d, <1>e DEF IInv, TypeOK, Tokens, HolderKnows, Holds, Knows, Started,
    Evidence, EvidenceOf, HasEvidence, ReceiptTellsClaim
<1>6. ReceiptTellsClaim'
  BY <1>a, <1>d, <1>e DEF IInv, TypeOK, Tokens, HolderKnows, Holds, Knows, Started,
    Evidence, EvidenceOf, HasEvidence, ReceiptTellsClaim
<1>. QED  BY <1>1, <1>2, <1>3, <1>4, <1>5, <1>6 DEF IInv

\* The outcome of the experiment is read by the driver that ran it.
LEMMA ClassifyKeeps ==
    ASSUME IInv, NEW d \in Drivers, Classify(d)
    PROVE  IInv'
<1>1. /\ UNCHANGED <<claim, receipt, minted, faults>> /\ ex[d].pc = "classify"
      /\ experiments' = experiments + 1
  BY DEF Classify, At
<1>2. Holds(d) /\ ex[d] \in Execution
  BY <1>1, TypesSplit DEF IInv, Holds, Knows
<1>3. /\ claim # None /\ claim.by = d /\ claim.evidence = None /\ claim.checkpoint = "RUNNING"
      /\ ex[d].mine = claim /\ \A e \in Drivers : Holds(e) => e = d
  BY <1>1, <1>2 DEF IInv, HolderKnows, Knows
<1>4. experiments = 0
  BY <1>1 DEF IInv, Started, TypeOK
<1>5. \E new \in Execution :
         /\ ex' = [ex EXCEPT ![d] = new] /\ new.mine = ex[d].mine
         /\ new.pc \in {"leaderboard", "fail"}
         /\ new.pc = "leaderboard" => new.found # 0
  <2>1. CASE Go(d, "fail")
    <3> DEFINE new == [ex[d] EXCEPT !.pc = "fail"]
    <3>1. ex' = [ex EXCEPT ![d].pc = "fail"]
      BY <2>1 DEF Go
    <3>2. ex' = [ex EXCEPT ![d] = new]
      BY <3>1, Zenon
    <3>3. new \in Execution /\ new.pc = "fail" /\ new.mine = ex[d].mine
      BY <1>2 DEF Execution, Steps
    <3>. HIDE DEF new
    <3>. QED  BY <3>2, <3>3
  <2>2. CASE ex' = [ex EXCEPT ![d].pc = "leaderboard", ![d].found = experiments + 1]
    <3> DEFINE new == [ex[d] EXCEPT !.pc = "leaderboard", !.found = 1]
    <3>1. ex' = [ex EXCEPT ![d] = new]
      <4>1. experiments + 1 = 1
        BY <1>4
      <4>. QED  BY <2>2, <4>1, Zenon
    <3>2. new \in Execution
      BY <1>2 DEF Execution, Steps
    <3>3. new.pc = "leaderboard" /\ new.mine = ex[d].mine /\ new.found = 1
      BY <1>2 DEF Execution
    <3>4. new.found # 0
      BY <3>3
    <3>. HIDE DEF new
    <3>5. new.pc \in {"leaderboard", "fail"}
      BY <3>3
    <3>. QED  BY <3>1, <3>2, <3>3, <3>4, <3>5, Zenon
  <2>. QED  BY <2>1, <2>2 DEF Classify
<1>6. PICK new \in Execution :
         /\ ex' = [ex EXCEPT ![d] = new] /\ new.mine = ex[d].mine
         /\ new.pc \in {"leaderboard", "fail"}
         /\ new.pc = "leaderboard" => new.found # 0
  BY <1>5
<1>7. /\ ex' \in [Drivers -> Execution] /\ ex'[d] = new
      /\ \A e \in Drivers : e # d => ex'[e] = ex[e]
  BY <1>6, DriverMoves DEF IInv
<1>8. TypeOK'
  BY <1>1, <1>4, <1>7, TypesSplit DEF IInv, TablesOK, TypeOK, Execution
<1>9. Tokens'
  BY <1>1, <1>6, <1>7 DEF IInv, Tokens
<1>10. \A e \in Drivers : e # d => ~Holds(e)'
  BY <1>1, <1>3, <1>7 DEF Holds
<1>11. HolderKnows'
  BY <1>1, <1>3, <1>6, <1>7, <1>10 DEF HolderKnows, Holds, Knows
<1>12. Started'
  BY <1>1, <1>3, <1>4, <1>6, <1>7, <1>10 DEF Started, Holds, Knows
<1>13. EvidenceOf(d)'
  BY <1>6, <1>7 DEF EvidenceOf
<1>. QED  BY <1>1, <1>7, <1>8, <1>9, <1>11, <1>12, <1>13, OthersKnow DEF IInv

\* The leaderboard is logged by the driver that ran the experiment.
LEMMA LeaderboardKeeps ==
    ASSUME IInv, NEW d \in Drivers, Leaderboard(d)
    PROVE  IInv'
<1>1. /\ UNCHANGED <<claim, receipt, experiments, minted, faults>> /\ ex[d].pc = "leaderboard"
      /\ Go(d, "record") \/ Go(d, "fail")
  BY DEF Leaderboard, Reads, At
<1>2. claim.checkpoint = "RUNNING" /\ ex[d].found # 0
  BY <1>1 DEF IInv, HolderKnows
<1>. QED  BY <1>1, <1>2, HolderGoesOn DEF Knows

\* Evidence goes to the row of the driver that recorded it.
LEMMA RecordKeeps ==
    ASSUME IInv, NEW d \in Drivers, Record(d)
    PROVE  IInv'
<1> USE DiscoveryAssumption
<1> DEFINE row == Row(ex[d].mine.token, "EVIDENCE_READY", ex[d].mine.version + 1, ex[d].found, d)
<1>a. ex[d].mine # None /\ ex[d].mine = claim /\ Holds(d) /\ ex[d].pc = "record" /\ ex[d].found # 0
  BY DEF Record, At, IInv, TypeOK, Tokens, HolderKnows, Holds, Knows, Started,
    Evidence, EvidenceOf, HasEvidence, Checkpoints, Steps, Evidences, ClaimRow, ReceiptRow,
    HasEvidence
<1>b. ex[d].found \in Evidences /\ "EVIDENCE_READY" \in Checkpoints /\ "store" \in Steps
  BY <1>a DEF IInv, TypeOK, Checkpoints, Steps, Evidences, ClaimRow, ReceiptRow,
    HasEvidence
<1>c. Transition(d, "EVIDENCE_READY", ex[d].found, "store")
  BY DEF Record
<1>d. /\ TypeOK' /\ row \in ClaimRow
      /\ \A e \in Drivers : e # d => ex'[e] = ex[e]
      /\ ex'[d].pc = "confirm" /\ ex'[d].then = "store" /\ ex'[d].sent = row
      /\ \/ claim' = claim
         \/ /\ claim' = row /\ claim # None
            /\ claim.token = ex[d].mine.token
            /\ claim.checkpoint = ex[d].mine.checkpoint
      /\ claim = ex[d].mine => claim' = row
      /\ UNCHANGED <<receipt, experiments, minted>>
  BY <1>a, <1>b, <1>c, TransitionDoes DEF IInv
<1>e. /\ row.token = ex[d].mine.token /\ row.checkpoint = "EVIDENCE_READY"
      /\ row.evidence = ex[d].found /\ row.by = d /\ row # None
  BY <1>d DEF Row
<1>. HIDE DEF row
<1>1. TypeOK'
  BY <1>d
<1>2. Tokens'
  BY <1>a, <1>d, <1>e DEF IInv, TypeOK, Tokens, HolderKnows, Holds, Knows, Started,
    Evidence, EvidenceOf, HasEvidence
<1>3. HolderKnows'
  BY <1>a, <1>d, <1>e DEF IInv, TypeOK, Tokens, HolderKnows, Holds, Knows, Started,
    Evidence, EvidenceOf, HasEvidence
<1>4. Started'
  BY <1>a, <1>d, <1>e DEF IInv, TypeOK, Tokens, HolderKnows, Holds, Knows, Started,
    Evidence, EvidenceOf, HasEvidence
<1>5. Evidence'
  BY <1>a, <1>d, <1>e DEF IInv, TypeOK, Tokens, HolderKnows, Holds, Knows, Started,
    Evidence, EvidenceOf, HasEvidence, ReceiptTellsClaim
<1>6. ReceiptTellsClaim'
  <2>1. claim # None /\ claim.checkpoint \in {"CLAIMED", "RUNNING"}
    BY <1>a DEF IInv, HolderKnows, Holds, Knows
  <2>2. receipt = None
    BY <2>1 DEF IInv, ReceiptTellsClaim, HasEvidence, ReceiptRow, TypeOK
  <2>. QED  BY <1>a, <1>d, <1>e, <2>2 DEF ReceiptTellsClaim
<1>. QED  BY <1>1, <1>2, <1>3, <1>4, <1>5, <1>6 DEF IInv

\* A claim that fails has no evidence and no COMPLETE receipt.
LEMMA FailClaimKeeps ==
    ASSUME IInv, NEW d \in Drivers, FailClaim(d)
    PROVE  IInv'
<1> USE DiscoveryAssumption
<1> DEFINE row == Row(ex[d].mine.token, "FAILED", ex[d].mine.version + 1, None, d)
<1>a. ex[d].mine # None /\ ex[d].mine = claim /\ Holds(d) /\ ex[d].pc = "fail"
  BY DEF FailClaim, At, IInv, TypeOK, Tokens, HolderKnows, Holds, Knows, Started,
    Evidence, EvidenceOf, HasEvidence, Checkpoints, Steps, Evidences, ClaimRow, ReceiptRow,
    HasEvidence
<1>b. None \in Evidences /\ "FAILED" \in Checkpoints /\ "storefailed" \in Steps
  BY <1>a DEF IInv, TypeOK, Checkpoints, Steps, Evidences, ClaimRow, ReceiptRow,
    HasEvidence
<1>c. Transition(d, "FAILED", None, "storefailed")
  BY DEF FailClaim
<1>d. /\ TypeOK' /\ row \in ClaimRow
      /\ \A e \in Drivers : e # d => ex'[e] = ex[e]
      /\ ex'[d].pc = "confirm" /\ ex'[d].then = "storefailed" /\ ex'[d].sent = row
      /\ \/ claim' = claim
         \/ /\ claim' = row /\ claim # None
            /\ claim.token = ex[d].mine.token
            /\ claim.checkpoint = ex[d].mine.checkpoint
      /\ claim = ex[d].mine => claim' = row
      /\ UNCHANGED <<receipt, experiments, minted>>
  BY <1>a, <1>b, <1>c, TransitionDoes DEF IInv
<1>e. /\ row.token = ex[d].mine.token /\ row.checkpoint = "FAILED"
      /\ row.evidence = None /\ row.by = d /\ row # None
  BY <1>d DEF Row
<1>. HIDE DEF row
<1>1. TypeOK'
  BY <1>d
<1>2. Tokens'
  BY <1>a, <1>d, <1>e DEF IInv, TypeOK, Tokens, HolderKnows, Holds, Knows, Started,
    Evidence, EvidenceOf, HasEvidence
<1>3. HolderKnows'
  BY <1>a, <1>d, <1>e DEF IInv, TypeOK, Tokens, HolderKnows, Holds, Knows, Started,
    Evidence, EvidenceOf, HasEvidence
<1>4. Started'
  BY <1>a, <1>d, <1>e DEF IInv, TypeOK, Tokens, HolderKnows, Holds, Knows, Started,
    Evidence, EvidenceOf, HasEvidence
<1>5. Evidence'
  BY <1>a, <1>d, <1>e DEF IInv, TypeOK, Tokens, HolderKnows, Holds, Knows, Started,
    Evidence, EvidenceOf, HasEvidence, ReceiptTellsClaim
<1>6. ReceiptTellsClaim'
  <2>1. claim # None /\ claim.checkpoint \in {"CLAIMED", "RUNNING"}
    BY <1>a DEF IInv, HolderKnows, Holds, Knows
  <2>2. receipt = None
    BY <2>1 DEF IInv, ReceiptTellsClaim, HasEvidence, ReceiptRow, TypeOK
  <2>. QED  BY <1>a, <1>d, <1>e, <2>2 DEF ReceiptTellsClaim
<1>. QED  BY <1>1, <1>2, <1>3, <1>4, <1>5, <1>6 DEF IInv

\* A receipt is built from the claim its driver has read.
LEMMA StoreKeeps ==
    ASSUME IInv, NEW d \in Drivers, Store(d)
    PROVE  IInv'
<1> DEFINE row == ReceiptOf(ex[d].mine)
<1>1. /\ UNCHANGED <<claim, experiments, minted, faults>> /\ ex[d].pc \in {"store", "storefailed"}
      /\ receipt' = IF receipt = None THEN row ELSE receipt
  BY DEF Store, At
<1>2. /\ claim # None /\ ex[d].mine # None /\ ex[d].mine.evidence = claim.evidence
      /\ ex[d].pc = "store" =>
            claim.checkpoint \in HasEvidence /\ ex[d].mine.checkpoint \in HasEvidence
      /\ ex[d].pc = "storefailed" =>
            claim.checkpoint = "FAILED" /\ ex[d].mine.checkpoint = "FAILED"
  BY <1>1 DEF IInv, Evidence, EvidenceOf
<1>3. ex[d] \in Execution /\ ex[d].mine \in ClaimRow /\ claim \in ClaimRow
  BY <1>2, TypesSplit DEF IInv, TypeOK, Execution
<1>4. row \in ReceiptRow /\ row # None
  BY <1>3, DiscoveryAssumption DEF ReceiptOf, ReceiptRow, ClaimRow
<1>5. /\ row.status = IF ex[d].mine.checkpoint \in HasEvidence THEN "READY" ELSE "FAILED"
      /\ row.evidence = ex[d].mine.evidence
  BY DEF ReceiptOf
<1>6. \E new \in Execution :
         /\ ex' = [ex EXCEPT ![d] = new] /\ new.pc \in {"idle", "done", "complete"}
         /\ new.pc = "complete" => /\ ex[d].pc = "store" /\ new.mine = ex[d].mine
                                   /\ ex[d].mine.checkpoint = "EVIDENCE_READY"
  <2>1. CASE Raise(d)
    BY <2>1, EndsTyped DEF Raise
  <2>2. CASE Return(d)
    BY <2>2, EndsTyped DEF Return
  <2>3. CASE Go(d, "complete") /\ At(d, "store") /\ ex[d].mine.checkpoint = "EVIDENCE_READY"
    <3> DEFINE new == [ex[d] EXCEPT !.pc = "complete"]
    <3>1. ex' = [ex EXCEPT ![d].pc = "complete"]
      BY <2>3 DEF Go
    <3>2. ex' = [ex EXCEPT ![d] = new]
      BY <3>1, Zenon
    <3>3. new \in Execution /\ new.pc = "complete" /\ new.mine = ex[d].mine
      BY <1>3 DEF Execution, Steps
    <3>. HIDE DEF new
    <3>. QED  BY <2>3, <3>2, <3>3 DEF At
  <2>. QED  BY <2>1, <2>2, <2>3 DEF Store
<1>7. PICK new \in Execution :
         /\ ex' = [ex EXCEPT ![d] = new] /\ new.pc \in {"idle", "done", "complete"}
         /\ new.pc = "complete" => /\ ex[d].pc = "store" /\ new.mine = ex[d].mine
                                   /\ ex[d].mine.checkpoint = "EVIDENCE_READY"
  BY <1>6
<1>8. /\ ex' \in [Drivers -> Execution] /\ ex'[d] = new
      /\ \A e \in Drivers : e # d => ex'[e] = ex[e]
  BY <1>7, DriverMoves DEF IInv
<1>. HIDE DEF row
<1>9. TypeOK'
  BY <1>1, <1>4, <1>8, TypesSplit DEF IInv, TablesOK, TypeOK, Execution
<1>10. Tokens' /\ HolderKnows' /\ Started'
  BY <1>1, <1>7, <1>8, StepsAside DEF Aside
<1>11. receipt' # None
  BY <1>1, <1>4
<1>12. EvidenceOf(d)'
  BY <1>1, <1>2, <1>7, <1>8, <1>11 DEF EvidenceOf
<1>13. \A e \in Drivers : e # d => EvidenceOf(e)'
  <2>1. \A e \in Drivers : ex[e].pc = "load" /\ ex[e].prior # None => receipt # None
    BY DEF IInv, Evidence, EvidenceOf
  <2>. QED  BY <1>1, <1>4, <1>8, <1>11, <2>1 DEF IInv, Evidence, EvidenceOf
<1>14. Evidence'
  BY <1>1, <1>12, <1>13 DEF IInv, Evidence
<1>15. ReceiptTellsClaim'
  <2>1. CASE receipt # None
    BY <1>1, <2>1 DEF IInv, ReceiptTellsClaim
  <2>2. CASE receipt = None
    <3>1. receipt' = row
      BY <1>1, <2>2
    <3>. QED  BY <1>1, <1>2, <1>5, <1>11, <3>1 DEF ReceiptTellsClaim, HasEvidence
  <2>. QED  BY <2>1, <2>2
<1>. QED  BY <1>9, <1>10, <1>14, <1>15 DEF IInv

\* A claim is completed after its receipt is stored.
LEMMA CompleteKeeps ==
    ASSUME IInv, NEW d \in Drivers, Complete(d)
    PROVE  IInv'
<1> USE DiscoveryAssumption
<1> DEFINE row == Row(ex[d].mine.token, "COMPLETE", ex[d].mine.version + 1, ex[d].mine.evidence, d)
<1>a. ex[d].mine # None /\ ex[d].pc = "complete"
  BY DEF Complete, At, IInv, TypeOK, Tokens, HolderKnows, Holds, Knows, Started,
    Evidence, EvidenceOf, HasEvidence, Checkpoints, Steps, Evidences, ClaimRow, ReceiptRow,
    HasEvidence
<1>b. ex[d].mine.evidence \in Evidences /\ "COMPLETE" \in Checkpoints /\ "done" \in Steps
  BY <1>a DEF IInv, TypeOK, Checkpoints, Steps, Evidences, ClaimRow, ReceiptRow,
    HasEvidence
<1>c. Transition(d, "COMPLETE", ex[d].mine.evidence, "done")
  BY DEF Complete
<1>d. /\ TypeOK' /\ row \in ClaimRow
      /\ \A e \in Drivers : e # d => ex'[e] = ex[e]
      /\ ex'[d].pc = "confirm" /\ ex'[d].then = "done" /\ ex'[d].sent = row
      /\ \/ claim' = claim
         \/ /\ claim' = row /\ claim # None
            /\ claim.token = ex[d].mine.token
            /\ claim.checkpoint = ex[d].mine.checkpoint
      /\ claim = ex[d].mine => claim' = row
      /\ UNCHANGED <<receipt, experiments, minted>>
  BY <1>a, <1>b, <1>c, TransitionDoes DEF IInv
<1>e. /\ row.token = ex[d].mine.token /\ row.checkpoint = "COMPLETE"
      /\ row.evidence = ex[d].mine.evidence /\ row.by = d /\ row # None
  BY <1>d DEF Row
<1>. HIDE DEF row
<1>1. TypeOK'
  BY <1>d
<1>2. Tokens'
  BY <1>a, <1>d, <1>e DEF IInv, TypeOK, Tokens, HolderKnows, Holds, Knows, Started,
    Evidence, EvidenceOf, HasEvidence
<1>3. HolderKnows'
  BY <1>a, <1>d, <1>e DEF IInv, TypeOK, Tokens, HolderKnows, Holds, Knows, Started,
    Evidence, EvidenceOf, HasEvidence
<1>4. Started'
  BY <1>a, <1>d, <1>e DEF IInv, TypeOK, Tokens, HolderKnows, Holds, Knows, Started,
    Evidence, EvidenceOf, HasEvidence
<1>5. Evidence'
  BY <1>a, <1>d, <1>e DEF IInv, TypeOK, Tokens, HolderKnows, Holds, Knows, Started,
    Evidence, EvidenceOf, HasEvidence, ReceiptTellsClaim
<1>6. ReceiptTellsClaim'
  BY <1>a, <1>d, <1>e DEF IInv, TypeOK, Tokens, HolderKnows, Holds, Knows, Started,
    Evidence, EvidenceOf, HasEvidence, ReceiptTellsClaim
<1>. QED  BY <1>1, <1>2, <1>3, <1>4, <1>5, <1>6 DEF IInv

\* A driver that dies or raises leaves the tables as they are.
LEMMA FaultKeeps ==
    ASSUME IInv, NEW d \in Drivers, Fault(d)
    PROVE  IInv'
<1>1. UNCHANGED <<claim, receipt, experiments, minted>> /\ ex' = [ex EXCEPT ![d] = Idle]
  BY DEF Fault, Raise
<1>2. faults' \in 0 .. MaxFaults
  BY DiscoveryAssumption DEF Fault, IInv, TypeOK
<1>. QED  BY <1>1, <1>2, DriverEnds, EndsTyped

\* Every step, and stuttering, keeps the invariant.
LEMMA StepKeeps == IInv /\ [Next]_vars => IInv'
<1> SUFFICES ASSUME IInv, [Next]_vars PROVE IInv'
  OBVIOUS
<1>1. CASE UNCHANGED vars
  BY <1>1 DEF IInv, TypeOK, Tokens, HolderKnows, Holds, Knows, Started, Evidence, EvidenceOf,
              ReceiptTellsClaim, vars
<1>2. ASSUME NEW d \in Drivers, Step(d) \/ Fault(d) PROVE IInv'
  BY <1>2, LoadPriorKeeps, LoadClaimKeeps, InsertKeeps, InsertedKeeps, ConfirmKeeps,
     PrepareKeeps, StartKeeps, ClassifyKeeps, LeaderboardKeeps, RecordKeeps,
     FailClaimKeeps, StoreKeeps, CompleteKeeps, FaultKeeps DEF Step
<1>. QED  BY <1>1, <1>2 DEF Next

\* No claim, no receipt, nobody at work.
LEMMA InitHolds == Init => IInv
  BY DiscoveryAssumption
  DEF Init, Idle, IInv, TypeOK, Steps, Tokens, HolderKnows, Holds, Knows, Started,
      Evidence, EvidenceOf, ReceiptTellsClaim

\* The inductive invariant of the discovery claim (automl_claims.py).
THEOREM Invariance == Spec => []IInv
<1>. QED  BY InitHolds, StepKeeps, PTL DEF Spec

\* Types, for any drivers and any number of faults.
THEOREM DiscoveryTypes == Spec => []TypeOK
<1>1. IInv => TypeOK
  BY DEF IInv
<1>. QED  BY <1>1, Invariance, PTL

\* However many drivers ask for it, crash and are run again, the experiment of
\* a request is started at most once.
THEOREM ExperimentOnce == Spec => []OneExperiment
<1>1. IInv => OneExperiment
  BY DEF IInv, Started, OneExperiment
<1>. QED  BY <1>1, Invariance, PTL

\* Claim and receipt, written in two tables by whoever comes, agree.
THEOREM ReceiptAgrees == Spec => []ReceiptTellsClaim
<1>1. IInv => ReceiptTellsClaim
  BY DEF IInv
<1>. QED  BY <1>1, Invariance, PTL

\* A step moves a claim only for its maker, or on its evidence.
LEMMA StepIsFenced == IInv /\ [Next]_vars => [NeverTakenOver]_vars
<1> SUFFICES ASSUME IInv, Next PROVE NeverTakenOver
  OBVIOUS
<1> USE DiscoveryAssumption
<1>1. CASE UNCHANGED claim
  BY <1>1 DEF NeverTakenOver
<1>2. ASSUME NEW d \in Drivers, Insert(d) PROVE NeverTakenOver
  BY <1>2 DEF Insert, NeverTakenOver
<1>3. ASSUME NEW d \in Drivers, Start(d) \/ Record(d) \/ FailClaim(d) PROVE NeverTakenOver
  <2>1. /\ claim # None /\ claim.by = d /\ claim.checkpoint \notin HasEvidence
        /\ ex[d].mine = claim
    BY <1>3 DEF Start, Record, FailClaim, At, IInv, HolderKnows, Holds, Knows,
      HasEvidence
  <2>2. \E c \in Checkpoints, v \in Evidences, n \in Steps : Transition(d, c, v, n)
    BY <1>3 DEF Start, Record, FailClaim, At, IInv, TypeOK, Checkpoints, HasEvidence,
                Evidences, Steps, HolderKnows
  <2>3. PICK c \in Checkpoints, v \in Evidences, n \in Steps : Transition(d, c, v, n)
    BY <2>2
  <2>4. claim' = Row(ex[d].mine.token, c, ex[d].mine.version + 1, v, d) /\ claim' \in ClaimRow
    BY <2>1, <2>3, TransitionDoes DEF IInv
  <2>. QED  BY <2>1, <2>4 DEF NeverTakenOver, Row
<1>4. ASSUME NEW d \in Drivers, Complete(d) PROVE NeverTakenOver
  <2>1. /\ claim # None /\ claim.checkpoint \in HasEvidence /\ ex[d].mine # None
        /\ ex[d].mine.evidence = claim.evidence /\ claim.evidence \in Evidences
    BY <1>4 DEF Complete, At, IInv, Evidence, EvidenceOf, TypeOK, ClaimRow
  <2>2. "COMPLETE" \in HasEvidence /\ "COMPLETE" \in Checkpoints /\ "done" \in Steps
    BY DEF HasEvidence, Checkpoints, Steps
  <2> DEFINE row == Row(ex[d].mine.token, "COMPLETE", ex[d].mine.version + 1,
                        ex[d].mine.evidence, d)
  <2>3. /\ row \in ClaimRow
        /\ claim' = claim \/ (claim' = row /\ claim.token = ex[d].mine.token)
    BY <1>4, <2>1, <2>2, TransitionDoes DEF IInv, Complete
  <2>4. /\ row.token = ex[d].mine.token /\ row.checkpoint = "COMPLETE"
        /\ row.evidence = ex[d].mine.evidence
    BY DEF Row
  <2>. HIDE DEF row
  <2>. QED  BY <2>1, <2>2, <2>3, <2>4 DEF NeverTakenOver
<1>5. ASSUME NEW d \in Drivers, Step(d) \/ Fault(d),
             ~Insert(d), ~Start(d), ~Record(d), ~FailClaim(d), ~Complete(d)
      PROVE  UNCHANGED claim
  BY <1>5 DEF Step, Fault, LoadPrior, LoadClaim, Inserted, Confirm, Prepare, Classify,
              Leaderboard, Store, Reads
<1>. QED  BY <1>1, <1>2, <1>3, <1>4, <1>5 DEF Next, Step

\* Until there is evidence only the driver that made the claim moves it, and
\* evidence is kept.
THEOREM ClaimStaysFenced == Spec => ClaimIsFenced
<1>. QED  BY Invariance, StepIsFenced, PTL DEF Spec, ClaimIsFenced
=============================================================================
