------------------------ MODULE ResearchClaimProofs ------------------------
(***************************************************************************)
(* Proofs about ResearchClaim, for any number of runs, any lease and any   *)
(* bounds.                                                                 *)
(***************************************************************************)
EXTENDS ResearchClaim, TLAPS

(* The inductive invariant: what is true of the row, and of each run.      *)

\* A row's times are in order, its tokens were drawn, its payload is complete.
RowSound ==
    claim # None =>
        /\ claim.created <= claim.updated
        /\ claim.updated <= now
        /\ claim.updated <= claim.expires
        /\ claim.expires <= claim.updated + LeaseSeconds
        /\ claim.token \in 1 .. minted
        /\ claim.attempt \in 1 .. minted
        /\ claim.checkpoint # FAILED => PayloadComplete(claim.checkpoint, claim.refs)

\* A token belongs to one execution, and is in the row only after its MERGE.
TokenSound(r) ==
    /\ tok[r] <= minted
    /\ tok[r] = 0 <=> pc[r] = "idle"
    /\ \A s \in Runs : tok[r] # 0 /\ tok[s] = tok[r] => s = r
    /\ claim # None /\ claim.token = tok[r] => claim.owner = r /\ pc[r] # "acquire"
    /\ claim # None /\ claim.attempt = tok[r] => pc[r] # "acquire"

\* A captured clock is in the past; an owner's is not before its row's update.
ClockSound(r) ==
    /\ at[r] <= now
    /\ claim # None /\ claim.owner = r /\ pc[r] \in {"acquire", "load", "write"}
          => claim.updated <= at[r]

\* What a run knows between loading the row and reading it back.
PendingSound(r) ==
    /\ pc[r] = "acquire" => code[r] # None
    /\ pc[r] \in {"verify", "held", "load", "write", "confirm"} => claim # None
    /\ pc[r] = "held" => task[r].op = "renew"
    /\ task[r].op = "advance" => task[r].ref \in RefVals
    /\ pc[r] \in {"write", "confirm"} =>
        /\ seen[r] # None
        /\ seen[r].owner = r
        /\ seen[r].token = tok[r]
        /\ seen[r].checkpoint \notin Terminal
        /\ seen[r].version <= claim.version
        /\ pc[r] = "write" /\ claim.version = seen[r].version => claim = seen[r]
        /\ task[r].op = "advance" =>
              /\ seen[r].checkpoint = task[r].target - 1
              /\ SetOnce(seen[r].refs, task[r].target, task[r].ref)
              /\ PayloadComplete(task[r].target,
                    Locked(seen[r].refs, task[r].target, task[r].ref))

\* A run whose lease is still running has the row.
BeliefSound(r) ==
    Holds(r) => claim # None /\ claim.token = tok[r] /\ until[r] <= claim.expires

\* Only the run that is reporting a failure has a failed row.
FailureReported(r) ==
    claim # None /\ claim.checkpoint = FAILED /\ claim.token = tok[r] =>
        pc[r] = "confirm" /\ task[r].op = "fail"

RunSound(r) ==
    /\ TokenSound(r)
    /\ ClockSound(r)
    /\ PendingSound(r)
    /\ BeliefSound(r)
    /\ FailureReported(r)

IInv ==
    /\ TypeOK
    /\ RowSound
    /\ \A r \in Runs : RunSound(r)

-----------------------------------------------------------------------------
(* Rows.                                                                   *)

\* A stored claim is a claim row.
LEMMA RowTyped == TypeOK /\ claim # None => claim \in ClaimRow
  BY DEF TypeOK

\* Locking a reference keeps the references typed.
LEMMA LockedTyped ==
  ASSUME NEW refs \in [RefNames -> RefVals \cup {None}], NEW checkpoint,
         NEW v \in RefVals \cup {None}
  PROVE  Locked(refs, checkpoint, v) \in [RefNames -> RefVals \cup {None}]
  BY DEF Locked

\* The rows that an operation and a takeover start from: typed, and in all
\* other fields the row that was read.
Touched(row, u, e) ==
    [row EXCEPT !.version = @ + 1, !.updated = u, !.expires = e]
Taken(row, o, t, u, e) ==
    [row EXCEPT !.owner = o, !.token = t, !.expires = e,
                !.version = @ + 1, !.updated = u]

Follows(new, row, u, e) ==
    /\ new \in ClaimRow
    /\ new.version = row.version + 1
    /\ new.updated = u
    /\ new.expires = e
    /\ new.code = row.code
    /\ new.attempt = row.attempt
    /\ new.created = row.created
    /\ new.checkpoint = row.checkpoint
    /\ new.refs = row.refs

\* A renewal follows the row: one version later, under the same owner and token.
LEMMA TouchedRow ==
  ASSUME NEW row \in ClaimRow, NEW u \in Nat, NEW e \in Nat
  PROVE  /\ Follows(Touched(row, u, e), row, u, e)
         /\ Touched(row, u, e).owner = row.owner
         /\ Touched(row, u, e).token = row.token
<1>1. row.version + 1 \in Nat
  BY DEF ClaimRow
<1>2. Touched(row, u, e) \in ClaimRow
  BY <1>1, ZenonT(30) DEF Touched, ClaimRow
<1> QED
  BY <1>2 DEF Touched, Follows, ClaimRow

\* A takeover follows it too, under the new owner and token.
LEMMA TakenRow ==
  ASSUME NEW row \in ClaimRow, NEW o \in Runs, NEW t \in Nat, NEW u \in Nat,
         NEW e \in Nat
  PROVE  /\ Follows(Taken(row, o, t, u, e), row, u, e)
         /\ Taken(row, o, t, u, e).owner = o
         /\ Taken(row, o, t, u, e).token = t
<1>1. row.version + 1 \in Nat
  BY DEF ClaimRow
<1>2. Taken(row, o, t, u, e) \in ClaimRow
  BY <1>1, ZenonT(30) DEF Taken, ClaimRow
<1> QED
  BY <1>2 DEF Taken, Follows, ClaimRow

\* What each operation writes, field by field.
LEMMA UpdatedShape ==
  ASSUME TypeOK, NEW r \in Runs, seen[r] \in ClaimRow
  PROVE  /\ Updated(r) \in ClaimRow
         /\ Updated(r).code = seen[r].code
         /\ Updated(r).attempt = seen[r].attempt
         /\ Updated(r).owner = seen[r].owner
         /\ Updated(r).token = seen[r].token
         /\ Updated(r).created = seen[r].created
         /\ Updated(r).version = seen[r].version + 1
         /\ Updated(r).updated = at[r]
         /\ Updated(r).expires \in {at[r], at[r] + LeaseSeconds}
         /\ task[r].op # "release" => Updated(r).expires = at[r] + LeaseSeconds
         /\ \/ /\ task[r].op \in {"renew", "release"}
               /\ Updated(r).checkpoint = seen[r].checkpoint
               /\ Updated(r).refs = seen[r].refs
            \/ /\ task[r].op = "fail"
               /\ Updated(r).checkpoint = FAILED
               /\ Updated(r).refs = seen[r].refs
            \/ /\ task[r].op = "advance"
               /\ Updated(r).checkpoint = task[r].target
               /\ Updated(r).refs = Locked(seen[r].refs, task[r].target, task[r].ref)
<1> DEFINE end == at[r] + LeaseSeconds
           touched == Touched(seen[r], at[r], end)
<1>1. /\ task[r].op \in Operations
      /\ task[r].target \in Checkpoints
      /\ task[r].ref \in RefVals \cup {None}
  BY DEF TypeOK
<1>2. at[r] \in Nat /\ end \in Nat
  BY ClaimAssumption DEF TypeOK
<1> HIDE DEF end
<1>3. /\ Follows(touched, seen[r], at[r], end)
      /\ touched.owner = seen[r].owner
      /\ touched.token = seen[r].token
  BY <1>2, TouchedRow
<1> HIDE DEF touched
<1>5. CASE task[r].op = "renew"
  <2>1. Updated(r) = touched
    BY <1>5 DEF Updated, end, touched, Touched
  <2> QED
    BY <1>2, <1>3, <1>5, <2>1 DEF end, ClaimRow, Follows
<1>6. CASE task[r].op = "release"
  <2>1. Updated(r) = [touched EXCEPT !.expires = at[r]]
    BY <1>6 DEF Updated, end, touched, Touched
  <2> QED
    BY <1>2, <1>3, <1>6, <2>1 DEF end, ClaimRow, Follows
<1>7. CASE task[r].op = "fail"
  <2>1. Updated(r) = [touched EXCEPT !.checkpoint = FAILED]
    BY <1>7 DEF Updated, end, touched, Touched
  <2> QED
    BY <1>2, <1>3, <1>7, <2>1 DEF end, ClaimRow, Follows
<1>8. CASE task[r].op = "advance"
  <2> DEFINE refs == Locked(seen[r].refs, task[r].target, task[r].ref)
  <2>1. Updated(r) = [touched EXCEPT !.checkpoint = task[r].target, !.refs = refs]
    BY <1>3, <1>8 DEF Updated, end, touched, Touched, ClaimRow, Follows
  <2>2. refs \in [RefNames -> RefVals \cup {None}]
    BY <1>1, LockedTyped DEF ClaimRow, Follows
  <2> HIDE DEF refs
  <2>3. Updated(r) \in ClaimRow
    BY <1>1, <1>2, <1>3, <2>1, <2>2 DEF ClaimRow, Follows
  <2>4. /\ Updated(r).code = seen[r].code
        /\ Updated(r).attempt = seen[r].attempt
        /\ Updated(r).owner = seen[r].owner
        /\ Updated(r).token = seen[r].token
        /\ Updated(r).created = seen[r].created
        /\ Updated(r).version = seen[r].version + 1
        /\ Updated(r).updated = at[r]
        /\ Updated(r).expires = end
        /\ Updated(r).checkpoint = task[r].target
        /\ Updated(r).refs = refs
    BY <1>1, <1>3, <2>1 DEF ClaimRow, Follows
  <2> QED
    BY <1>8, <2>3, <2>4 DEF refs, end
<1> QED
  BY <1>1, <1>5, <1>6, <1>7, <1>8 DEF Operations, end

\* The row that an acquisition leaves, field by field.
LEMMA AcquiredShape ==
  ASSUME TypeOK, NEW r \in Runs, code[r] \in Codes
  PROVE  \/ claim # None /\ Acquired(r) = claim
         \/ /\ Acquired(r) \in ClaimRow
            /\ Acquired(r).code = code[r]
            /\ Acquired(r).owner = r
            /\ Acquired(r).token = tok[r]
            /\ Acquired(r).expires = at[r] + LeaseSeconds
            /\ Acquired(r).updated = at[r]
            /\ \/ /\ claim = None \/ (claim # None /\ RestartsFailed(r))
                  /\ claim # None => Acquired(r).version = claim.version + 1
                  /\ Acquired(r).attempt = tok[r]
                  /\ Acquired(r).created = at[r]
                  /\ Acquired(r).checkpoint = CLAIMED
                  /\ Acquired(r).refs = NoRefs
               \/ /\ claim # None /\ TakesOver(r)
                  /\ Acquired(r).version = claim.version + 1
                  /\ Acquired(r).attempt = claim.attempt
                  /\ Acquired(r).created = claim.created
                  /\ Acquired(r).checkpoint = claim.checkpoint
                  /\ Acquired(r).refs = claim.refs
<1>1. /\ tok[r] \in Nat /\ at[r] \in Nat /\ at[r] + LeaseSeconds \in Nat
      /\ NoRefs \in [RefNames -> RefVals \cup {None}]
      /\ CLAIMED \in Checkpoints
  BY ClaimAssumption DEF TypeOK, NoRefs, CLAIMED, COMPLETE, Checkpoints
<1>2. Proposed(r) \in ClaimRow
  BY <1>1 DEF Proposed, ClaimRow
<1>3. CASE claim = None
  <2>1. Acquired(r) = Proposed(r)
    BY <1>3 DEF Acquired
  <2> QED
    BY <1>1, <1>2, <1>3, <2>1 DEF Proposed, ClaimRow
<1>4. CASE claim # None /\ RestartsFailed(r)
  <2>1. claim.version \in Nat
    BY <1>4, RowTyped DEF ClaimRow
  <2>2. Acquired(r) = [Proposed(r) EXCEPT !.version = claim.version + 1]
    BY <1>4 DEF Acquired
  <2>3. Acquired(r) \in ClaimRow
    BY <1>2, <2>1, <2>2 DEF ClaimRow
  <2> QED
    BY <1>2, <1>4, <2>1, <2>2, <2>3 DEF Proposed, ClaimRow
<1>5. CASE claim # None /\ ~RestartsFailed(r) /\ TakesOver(r)
  <2>1. claim \in ClaimRow
    BY <1>5, RowTyped
  <2>2. Acquired(r) = Taken(claim, r, tok[r], at[r], at[r] + LeaseSeconds)
    BY <1>5 DEF Acquired, Taken
  <2>3. claim.code = code[r]
    BY <1>5 DEF TakesOver
  <2>4. /\ Follows(Acquired(r), claim, at[r], at[r] + LeaseSeconds)
        /\ Acquired(r).owner = r /\ Acquired(r).token = tok[r]
    BY <1>1, <2>1, <2>2, TakenRow
  <2> QED
    BY <1>5, <2>3, <2>4 DEF Follows
<1>6. CASE claim # None /\ ~RestartsFailed(r) /\ ~TakesOver(r)
  BY <1>6 DEF Acquired
<1> QED
  BY <1>3, <1>4, <1>5, <1>6

\* Two rows that agree in every field are one row.
LEMMA SameRow ==
  ASSUME NEW x \in ClaimRow, NEW y \in ClaimRow,
         x.code = y.code, x.attempt = y.attempt, x.owner = y.owner,
         x.token = y.token, x.expires = y.expires, x.checkpoint = y.checkpoint,
         x.version = y.version, x.refs = y.refs, x.created = y.created,
         x.updated = y.updated
  PROVE  x = y
  BY DEF ClaimRow

\* A transition leaves the row as it is, or writes over the very row it has
\* loaded, under the token it carries and before its lease is over.
LEMMA WriteShape ==
  ASSUME IInv, NEW r \in Runs, Write(r)
  PROVE  /\ claim \in ClaimRow /\ seen[r] \in ClaimRow
         /\ \/ claim' = claim
            \/ /\ claim = seen[r]
               /\ claim' = Updated(r)
               /\ claim.owner = r
               /\ claim.token = tok[r]
               /\ claim.expires > at[r]
<1>1. /\ claim \in ClaimRow
      /\ seen[r] \in ClaimRow
      /\ seen[r].owner = r
      /\ seen[r].token = tok[r]
  BY DEF IInv, RunSound, TypeOK, PendingSound, Write
<1>2. CASE ~Matches(r)
  BY <1>1, <1>2 DEF Write
<1>3. CASE Matches(r)
  <2>1. /\ Updated(r) \in ClaimRow
        /\ Updated(r).code = seen[r].code
        /\ Updated(r).attempt = seen[r].attempt
        /\ Updated(r).created = seen[r].created
        /\ Updated(r).owner = r
        /\ Updated(r).token = tok[r]
        /\ Updated(r).updated = at[r]
        /\ Updated(r).version = seen[r].version + 1
    BY <1>1, UpdatedShape DEF IInv
  <2>2. /\ claim.owner = r
        /\ claim.token = tok[r]
        /\ claim.expires > at[r]
        /\ claim.version + 1 = seen[r].version + 1
    BY <1>3, <2>1 DEF Matches
  <2>3. claim.version = seen[r].version
    BY <1>1, <2>2 DEF ClaimRow
  <2>4. claim = seen[r]
    BY <2>3 DEF IInv, RunSound, PendingSound, Write
  <2> DEFINE row == Updated(r)
             new == [claim EXCEPT !.owner = row.owner, !.token = row.token,
                                  !.expires = row.expires,
                                  !.checkpoint = row.checkpoint,
                                  !.version = row.version, !.refs = row.refs,
                                  !.updated = row.updated]
  <2>5. claim' = new
    BY <1>3 DEF Write
  <2> HIDE DEF row
  <2>6. new \in ClaimRow
    BY <1>1, <2>1, ZenonT(30) DEF ClaimRow, row
  <2>7. new = row
    BY <1>1, <2>1, <2>4, <2>6, SameRow DEF ClaimRow, row
  <2> QED
    BY <1>1, <2>2, <2>4, <2>5, <2>7 DEF row
<1> QED
  BY <1>2, <1>3

-----------------------------------------------------------------------------
(* The invariant holds initially, and each action preserves it.            *)

RunTyped(r) ==
    /\ pc[r] \in PCs
    /\ code[r] \in Codes \cup {None}
    /\ tok[r] \in 0 .. MaxTokens
    /\ until[r] \in Nat
    /\ at[r] \in 0 .. MaxClock
    /\ task[r] \in [op : Operations, target : Checkpoints, ref : RefVals \cup {None}]
    /\ seen[r] \in ClaimRow \cup {None}

\* Only r's local state changes.
OnlyRun(r) ==
    /\ pc' = [pc EXCEPT ![r] = pc'[r]]
    /\ code' = [code EXCEPT ![r] = code'[r]]
    /\ tok' = [tok EXCEPT ![r] = tok'[r]]
    /\ until' = [until EXCEPT ![r] = until'[r]]
    /\ at' = [at EXCEPT ![r] = at'[r]]
    /\ task' = [task EXCEPT ![r] = task'[r]]
    /\ seen' = [seen EXCEPT ![r] = seen'[r]]

\* A step of one run leaves the local state of the others.
LEMMA OnlyRunOthers ==
  ASSUME TypeOK, NEW r \in Runs, NEW s \in Runs, s # r, OnlyRun(r)
  PROVE  /\ pc'[s] = pc[s] /\ code'[s] = code[s] /\ tok'[s] = tok[s]
         /\ until'[s] = until[s] /\ at'[s] = at[s] /\ task'[s] = task[s]
         /\ seen'[s] = seen[s]
  BY DEF TypeOK, OnlyRun

\* A step of one run keeps the local state typed.
LEMMA OnlyRunTyped ==
  ASSUME TypeOK, NEW r \in Runs, OnlyRun(r), RunTyped(r)'
  PROVE  /\ pc' \in [Runs -> PCs]
         /\ code' \in [Runs -> Codes \cup {None}]
         /\ tok' \in [Runs -> 0 .. MaxTokens]
         /\ until' \in [Runs -> Nat]
         /\ at' \in [Runs -> 0 .. MaxClock]
         /\ task' \in [Runs -> [op : Operations, target : Checkpoints,
                               ref : RefVals \cup {None}]]
         /\ seen' \in [Runs -> ClaimRow \cup {None}]
  BY DEF TypeOK, OnlyRun, RunTyped

\* A step that changes one run's local state only, and leaves it sound,
\* preserves the invariant.
LEMMA LocalStep ==
  ASSUME IInv, NEW r \in Runs, OnlyRun(r), RunTyped(r)', RunSound(r)',
         now' = now, claim' = claim, minted' \in 0 .. MaxTokens, minted <= minted'
  PROVE  IInv'
<1>1. minted \in Nat /\ minted' \in Nat /\ now \in Nat
  BY ClaimAssumption DEF IInv, TypeOK
<1>2. TypeOK'
  BY OnlyRunTyped DEF IInv, TypeOK
<1>3. RowSound'
  BY <1>1 DEF IInv, RowSound
<1>4. ASSUME NEW s \in Runs, s # r
      PROVE  RunSound(s)'
  <2>1. /\ pc'[s] = pc[s] /\ code'[s] = code[s] /\ tok'[s] = tok[s]
        /\ until'[s] = until[s] /\ at'[s] = at[s] /\ task'[s] = task[s]
        /\ seen'[s] = seen[s]
    BY <1>4, OnlyRunOthers DEF IInv
  <2>2. RunSound(s) /\ tok[s] \in Nat
    BY DEF IInv, TypeOK
  <2>3. TokenSound(s)'
    <3>1. \A q \in Runs : tok'[s] # 0 /\ tok'[q] = tok'[s] => q = s
      <4> SUFFICES ASSUME NEW q \in Runs, tok'[s] # 0, tok'[q] = tok'[s]
                   PROVE  q = s
        OBVIOUS
      <4>1. q # r
        BY <1>4 DEF RunSound, TokenSound
      <4>2. tok'[q] = tok[q]
        BY <4>1, OnlyRunOthers DEF IInv
      <4> QED
        BY <2>1, <2>2, <4>2 DEF RunSound, TokenSound
    <3> QED
      BY <1>1, <2>1, <2>2, <3>1 DEF RunSound, TokenSound
  <2>4. ClockSound(s)'
    BY <2>1, <2>2 DEF RunSound, ClockSound
  <2>5. PendingSound(s)'
    BY <2>1, <2>2 DEF RunSound, PendingSound
  <2>6. BeliefSound(s)'
    BY <2>1, <2>2 DEF RunSound, BeliefSound, Holds
  <2>7. FailureReported(s)'
    BY <2>1, <2>2 DEF RunSound, FailureReported
  <2> QED
    BY <2>3, <2>4, <2>5, <2>6, <2>7 DEF RunSound
<1> QED
  BY <1>2, <1>3, <1>4 DEF IInv

\* The types of one run, taken from those of all.
LEMMA RunTypes == ASSUME TypeOK, NEW r \in Runs PROVE RunTyped(r)
  BY DEF TypeOK, RunTyped

\* An execution ends, because it failed or because it is done.
LEMMA EndPreserves ==
  ASSUME IInv, NEW r \in Runs, End(r), UNCHANGED <<now, claim, minted>>
  PROVE  IInv'
<1>1. /\ OnlyRun(r)
      /\ pc'[r] = "idle" /\ code'[r] = None /\ tok'[r] = 0 /\ until'[r] = 0
      /\ at'[r] = 0 /\ task'[r] = NoTask /\ seen'[r] = None
  BY DEF IInv, TypeOK, End, OnlyRun
<1>2. minted \in 0 .. MaxTokens /\ now \in Nat
  BY DEF IInv, TypeOK
<1>3. RunTyped(r)'
  BY <1>1, ClaimAssumption
  DEF RunTyped, PCs, NoTask, Operations, Checkpoints, CLAIMED, COMPLETE
<1>4. TokenSound(r)'
  BY <1>1, <1>2 DEF IInv, RowSound, TokenSound
<1>5. /\ ClockSound(r)' /\ PendingSound(r)' /\ BeliefSound(r)' /\ FailureReported(r)'
  BY <1>1, <1>2 DEF IInv, RowSound, ClockSound, PendingSound, BeliefSound, Holds,
                    FailureReported, NoTask
<1> QED
  BY <1>1, <1>2, <1>3, <1>4, <1>5, LocalStep DEF RunSound

\* A run that has read back its own unfinished row goes on holding it.
LEMMA KeepPreserves ==
  ASSUME IInv, NEW r \in Runs, Keep(r), UNCHANGED <<now, claim, minted>>,
         pc[r] \in {"verify", "confirm"}, claim # None, claim.token = tok[r],
         claim.checkpoint # FAILED
  PROVE  IInv'
<1>1. /\ OnlyRun(r)
      /\ pc'[r] = "held" /\ code'[r] = code[r] /\ tok'[r] = tok[r]
      /\ until'[r] = claim.expires
      /\ at'[r] = 0 /\ task'[r] = NoTask /\ seen'[r] = None
  BY DEF IInv, TypeOK, Keep, OnlyRun
<1>2. /\ minted \in 0 .. MaxTokens /\ now \in Nat
      /\ claim \in ClaimRow /\ claim.expires \in Nat
  BY RowTyped DEF IInv, TypeOK, ClaimRow
<1>3. RunTyped(r) /\ RunSound(r)
  BY RunTypes DEF IInv
<1>4. RunTyped(r)'
  BY <1>1, <1>2, <1>3, ClaimAssumption
  DEF RunTyped, PCs, NoTask, Operations, Checkpoints, CLAIMED, COMPLETE
<1>5. TokenSound(r)'
  <2>1. \A s \in Runs : tok'[s] = tok[s]
    BY DEF Keep
  <2> QED
    BY <1>1, <1>3, <2>1 DEF RunSound, TokenSound
<1>6. ClockSound(r)' /\ PendingSound(r)' /\ FailureReported(r)'
  BY <1>1, <1>2 DEF ClockSound, PendingSound, FailureReported, NoTask
<1>7. BeliefSound(r)'
  BY <1>1, <1>2 DEF BeliefSound
<1> QED
  BY <1>1, <1>2, <1>4, <1>5, <1>6, <1>7, LocalStep DEF RunSound

\* A claim starts with a token nobody has.
LEMMA BeginClaimPreserves ==
  ASSUME IInv, NEW r \in Runs, BeginClaim(r)
  PROVE  IInv'
<1>1. /\ now' = now /\ claim' = claim /\ minted' = minted + 1
      /\ minted \in 0 .. MaxTokens /\ minted' \in 0 .. MaxTokens /\ minted <= minted'
      /\ now \in 0 .. MaxClock
  BY ClaimAssumption DEF IInv, TypeOK, BeginClaim
<1>2. PICK c \in Codes : code' = [code EXCEPT ![r] = c]
  BY DEF BeginClaim
<1>3. /\ OnlyRun(r)
      /\ pc'[r] = "acquire" /\ code'[r] \in Codes /\ tok'[r] = minted + 1
      /\ until'[r] = until[r] /\ at'[r] = now /\ task'[r] = task[r]
      /\ seen'[r] = seen[r]
  BY <1>2 DEF IInv, TypeOK, BeginClaim, OnlyRun
<1>4. RunTyped(r)'
  BY <1>1, <1>3, RunTypes DEF IInv, RunTyped, PCs
<1>5. TokenSound(r)'
  <2>1. ASSUME NEW s \in Runs, tok'[s] = tok'[r] PROVE s = r
    <3>1. SUFFICES ASSUME s # r PROVE FALSE
      OBVIOUS
    <3>2. tok'[s] = tok[s] /\ tok[s] <= minted /\ tok[s] \in Nat
      BY <3>1, <1>3, OnlyRunOthers DEF IInv, RunSound, TokenSound, TypeOK
    <3> QED
      BY <1>1, <1>3, <2>1, <3>2
  <2>2. claim # None => claim.token \in 1 .. minted /\ claim.attempt \in 1 .. minted
    BY DEF IInv, RowSound
  <2> QED
    BY <1>1, <1>3, <2>1, <2>2 DEF TokenSound
<1>6. ClockSound(r)'
  BY <1>1, <1>3 DEF IInv, RowSound, ClockSound
<1>7. PendingSound(r)' /\ BeliefSound(r)'
  BY <1>1, <1>3, ClaimAssumption
  DEF IInv, RunSound, PendingSound, BeliefSound, Holds
<1>8. FailureReported(r)'
  BY <1>1, <1>3 DEF IInv, RowSound, FailureReported
<1> QED
  BY <1>1, <1>3, <1>4, <1>5, <1>6, <1>7, <1>8, LocalStep DEF RunSound

\* An operation starts, with the clock it captures.
LEMMA BeginPreserves ==
  ASSUME IInv, NEW r \in Runs,
         NEW t \in [op : Operations, target : Checkpoints, ref : RefVals \cup {None}],
         t.op = "advance" => t.ref \in RefVals, Begin(r, t)
  PROVE  IInv'
<1>1. /\ OnlyRun(r)
      /\ pc[r] = "held" /\ pc'[r] = "load"
      /\ code'[r] = code[r] /\ tok'[r] = tok[r] /\ until'[r] = until[r]
      /\ at'[r] = now /\ task'[r] = t /\ seen'[r] = seen[r]
  BY DEF IInv, TypeOK, Begin, OnlyRun
<1>2. /\ minted \in 0 .. MaxTokens /\ now \in 0 .. MaxClock
      /\ now' = now /\ claim' = claim /\ minted' = minted /\ tok' = tok
  BY DEF IInv, TypeOK, Begin
<1>3. RunTyped(r) /\ RunSound(r)
  BY RunTypes DEF IInv
<1>4. RunTyped(r)'
  BY <1>1, <1>2, <1>3 DEF RunTyped, PCs
<1>5. TokenSound(r)'
  BY <1>1, <1>2, <1>3 DEF RunSound, TokenSound
<1>6. ClockSound(r)'
  BY <1>1, <1>2 DEF IInv, RowSound, ClockSound
<1>7. PendingSound(r)'
  BY <1>1, <1>2, <1>3 DEF RunSound, PendingSound
<1>8. BeliefSound(r)'
  BY <1>1, <1>2, <1>3 DEF RunSound, PendingSound, BeliefSound, Holds
<1>9. FailureReported(r)'
  BY <1>1, <1>2, <1>3 DEF RunSound, FailureReported
<1> QED
  BY <1>1, <1>2, <1>4, <1>5, <1>6, <1>7, <1>8, <1>9, LocalStep DEF RunSound

\* An operation loads the row: it raises, becomes a renewal, or goes on to
\* write with what it has checked.
LEMMA LoadPreserves ==
  ASSUME IInv, NEW r \in Runs, Load(r)
  PROVE  IInv'
<1>1. /\ minted \in 0 .. MaxTokens /\ now' = now /\ claim' = claim /\ minted' = minted
      /\ pc[r] = "load"
  BY DEF IInv, TypeOK, Load
<1>2. RunTyped(r) /\ RunSound(r)
  BY RunTypes DEF IInv
<1>3. claim \in ClaimRow /\ claim # None
  BY <1>1, <1>2, RowTyped DEF IInv, RunSound, PendingSound
<1>4. CASE End(r)
  BY <1>1, <1>4, EndPreserves
<1>5. CASE /\ Workable(r) /\ AlreadyThere(r)
           /\ task' = [task EXCEPT ![r] = NoTask]
           /\ UNCHANGED <<pc, code, tok, until, at, seen>>
  <2>1. /\ OnlyRun(r)
        /\ pc'[r] = "load" /\ code'[r] = code[r] /\ tok' = tok
        /\ until'[r] = until[r] /\ at'[r] = at[r] /\ task'[r] = NoTask
        /\ seen'[r] = seen[r]
    BY <1>1, <1>5 DEF IInv, TypeOK, OnlyRun
  <2>2. RunTyped(r)'
    BY <1>2, <2>1, ClaimAssumption
    DEF RunTyped, PCs, NoTask, Operations, Checkpoints, CLAIMED, COMPLETE
  <2>3. /\ TokenSound(r)' /\ ClockSound(r)' /\ PendingSound(r)' /\ FailureReported(r)'
    BY <1>1, <1>2, <1>3, <2>1
    DEF RunSound, TokenSound, ClockSound, PendingSound, FailureReported, NoTask
  <2>4. BeliefSound(r)'
    BY <1>1, <1>2, <1>5, <2>1 DEF RunSound, BeliefSound, Holds, AlreadyThere
  <2> QED
    BY <1>1, <2>1, <2>2, <2>3, <2>4, LocalStep DEF RunSound
<1>6. CASE /\ Workable(r) /\ Permitted(r)
           /\ seen' = [seen EXCEPT ![r] = claim]
           /\ pc' = [pc EXCEPT ![r] = "write"]
           /\ UNCHANGED <<code, tok, until, at, task>>
  <2>1. /\ OnlyRun(r)
        /\ pc'[r] = "write" /\ code'[r] = code[r] /\ tok' = tok
        /\ until'[r] = until[r] /\ at'[r] = at[r] /\ task'[r] = task[r]
        /\ seen'[r] = claim
    BY <1>1, <1>6 DEF IInv, TypeOK, OnlyRun
  <2>2. RunTyped(r)'
    BY <1>2, <1>3, <2>1 DEF RunTyped, PCs
  <2>3. TokenSound(r)' /\ ClockSound(r)'
    BY <1>1, <1>2, <2>1 DEF RunSound, TokenSound, ClockSound
  <2>4. /\ claim.owner = r /\ claim.token = tok[r] /\ claim.checkpoint \notin Terminal
    BY <1>6 DEF Workable, LiveOwner
  <2>5. task[r].op = "advance" =>
           /\ claim.checkpoint = task[r].target - 1
           /\ SetOnce(claim.refs, task[r].target, task[r].ref)
           /\ PayloadComplete(task[r].target,
                 Locked(claim.refs, task[r].target, task[r].ref))
    BY <1>6 DEF Permitted
  <2>6. PendingSound(r)'
    BY <1>1, <1>2, <1>3, <2>1, <2>4, <2>5 DEF RunSound, PendingSound, ClaimRow
  <2>7. BeliefSound(r)' /\ FailureReported(r)'
    BY <1>1, <1>2, <2>1, <2>4
    DEF RunSound, BeliefSound, Holds, FailureReported, Terminal
  <2> QED
    BY <1>1, <2>1, <2>2, <2>3, <2>6, <2>7, LocalStep DEF RunSound
<1> QED
  BY <1>4, <1>5, <1>6 DEF Load

\* The read-back of an acquisition keeps the invariant.
LEMMA VerifyPreserves ==
  ASSUME IInv, NEW r \in Runs, VerifyAcquisition(r)
  PROVE  IInv'
<1>1. /\ UNCHANGED <<now, claim, minted>> /\ pc[r] = "verify" /\ claim # None
  BY DEF IInv, RunSound, PendingSound, VerifyAcquisition
<1>2. CASE End(r)
  BY <1>1, <1>2, EndPreserves
<1>3. CASE Keep(r) /\ claim.token = tok[r] /\ claim.checkpoint \notin Terminal
  BY <1>1, <1>3, KeepPreserves DEF Terminal
<1> QED
  BY <1>2, <1>3 DEF VerifyAcquisition

\* The read-back of a transition keeps the invariant.
LEMMA ConfirmPreserves ==
  ASSUME IInv, NEW r \in Runs, Confirm(r)
  PROVE  IInv'
<1>1. /\ UNCHANGED <<now, claim, minted>> /\ pc[r] = "confirm" /\ claim # None
  BY DEF IInv, RunSound, PendingSound, Confirm
<1>2. CASE End(r)
  BY <1>1, <1>2, EndPreserves
<1>3. CASE Keep(r) /\ claim = Updated(r) /\ task[r].op \in {"renew", "advance"}
  <2>1. seen[r] \in ClaimRow /\ seen[r].token = tok[r]
    BY <1>1 DEF IInv, TypeOK, RunSound, PendingSound
  <2>2. claim.token = tok[r]
    BY <1>3, <2>1, UpdatedShape DEF IInv
  <2>3. claim.checkpoint # FAILED
    BY <1>1, <1>3, <2>2 DEF IInv, RunSound, FailureReported
  <2> QED
    BY <1>1, <1>3, <2>2, <2>3, KeepPreserves
<1> QED
  BY <1>2, <1>3 DEF Confirm

\* Time passes: captured clocks fall behind, and leases run out.
LEMMA TickPreserves ==
  ASSUME IInv, Tick
  PROVE  IInv'
<1>1. /\ now \in 0 .. MaxClock /\ now' \in 0 .. MaxClock /\ now' = now + 1
      /\ UNCHANGED <<claim, minted, pc, code, tok, until, at, task, seen>>
  BY ClaimAssumption DEF IInv, TypeOK, Tick, locals
<1>2. TypeOK'
  BY <1>1 DEF IInv, TypeOK
<1>3. RowSound'
  <2>1. claim # None => claim.updated \in Nat
    BY RowTyped DEF IInv, ClaimRow
  <2> QED
    BY <1>1, <2>1 DEF IInv, RowSound
<1>4. ASSUME NEW r \in Runs PROVE RunSound(r)'
  <2>1. RunSound(r) /\ at[r] \in Nat /\ until[r] \in Nat
    BY DEF IInv, TypeOK
  <2>2. TokenSound(r)' /\ FailureReported(r)'
    BY <1>1, <2>1 DEF RunSound, TokenSound, FailureReported
  <2>3. PendingSound(r)'
    BY <1>1, <2>1 DEF RunSound, PendingSound
  <2>4. ClockSound(r)' /\ BeliefSound(r)'
    BY <1>1, <2>1 DEF RunSound, ClockSound, BeliefSound, Holds
  <2> QED
    BY <2>2, <2>3, <2>4 DEF RunSound
<1> QED
  BY <1>2, <1>3, <1>4 DEF IInv

\* A transition is written, or does not match.
LEMMA WritePreserves ==
  ASSUME IInv, NEW r \in Runs, Write(r)
  PROVE  IInv'
<1>1. /\ OnlyRun(r)
      /\ pc[r] = "write" /\ pc' = [pc EXCEPT ![r] = "confirm"] /\ pc'[r] = "confirm"
      /\ UNCHANGED <<now, minted, code, tok, until, at, task, seen>>
  BY DEF IInv, TypeOK, Write, OnlyRun
<1>2. RunTyped(r) /\ RunSound(r) /\ RowSound /\ TypeOK
  BY RunTypes DEF IInv
<1>3. /\ claim \in ClaimRow /\ seen[r] \in ClaimRow /\ claim # None
      /\ minted \in 0 .. MaxTokens /\ now \in 0 .. MaxClock /\ at[r] \in 0 .. MaxClock
      /\ LeaseSeconds \in Nat
  BY WriteShape, ClaimAssumption DEF IInv, TypeOK
<1>4. CASE claim' = claim
  <2>1. RunTyped(r)'
    BY <1>1, <1>2 DEF RunTyped, PCs
  <2>2. /\ TokenSound(r)' /\ ClockSound(r)' /\ PendingSound(r)'
        /\ BeliefSound(r)' /\ FailureReported(r)'
    BY <1>1, <1>2, <1>4
    DEF RunSound, TokenSound, ClockSound, PendingSound, BeliefSound, Holds,
        FailureReported
  <2> QED
    BY <1>1, <1>3, <1>4, <2>1, <2>2, LocalStep DEF RunSound
<1>5. CASE /\ claim = seen[r] /\ claim' = Updated(r) /\ claim.owner = r
           /\ claim.token = tok[r] /\ claim.expires > at[r]
  <2>1. /\ claim' \in ClaimRow
        /\ claim'.owner = r
        /\ claim'.token = tok[r]
        /\ claim'.attempt = claim.attempt
        /\ claim'.created = claim.created
        /\ claim'.version = claim.version + 1
        /\ claim'.updated = at[r]
        /\ claim'.expires \in {at[r], at[r] + LeaseSeconds}
        /\ task[r].op # "release" => claim'.expires = at[r] + LeaseSeconds
    BY <1>2, <1>3, <1>5, UpdatedShape
  <2>2. claim.updated <= at[r]
    BY <1>1, <1>2, <1>3, <1>5 DEF RunSound, ClockSound
  <2>3. /\ claim.expires \in Nat /\ claim.created \in Nat /\ claim.updated \in Nat
        /\ claim.version \in Nat /\ claim' # None
    BY <1>3, <2>1, ClaimAssumption DEF ClaimRow
  <2>4. TypeOK'
    BY <1>1, <1>2, <2>1 DEF TypeOK, PCs
  <2>5. claim'.checkpoint # FAILED =>
            PayloadComplete(claim'.checkpoint, claim'.refs)
    <3>1. claim.checkpoint # FAILED
      BY <1>1, <1>2, <1>5 DEF RunSound, PendingSound, Terminal
    <3>2. CASE /\ task[r].op \in {"renew", "release"}
               /\ claim'.checkpoint = claim.checkpoint /\ claim'.refs = claim.refs
      BY <1>2, <1>3, <3>1, <3>2 DEF RowSound
    <3>3. CASE claim'.checkpoint = FAILED
      BY <3>3
    <3>4. CASE /\ task[r].op = "advance"
               /\ claim'.checkpoint = task[r].target
               /\ claim'.refs = Locked(seen[r].refs, task[r].target, task[r].ref)
      BY <1>1, <1>2, <3>4 DEF RunSound, PendingSound
    <3> QED
      BY <1>2, <1>3, <1>5, <3>2, <3>3, <3>4, UpdatedShape
  <2>6. RowSound'
    <3>1. /\ claim'.created <= claim'.updated
          /\ claim'.updated <= now
          /\ claim'.updated <= claim'.expires
          /\ claim'.expires <= claim'.updated + LeaseSeconds
      BY <1>2, <1>3, <2>1, <2>2, <2>3 DEF RowSound, RunSound, ClockSound
    <3>2. claim'.token \in 1 .. minted /\ claim'.attempt \in 1 .. minted
      BY <1>2, <1>3, <1>5, <2>1 DEF RowSound
    <3> QED
      BY <1>1, <2>5, <3>1, <3>2 DEF RowSound
  <2>7. ASSUME NEW s \in Runs PROVE RunSound(s)'
    <3>1. RunSound(s) /\ (pc'[s] = IF s = r THEN "confirm" ELSE pc[s])
      BY <1>1, <1>2 DEF IInv, TypeOK
    <3>2. s # r => tok[s] # tok[r]
      BY <1>1, <1>2 DEF RunSound, TokenSound
    <3>3. TokenSound(s)'
      BY <1>1, <1>3, <2>1, <3>1, <3>2 DEF RunSound, TokenSound
    <3>4. ClockSound(s)'
      BY <1>1, <2>1, <3>1 DEF RunSound, ClockSound
    <3>5. PendingSound(s)'
      <4>1. pc'[s] \in {"write", "confirm"} =>
               /\ seen[s] # None /\ seen[s] \in ClaimRow
               /\ seen[s].version <= claim.version
        BY <1>1, <1>2, <3>1 DEF RunSound, PendingSound, TypeOK
      <4>2. pc'[s] \in {"write", "confirm"} =>
               seen[s].version <= claim'.version /\ seen[s].version # claim'.version
        BY <2>1, <2>3, <4>1 DEF ClaimRow
      <4> QED
        BY <1>1, <2>3, <3>1, <4>2 DEF RunSound, PendingSound
    <3>6. BeliefSound(s)'
      <4>1. SUFFICES ASSUME Holds(s)'
                     PROVE  claim'.token = tok[s] /\ until[s] <= claim'.expires
        BY <1>1, <2>3 DEF BeliefSound
      <4>2. Holds(s)
        BY <1>1, <3>1, <4>1 DEF Holds
      <4>3. s = r /\ until[r] <= claim.expires
        BY <1>5, <3>1, <3>2, <4>2 DEF RunSound, BeliefSound
      <4>4. claim'.expires = at[r] + LeaseSeconds
        BY <2>1, <4>2, <4>3 DEF Holds
      <4>5. claim.expires <= claim.updated + LeaseSeconds /\ until[r] \in Nat
        BY <1>2, <1>3 DEF RowSound, TypeOK
      <4> QED
        BY <1>3, <2>1, <2>2, <2>3, <4>3, <4>4, <4>5
    <3>7. FailureReported(s)'
      <4>1. claim'.checkpoint = FAILED => task[r].op = "fail"
        BY <1>1, <1>2, <1>3, <1>5, UpdatedShape
        DEF RunSound, PendingSound, Terminal, TypeOK, Checkpoints, CLAIMED, COMPLETE,
            FAILED
      <4> QED
        BY <1>1, <2>1, <3>1, <3>2, <4>1 DEF FailureReported
    <3> QED
      BY <3>3, <3>4, <3>5, <3>6, <3>7 DEF RunSound
  <2> QED
    BY <2>4, <2>6, <2>7 DEF IInv
<1> QED
  BY <1>4, <1>5, WriteShape

\* An acquisition inserts the row, restarts a failed one, takes a live one
\* over, or leaves it to whoever has it.
LEMMA MergePreserves ==
  ASSUME IInv, NEW r \in Runs, MergeAcquisition(r)
  PROVE  IInv'
<1>1. /\ OnlyRun(r)
      /\ pc[r] = "acquire" /\ pc' = [pc EXCEPT ![r] = "verify"] /\ pc'[r] = "verify"
      /\ claim' = Acquired(r)
      /\ UNCHANGED <<now, minted, code, tok, until, at, task, seen>>
  BY DEF IInv, TypeOK, MergeAcquisition, OnlyRun
<1>2. RunTyped(r) /\ RunSound(r) /\ RowSound /\ TypeOK
  BY RunTypes DEF IInv
<1>3. /\ code[r] \in Codes /\ tok[r] \in Nat /\ tok[r] # 0 /\ tok[r] <= minted
      /\ minted \in 0 .. MaxTokens /\ now \in 0 .. MaxClock
      /\ at[r] \in Nat /\ at[r] <= now /\ LeaseSeconds \in Nat
  BY <1>1, <1>2, ClaimAssumption
  DEF TypeOK, RunSound, PendingSound, TokenSound, ClockSound
<1>4. CASE claim # None /\ Acquired(r) = claim
  <2>1. claim' = claim
    BY <1>1, <1>4
  <2>2. RunTyped(r)'
    BY <1>1, <1>2 DEF RunTyped, PCs
  <2>3. /\ TokenSound(r)' /\ ClockSound(r)' /\ PendingSound(r)'
        /\ BeliefSound(r)' /\ FailureReported(r)'
    BY <1>1, <1>2, <1>4, <2>1
    DEF RunSound, TokenSound, ClockSound, PendingSound, BeliefSound, Holds,
        FailureReported
  <2> QED
    BY <1>1, <1>3, <2>1, <2>2, <2>3, LocalStep DEF RunSound
<1>5. CASE ~(claim # None /\ Acquired(r) = claim)
  <2>1. /\ claim' \in ClaimRow /\ claim' # None
        /\ claim'.owner = r /\ claim'.token = tok[r]
        /\ claim'.expires = at[r] + LeaseSeconds /\ claim'.updated = at[r]
    BY <1>1, <1>2, <1>3, <1>5, AcquiredShape, ClaimAssumption
  <2>2. \/ /\ claim = None \/ (claim # None /\ RestartsFailed(r))
           /\ claim'.attempt = tok[r]
           /\ claim'.created = at[r]
           /\ claim'.checkpoint = CLAIMED
           /\ claim'.refs = NoRefs
        \/ /\ claim # None /\ TakesOver(r)
           /\ claim'.attempt = claim.attempt
           /\ claim'.created = claim.created
           /\ claim'.checkpoint = claim.checkpoint
           /\ claim'.refs = claim.refs
    BY <1>1, <1>2, <1>3, <1>5, AcquiredShape
  <2>3. claim # None => claim'.version = claim.version + 1
    BY <1>1, <1>2, <1>3, <1>5, AcquiredShape
  <2>4. claim # None =>
           /\ claim \in ClaimRow /\ claim.version \in Nat /\ claim.expires \in Nat
           /\ claim.created \in Nat /\ claim.updated \in Nat
    BY <1>2, RowTyped DEF ClaimRow
  <2>5. TypeOK'
    BY <1>1, <1>2, <2>1 DEF TypeOK, PCs
  <2>6. RowSound'
    <3>1. claim'.created <= claim'.updated
      <4>1. CASE claim'.created = at[r]
        BY <1>3, <2>1, <4>1
      <4>2. CASE claim # None /\ TakesOver(r) /\ claim'.created = claim.created
        <5>1. claim.updated <= at[r]
          BY <1>1, <1>2, <1>3, <2>4, <4>2
          DEF TakesOver, RowSound, RunSound, ClockSound
        <5> QED
          BY <1>2, <1>3, <2>1, <2>4, <4>2, <5>1 DEF RowSound
      <4> QED
        BY <2>2, <4>1, <4>2
    <3>2. claim'.checkpoint # FAILED =>
             PayloadComplete(claim'.checkpoint, claim'.refs)
      <4>1. CASE claim'.checkpoint = CLAIMED
        BY <4>1 DEF PayloadComplete, NeededFrom, RefNames, CLAIMED, FRAME_READY,
                    PARENT_READY, SELECTION_LOCKED, COMPLETE
      <4>2. CASE /\ claim # None /\ TakesOver(r)
                 /\ claim'.checkpoint = claim.checkpoint /\ claim'.refs = claim.refs
        BY <1>2, <4>2 DEF RowSound
      <4> QED
        BY <2>2, <4>1, <4>2
    <3>3. claim'.token \in 1 .. minted /\ claim'.attempt \in 1 .. minted
      BY <1>2, <1>3, <2>1, <2>2 DEF RowSound
    <3> QED
      BY <1>1, <1>3, <2>1, <3>1, <3>2, <3>3 DEF RowSound
  <2>7. ASSUME NEW s \in Runs PROVE RunSound(s)'
    <3>1. RunSound(s) /\ (pc'[s] = IF s = r THEN "verify" ELSE pc[s])
      BY <1>1, <1>2 DEF IInv, TypeOK
    <3>2. s # r => tok[s] # tok[r]
      BY <1>2, <1>3 DEF RunSound, TokenSound
    <3>3. TokenSound(s)'
      BY <1>1, <2>1, <2>2, <3>1, <3>2 DEF RunSound, TokenSound
    <3>4. ClockSound(s)'
      BY <1>1, <2>1, <3>1 DEF RunSound, ClockSound
    <3>5. PendingSound(s)'
      <4>1. pc'[s] \in {"write", "confirm"} =>
               /\ seen[s] # None /\ seen[s] \in ClaimRow
               /\ claim # None /\ seen[s].version <= claim.version
        BY <1>1, <1>2, <3>1 DEF RunSound, PendingSound, TypeOK
      <4>2. pc'[s] \in {"write", "confirm"} =>
               seen[s].version <= claim'.version /\ seen[s].version # claim'.version
        BY <2>3, <2>4, <4>1 DEF ClaimRow
      <4> QED
        BY <1>1, <2>1, <3>1, <4>2 DEF RunSound, PendingSound
    <3>6. BeliefSound(s)'
      <4>1. SUFFICES ASSUME Holds(s)' PROVE FALSE
        BY DEF BeliefSound
      <4>2. s # r /\ Holds(s)
        BY <1>1, <3>1, <4>1 DEF Holds
      <4>3. /\ claim # None /\ claim.token = tok[s] /\ until[s] <= claim.expires
            /\ until[s] > now /\ until[s] \in Nat /\ claim.owner = s
            /\ claim.checkpoint # FAILED
        BY <1>2, <3>1, <4>2
        DEF RunSound, BeliefSound, TokenSound, FailureReported, Holds, TypeOK
      <4>4. claim.expires <= at[r]
        BY <2>2, <4>2, <4>3 DEF TakesOver, RestartsFailed
      <4> QED
        BY <1>3, <2>4, <4>3, <4>4
    <3>7. FailureReported(s)'
      <4>1. claim'.checkpoint # FAILED
        BY <2>2 DEF TakesOver, Terminal, CLAIMED, FAILED
      <4> QED
        BY <4>1 DEF FailureReported
    <3> QED
      BY <3>3, <3>4, <3>5, <3>6, <3>7 DEF RunSound
  <2> QED
    BY <2>5, <2>6, <2>7 DEF IInv
<1> QED
  BY <1>4, <1>5

\* No claim and no operation satisfy the invariant.
LEMMA InitIInv == Init => IInv
<1> SUFFICES ASSUME Init PROVE IInv
  OBVIOUS
<1>1. TypeOK
  BY ClaimAssumption DEF Init, TypeOK, PCs, NoTask, Operations, Checkpoints, CLAIMED,
                         COMPLETE
<1>2. RowSound
  BY DEF Init, RowSound
<1>3. ASSUME NEW r \in Runs PROVE RunSound(r)
  BY DEF Init, RunSound, TokenSound, ClockSound, PendingSound, BeliefSound, Holds,
         FailureReported, NoTask
<1> QED
  BY <1>1, <1>2, <1>3 DEF IInv

\* Every step, and stuttering, keeps the invariant.
LEMMA NextIInv == IInv /\ [Next]_vars => IInv'
<1> SUFFICES ASSUME IInv, [Next]_vars PROVE IInv'
  OBVIOUS
<1>1. CASE Tick
  BY <1>1, TickPreserves
<1>2. ASSUME NEW r \in Runs, Abandon(r) PROVE IInv'
  BY <1>2, EndPreserves DEF Abandon
<1>3. ASSUME NEW r \in Runs, Step(r) PROVE IInv'
  <2>1. CASE BeginClaim(r)
    BY <2>1, BeginClaimPreserves
  <2>2. CASE MergeAcquisition(r)
    BY <2>2, MergePreserves
  <2>3. CASE VerifyAcquisition(r)
    BY <2>3, VerifyPreserves
  <2>4. CASE BeginRenew(r) \/ BeginRelease(r) \/ BeginFail(r) \/ BeginAdvance(r)
    <3>1. PICK t \in [op : Operations, target : Checkpoints, ref : RefVals \cup {None}] :
             (t.op = "advance" => t.ref \in RefVals) /\ Begin(r, t)
      <4>1. /\ NoTask \in [op : Operations, target : Checkpoints,
                            ref : RefVals \cup {None}]
            /\ FRAME_READY .. COMPLETE \subseteq Checkpoints
            /\ CLAIMED .. REGISTERED \subseteq Checkpoints
        BY DEF NoTask, Operations, Checkpoints, CLAIMED, COMPLETE, FRAME_READY,
               REGISTERED
      <4>2. CASE BeginRenew(r)
        BY <4>1, <4>2 DEF BeginRenew, NoTask
      <4>3. CASE BeginRelease(r)
        BY <4>1, <4>3 DEF BeginRelease, Operations, NoTask
      <4>4. CASE BeginFail(r)
        BY <4>1, <4>4 DEF BeginFail, Operations, NoTask
      <4>5. CASE BeginAdvance(r)
        BY <4>1, <4>5 DEF BeginAdvance, Operations
      <4> QED
        BY <2>4, <4>2, <4>3, <4>4, <4>5
    <3> QED
      BY <3>1, BeginPreserves
  <2>5. CASE Load(r)
    BY <2>5, LoadPreserves
  <2>6. CASE Write(r)
    BY <2>6, WritePreserves
  <2>7. CASE Confirm(r)
    BY <2>7, ConfirmPreserves
  <2> QED
    BY <1>3, <2>1, <2>2, <2>3, <2>4, <2>5, <2>6, <2>7 DEF Step
<1>4. CASE UNCHANGED vars
  <2>1. UNCHANGED <<now, claim, minted, pc, code, tok, until, at, task, seen>>
    BY <1>4 DEF vars, locals
  <2>2. TypeOK'
    BY <2>1 DEF IInv, TypeOK
  <2>3. RowSound'
    BY <2>1 DEF IInv, RowSound
  <2>4. ASSUME NEW r \in Runs PROVE RunSound(r)'
    BY <2>1 DEF IInv, RunSound, TokenSound, ClockSound, PendingSound, BeliefSound,
                Holds, FailureReported
  <2> QED
    BY <2>2, <2>3, <2>4 DEF IInv
<1> QED
  BY <1>1, <1>2, <1>3, <1>4 DEF Next

-----------------------------------------------------------------------------
(* What follows from the invariant.                                        *)

\* The inductive invariant of the claim protocol.
LEMMA SpecIInv == Spec => []IInv
  BY InitIInv, NextIInv, PTL DEF Spec

\* The clock, the stored row and the runs' local state keep their types.
THEOREM TypeCorrect == Spec => []TypeOK
<1>1. IInv => TypeOK
  BY DEF IInv
<1> QED
  BY <1>1, SpecIInv, PTL

\* Two runs never hold unexpired leases on one build: both would have its
\* token, and a token belongs to one execution (research_claims.py).
THEOREM Exclusion == Spec => []LeaseExclusion
<1>1. IInv => LeaseExclusion
  <2> SUFFICES ASSUME IInv, NEW r \in Runs, NEW s \in Runs, Holds(r), Holds(s)
               PROVE  r = s
    BY DEF LeaseExclusion
  <2>1. claim # None /\ claim.token = tok[r] /\ claim.token = tok[s]
    BY DEF IInv, RunSound, BeliefSound
  <2>2. tok[r] # 0
    BY <2>1 DEF IInv, RowSound
  <2> QED
    BY <2>1, <2>2 DEF IInv, RunSound, TokenSound
<1> QED
  BY <1>1, SpecIInv, PTL

\* A transition that finds the version it has loaded finds the row it has
\* loaded (_merge_claim_transition).
THEOREM VersionIdentifies == Spec => []VersionIdentifiesRow
<1>1. IInv => VersionIdentifiesRow
  BY DEF IInv, RunSound, PendingSound, VersionIdentifiesRow
<1> QED
  BY <1>1, SpecIInv, PTL

\* A row at a checkpoint has the references a resuming run reads from it
\* (_validate_checkpoint_payload).
THEOREM Resumable == Spec => []ResumableRow
<1>1. IInv => ResumableRow
  BY DEF IInv, RowSound, ResumableRow, Readable
<1> QED
  BY <1>1, SpecIInv, PTL

\* Only an acquisition or a transition changes the row.
LEMMA RowChange ==
  ASSUME IInv, [Next]_vars, claim' # claim
  PROVE  /\ now' = now
         /\ \E r \in Runs : MergeAcquisition(r) \/ Write(r)
  BY DEF Next, Step, Tick, Abandon, BeginClaim, VerifyAcquisition, BeginRenew,
         BeginRelease, BeginFail, BeginAdvance, Begin, Load, Confirm,
         MergeAcquisition, Write, vars

\* The references that are set stay as they are.
LEMMA LockedKeeps ==
  ASSUME NEW refs \in [RefNames -> RefVals \cup {None}], NEW checkpoint, NEW v,
         SetOnce(refs, checkpoint, v)
  PROVE  \A n \in RefNames :
            refs[n] # None => Locked(refs, checkpoint, v)[n] = refs[n]
  BY DEF SetOnce, Locked

\* An attempt moves to its next checkpoint or fails and keeps what it has
\* locked; only a failed attempt is replaced, by one of other code.
THEOREM MovesForward == Spec => AttemptMovesForward
<1> DEFINE Kept ==
      /\ claim.checkpoint \notin Terminal
      /\ claim'.checkpoint \in {claim.checkpoint, claim.checkpoint + 1, FAILED}
      /\ \A n \in RefNames : claim.refs[n] # None => claim'.refs[n] = claim.refs[n]
<1> DEFINE Renewed ==
      /\ claim.checkpoint = FAILED
      /\ claim'.checkpoint = CLAIMED
      /\ claim'.code # claim.code
<1> DEFINE Forward ==
      claim # None /\ claim' # claim =>
          /\ claim'.version = claim.version + 1
          /\ IF claim'.attempt = claim.attempt THEN Kept ELSE Renewed
<1>1. IInv /\ [Next]_vars => Forward
  <2> SUFFICES ASSUME IInv, [Next]_vars, claim # None, claim' # claim
               PROVE  /\ claim'.version = claim.version + 1
                      /\ IF claim'.attempt = claim.attempt THEN Kept ELSE Renewed
    OBVIOUS
  <2>1. claim \in ClaimRow
    BY RowTyped DEF IInv
  <2>2. ASSUME NEW r \in Runs, MergeAcquisition(r)
        PROVE  /\ claim'.version = claim.version + 1
               /\ IF claim'.attempt = claim.attempt THEN Kept ELSE Renewed
    <3>1. claim' = Acquired(r) /\ code[r] \in Codes /\ claim.attempt # tok[r]
      BY <2>2 DEF IInv, TypeOK, RunSound, PendingSound, TokenSound, MergeAcquisition
    <3>2. CASE RestartsFailed(r) /\ Acquired(r).attempt = tok[r]
               /\ Acquired(r).code = code[r] /\ Acquired(r).checkpoint = CLAIMED
               /\ Acquired(r).version = claim.version + 1
      BY <3>1, <3>2 DEF RestartsFailed
    <3>3. CASE TakesOver(r) /\ Acquired(r).attempt = claim.attempt
               /\ Acquired(r).checkpoint = claim.checkpoint
               /\ Acquired(r).refs = claim.refs
               /\ Acquired(r).version = claim.version + 1
      BY <3>1, <3>3 DEF TakesOver
    <3> QED
      BY <3>1, <3>2, <3>3, AcquiredShape DEF IInv
  <2>3. ASSUME NEW r \in Runs, Write(r)
        PROVE  /\ claim'.version = claim.version + 1
               /\ IF claim'.attempt = claim.attempt THEN Kept ELSE Renewed
    <3>1. seen[r] = claim /\ claim' = Updated(r)
      BY <2>3, WriteShape
    <3>2. claim'.version = claim.version + 1 /\ claim'.attempt = claim.attempt
      BY <2>1, <3>1, UpdatedShape DEF IInv
    <3>3. claim.checkpoint \notin Terminal
      BY <2>3, <3>1 DEF IInv, RunSound, PendingSound, Write
    <3>4. CASE /\ claim'.checkpoint \in {claim.checkpoint, FAILED}
               /\ claim'.refs = claim.refs
      BY <3>2, <3>3, <3>4
    <3>5. CASE /\ task[r].op = "advance" /\ claim'.checkpoint = task[r].target
               /\ claim'.refs = Locked(claim.refs, task[r].target, task[r].ref)
      <4>1. /\ claim.checkpoint = task[r].target - 1
            /\ SetOnce(claim.refs, task[r].target, task[r].ref)
            /\ task[r].target \in Nat
        BY <2>3, <3>1, <3>5
        DEF IInv, RunSound, PendingSound, Write, TypeOK, Checkpoints, CLAIMED,
            COMPLETE
      <4>2. claim'.checkpoint = claim.checkpoint + 1
        BY <3>5, <4>1
      <4>3. \A n \in RefNames :
               claim.refs[n] # None => claim'.refs[n] = claim.refs[n]
        BY <2>1, <3>5, <4>1, LockedKeeps DEF ClaimRow
      <4> QED
        BY <3>2, <3>3, <4>2, <4>3
    <3> QED
      BY <2>1, <3>1, <3>2, <3>4, <3>5, UpdatedShape DEF IInv
  <2> QED
    BY <2>2, <2>3, RowChange
<1> QED
  BY <1>1, SpecIInv, PTL DEF Spec, AttemptMovesForward

\* A run loses an unfinished build only when its lease is over by the clock.
THEOREM TakenAfterExpiry == Spec => TakenOnlyAfterExpiry
<1> DEFINE Expired ==
      \/ claim = None
      \/ claim.checkpoint = FAILED
      \/ claim'.owner = claim.owner
      \/ claim.expires <= now
<1>1. IInv /\ [Next]_vars => Expired
  <2> SUFFICES ASSUME IInv, [Next]_vars, claim # None, claim' # claim PROVE Expired
    OBVIOUS
  <2>1. claim \in ClaimRow
    BY RowTyped DEF IInv
  <2>2. ASSUME NEW r \in Runs, MergeAcquisition(r) PROVE Expired
    <3>1. claim' = Acquired(r) /\ code[r] \in Codes /\ at[r] <= now
      BY <2>2 DEF IInv, TypeOK, RunSound, PendingSound, ClockSound, MergeAcquisition
    <3>2. RestartsFailed(r) \/ TakesOver(r)
      BY <3>1, AcquiredShape DEF IInv
    <3>3. CASE RestartsFailed(r)
      BY <3>3 DEF RestartsFailed
    <3>4. CASE TakesOver(r) /\ claim.owner = r
      <4>1. claim'.owner = r
        BY <3>1, AcquiredShape DEF IInv
      <4> QED
        BY <3>4, <4>1
    <3>5. CASE TakesOver(r) /\ claim.expires <= at[r]
      BY <2>1, <3>1, <3>5 DEF IInv, TypeOK, ClaimRow
    <3> QED
      BY <3>2, <3>3, <3>4, <3>5 DEF TakesOver
  <2>3. ASSUME NEW r \in Runs, Write(r) PROVE Expired
    BY <2>1, <2>3, WriteShape, UpdatedShape DEF IInv
  <2> QED
    BY <2>2, <2>3, RowChange
<1> QED
  BY <1>1, SpecIInv, PTL DEF Spec, TakenOnlyAfterExpiry

-----------------------------------------------------------------------------
(* The protocol implements the ledger.                                     *)

Entry  == IF claim = None THEN None ELSE Stored
Lapsed == claim # None /\ claim.expires <= now

\* Protocol and ledger mean the same by checkpoints and references.
LEMMA SameCheckpoints ==
  /\ L!CLAIMED = CLAIMED /\ L!FAILED = FAILED /\ L!Terminal = Terminal
  /\ L!NoRefs = NoRefs
  /\ \A refs, checkpoint, v :
        /\ L!SetOnce(refs, checkpoint, v) <=> SetOnce(refs, checkpoint, v)
        /\ L!Locked(refs, checkpoint, v) = Locked(refs, checkpoint, v)
  /\ \A refs, checkpoint :
        L!PayloadComplete(checkpoint, refs) <=> PayloadComplete(checkpoint, refs)
<1> USE DEF L!CLAIMED, CLAIMED, L!FRAME_READY, FRAME_READY, L!PARENT_READY,
            PARENT_READY, L!SELECTION_LOCKED, SELECTION_LOCKED, L!REGISTERED,
            REGISTERED, L!COMPLETE, COMPLETE, L!FAILED, FAILED, L!RefNames, RefNames
<1>1. \A checkpoint : L!Supplied(checkpoint) = Supplied(checkpoint)
  BY DEF L!Supplied, Supplied
<1>2. L!NeededFrom = NeededFrom
  BY DEF L!NeededFrom, NeededFrom
<1> QED
  BY <1>1, <1>2 DEF L!Terminal, Terminal, L!NoRefs, NoRefs, L!SetOnce, SetOnce,
                    L!Locked, Locked, L!PayloadComplete, PayloadComplete

\* A stored claim maps to an entry of the ledger.
LEMMA StoredTyped == TypeOK /\ claim # None => Stored \in LedgerEntry /\ Stored # None
  BY RowTyped, ClaimAssumption DEF Stored, LedgerEntry, ClaimRow

\* An acquisition is the first claim, a fresh attempt or a takeover.
LEMMA MergeLedgerStep ==
  ASSUME IInv, NEW r \in Runs, MergeAcquisition(r), claim' # claim
  PROVE  L!LedgerNext
<1>1. /\ claim' = Acquired(r) /\ code[r] \in Codes /\ tok[r] \in 1 .. MaxTokens
      /\ at[r] \in Nat /\ now \in Nat /\ at[r] <= now
  BY ClaimAssumption DEF IInv, TypeOK, RunSound, TokenSound, PendingSound, ClockSound, MergeAcquisition
<1>2. claim # None => Stored # None /\ claim.expires \in Nat
  BY StoredTyped, RowTyped DEF IInv, ClaimRow
<1>3. /\ claim' # None
      /\ claim'.code = code[r] /\ claim'.owner = r /\ claim'.token = tok[r]
  BY <1>1, AcquiredShape, ClaimAssumption DEF IInv
<1>4. CASE /\ claim = None \/ (claim # None /\ RestartsFailed(r))
           /\ claim'.attempt = tok[r] /\ claim'.checkpoint = CLAIMED
           /\ claim'.refs = NoRefs
  <2>1. Stored' = L!Fresh(r, code[r], tok[r])
    BY <1>3, <1>4, SameCheckpoints DEF Stored, L!Fresh
  <2>2. L!Open(r, code[r], tok[r])
    BY <1>2, <1>3, <1>4, <2>1, SameCheckpoints DEF L!Open, Stored, RestartsFailed
  <2> QED
    BY <1>1, <2>2 DEF L!LedgerNext
<1>5. CASE /\ claim # None /\ TakesOver(r)
           /\ claim'.attempt = claim.attempt
           /\ claim'.checkpoint = claim.checkpoint
           /\ claim'.refs = claim.refs
  <2>1. claim.code = code[r] /\ claim.checkpoint \notin Terminal
    BY <1>5 DEF TakesOver
  <2>2. Stored' = [Stored EXCEPT !.owner = r, !.token = tok[r]]
    <3> DEFINE owned == [Stored EXCEPT !.owner = r]
    <3>1. owned = [code |-> claim.code, attempt |-> claim.attempt, owner |-> r,
                   token |-> claim.token, checkpoint |-> claim.checkpoint,
                   refs |-> claim.refs]
      BY DEF Stored
    <3> HIDE DEF owned
    <3>2. [owned EXCEPT !.token = tok[r]]
             = [code |-> claim.code, attempt |-> claim.attempt, owner |-> r,
                token |-> tok[r], checkpoint |-> claim.checkpoint,
                refs |-> claim.refs]
      BY <3>1
    <3>3. [Stored EXCEPT !.owner = r, !.token = tok[r]] = [owned EXCEPT !.token = tok[r]]
      BY Zenon DEF owned
    <3> QED
      BY <1>3, <1>5, <2>1, <3>2, <3>3 DEF Stored
  <2>3. claim.owner = r \/ claim.expires <= now
    BY <1>1, <1>2, <1>5 DEF TakesOver
  <2>4. L!TakeOver(r, code[r], tok[r])
    BY <1>2, <1>3, <1>5, <2>1, <2>2, <2>3, SameCheckpoints DEF L!TakeOver, Stored
  <2> QED
    BY <1>1, <2>4 DEF L!LedgerNext
<1> QED
  BY <1>1, <1>4, <1>5, AcquiredShape DEF IInv

\* A transition moves the entry under its token, or leaves it as it is.
LEMMA WriteLedgerStep ==
  ASSUME IInv, NEW r \in Runs, Write(r), claim' # claim
  PROVE  L!LedgerNext
<1>1. /\ claim = seen[r] /\ claim' = Updated(r) /\ claim.token = tok[r]
      /\ claim \in ClaimRow
  BY WriteShape
<1>2. /\ claim' \in ClaimRow /\ claim'.code = claim.code
      /\ claim'.attempt = claim.attempt /\ claim'.owner = claim.owner
      /\ claim'.token = claim.token
  BY <1>1, UpdatedShape DEF IInv
<1>3. /\ claim # None /\ claim' # None /\ Stored # None
      /\ claim.checkpoint \notin Terminal
      /\ tok[r] \in 1 .. MaxTokens
  BY <1>1, <1>2, StoredTyped, ClaimAssumption
  DEF IInv, TypeOK, RunSound, TokenSound, PendingSound, Write
<1>4. CASE claim'.checkpoint = claim.checkpoint /\ claim'.refs = claim.refs
  <2>1. Stored' = Stored
    BY <1>2, <1>4 DEF Stored
  <2> QED
    BY <1>3, <2>1 DEF L!LedgerNext, L!Lease
<1>5. CASE claim'.checkpoint = FAILED /\ claim'.refs = claim.refs
  <2>1. Stored' = [Stored EXCEPT !.checkpoint = FAILED]
    BY <1>2, <1>5 DEF Stored
  <2>2. L!Fail(tok[r])
    BY <1>1, <1>3, <2>1, SameCheckpoints DEF L!Fail, Stored
  <2> QED
    BY <1>3, <2>2 DEF L!LedgerNext
<1>6. CASE /\ task[r].op = "advance" /\ claim'.checkpoint = task[r].target
           /\ claim'.refs = Locked(claim.refs, task[r].target, task[r].ref)
  <2> DEFINE next == claim.checkpoint + 1
  <2>1. /\ task[r].target = next
        /\ SetOnce(claim.refs, next, task[r].ref)
        /\ PayloadComplete(next, Locked(claim.refs, next, task[r].ref))
        /\ task[r].ref \in RefVals
    <3>1. task[r].target \in Nat /\ claim.checkpoint = task[r].target - 1
      BY <1>1, <1>6
      DEF IInv, TypeOK, RunSound, PendingSound, Write, Checkpoints, CLAIMED, COMPLETE
    <3> QED
      BY <1>1, <1>6, <3>1 DEF IInv, RunSound, PendingSound, Write
  <2>2. Stored' = [Stored EXCEPT !.checkpoint = next,
                                 !.refs = Locked(claim.refs, next, task[r].ref)]
    <3> DEFINE refs == Locked(claim.refs, next, task[r].ref)
               moved == [Stored EXCEPT !.checkpoint = next]
    <3>1. moved = [code |-> claim.code, attempt |-> claim.attempt,
                   owner |-> claim.owner, token |-> claim.token,
                   checkpoint |-> next, refs |-> claim.refs]
      BY DEF Stored
    <3> HIDE DEF moved, refs
    <3>2. [moved EXCEPT !.refs = refs]
             = [code |-> claim.code, attempt |-> claim.attempt,
                owner |-> claim.owner, token |-> claim.token,
                checkpoint |-> next, refs |-> refs]
      BY <3>1
    <3>3. [Stored EXCEPT !.checkpoint = next, !.refs = refs] = [moved EXCEPT !.refs = refs]
      BY Zenon DEF moved
    <3>4. claim'.refs = refs /\ claim'.checkpoint = next
      BY <1>6, <2>1 DEF refs
    <3> QED
      BY <1>2, <3>2, <3>3, <3>4 DEF Stored, refs
  <2>3. L!Advance(tok[r], task[r].ref)
    BY <1>1, <1>3, <2>1, <2>2, SameCheckpoints DEF L!Advance, Stored
  <2> QED
    BY <1>3, <2>1, <2>3 DEF L!LedgerNext
<1> QED
  BY <1>1, <1>4, <1>5, <1>6, UpdatedShape DEF IInv

\* Every step of the protocol is a step of the ledger, or none.
LEMMA LedgerStep ==
  ASSUME IInv, [Next]_vars
  PROVE  L!LedgerNext /\ Lapsed' \in BOOLEAN
<1>1. Lapsed' \in BOOLEAN
  BY DEF Lapsed
<1>2. CASE claim' = claim
  BY <1>1, <1>2 DEF L!LedgerNext, L!Lease, Stored
<1>3. CASE claim' # claim
  BY <1>1, <1>3, RowChange, MergeLedgerStep, WriteLedgerStep
<1> QED
  BY <1>2, <1>3

\* Every change of the stored row is one of the moves the callers rely on.
THEOREM Implementation == Spec => ImplementsLedger
<1>1. Init => L!LedgerInit
  BY DEF Init, L!LedgerInit
<1>2. IInv /\ [Next]_vars => [L!LedgerNext /\ Lapsed' \in BOOLEAN]_(L!ledgerVars)
  BY LedgerStep
<1> QED
  BY <1>1, <1>2, SpecIInv, PTL DEF Spec, ImplementsLedger, L!Ledger, Lapsed
=============================================================================
