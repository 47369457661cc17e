------------------------- MODULE ProviderBuildProofs -------------------------
(***************************************************************************)
(* Theorems about ProviderBuild, for every number of runs, builds, retries *)
(* and faults, any lease length, and with or without overlapping runs and  *)
(* serial takeover.                                                        *)
(***************************************************************************)
EXTENDS ProviderBuild, SequenceTheorems, TLAPS

-----------------------------------------------------------------------------
(* The inductive invariant.                                                *)

\* The signals table has no two commits of an attempt.
OneCommit == \A v, w \in DOMAIN signals : signals[v] = signals[w] => v = w

\* A READY row names the commit of its own attempt.
ReadySound ==
    \A row \in ready :
        /\ row.version \in DOMAIN signals
        /\ signals[row.version] = row.attempt

\* The slot is leased to the run that proposed its attempt, in an execution
\* that has begun, and its lease has not ended before it began.
SlotSound ==
    slot # None =>
        /\ slot.attempt.run = slot.run
        /\ slot.attempt.count <= count[slot.run]
        /\ slot.activated <= now
        /\ slot.activated <= slot.expires

\* An execution works on an attempt of its own run and is not behind the slot.
AttemptSound(r) ==
    pc[r] # "idle" =>
        /\ attempt[r] \in Attempts
        /\ attempt[r].run = r
        /\ attempt[r].count <= count[r]
        /\ activated[r] <= now
        /\ slot # None /\ slot.run = r => slot.activated <= activated[r]

\* What the execution has proposed is new until it adopts the slot's attempt,
\* and that attempt stays unconsumed until the MERGE.
ProposalSound(r) ==
    /\ pc[r] = "lookup" =>
          /\ attempt[r].count = count[r]
          /\ slot # None /\ slot.run = r => slot.attempt.count < count[r]
    /\ pc[r] = "claim" /\ slot # None /\ slot.attempt = attempt[r] =>
          slot.status # "CONSUMED"

\* Nothing is committed for the attempt before its commit, the receipt is the
\* commit's, and the READY row is there before the slot is released.
ProgressSound(r) ==
    /\ pc[r] = "commit" => \A v \in DOMAIN signals : signals[v] # attempt[r]
    /\ pc[r] = "publish" =>
          version[r] \in DOMAIN signals /\ signals[version[r]] = attempt[r]
    /\ pc[r] \in {"consume", "confirm", "done"} =>
          \E row \in ready : row.attempt = attempt[r]

RunSound(r) == AttemptSound(r) /\ ProposalSound(r) /\ ProgressSound(r)

Tables == OneCommit /\ ReadySound /\ SlotSound /\ ConsumedIsReady

IInv == TypeOK /\ Tables /\ \A r \in Runs : RunSound(r)

-----------------------------------------------------------------------------
(* What a step of one run leaves to the others.                            *)

\* Only r's locals change.
OnlyLocalsOf(r) ==
    \A s \in Runs \ {r} :
        /\ pc'[s] = pc[s] /\ count'[s] = count[s] /\ activated'[s] = activated[s]
        /\ attempt'[s] = attempt[s] /\ version'[s] = version[s]

\* The tables change on behalf of r: the commit is of r's attempt, no attempt
\* loses its READY row, and a changed slot is r's.
OnBehalfOf(r) ==
    /\ now' \in Nat /\ now' >= now
    /\ \/ signals' = signals
       \/ /\ attempt[r] \in Attempts /\ attempt[r].run = r
          /\ signals' = Append(signals, attempt[r])
    /\ \A row \in ready : \E kept \in ready' : kept.attempt = row.attempt
    /\ \/ slot' = slot
       \/ slot' # None /\ slot'.run = r /\ slot'.attempt.run = r

\* The invariant of a run survives the steps of the other runs.
LEMMA Others ==
    ASSUME NEW r \in Runs, IInv, OnlyLocalsOf(r), OnBehalfOf(r),
           NEW s \in Runs, s # r
    PROVE  RunSound(s)'
<1>0. /\ pc'[s] = pc[s] /\ count'[s] = count[s] /\ activated'[s] = activated[s]
      /\ attempt'[s] = attempt[s] /\ version'[s] = version[s]
  BY DEF OnlyLocalsOf
<1>1. RunSound(s)
  BY DEF IInv
<1>2. AttemptSound(s)'
  <2>1. now \in Nat /\ activated[s] \in Nat /\ now' \in Nat /\ now' >= now
    BY DEF IInv, TypeOK, OnBehalfOf
  <2>2. slot' # None /\ slot'.run = s => slot' = slot
    BY DEF OnBehalfOf
  <2> QED
    BY <1>0, <1>1, <2>1, <2>2 DEF RunSound, AttemptSound
<1>3. ProposalSound(s)'
  <2>1. CASE slot' = slot
    BY <1>0, <1>1, <2>1 DEF RunSound, ProposalSound
  <2>2. CASE slot' # None /\ slot'.run = r /\ slot'.attempt.run = r
    <3>1. pc[s] = "claim" => attempt[s].run = s
      BY <1>1 DEF RunSound, AttemptSound
    <3> QED
      BY <1>0, <1>1, <2>2, <3>1 DEF RunSound, ProposalSound
  <2> QED
    BY <2>1, <2>2 DEF OnBehalfOf
<1>4. ProgressSound(s)'
  <2>1. pc[s] # "idle" => attempt[s].run = s
    BY <1>1 DEF RunSound, AttemptSound
  <2>2. \A row \in ready : \E kept \in ready' : kept.attempt = row.attempt
    BY DEF OnBehalfOf
  <2>3. CASE signals' = signals
    BY <1>0, <1>1, <2>2, <2>3 DEF RunSound, ProgressSound
  <2>4. CASE /\ attempt[r] \in Attempts /\ attempt[r].run = r
             /\ signals' = Append(signals, attempt[r])
    <3>1. /\ DOMAIN signals' = 1 .. Len(signals) + 1
          /\ DOMAIN signals = 1 .. Len(signals) /\ Len(signals) \in Nat
          /\ \A v \in DOMAIN signals : signals'[v] = signals[v]
          /\ signals'[Len(signals) + 1] = attempt[r]
      BY <2>4, AppendProperties DEF IInv, TypeOK
    <3>2. \A v \in DOMAIN signals' : v \in DOMAIN signals \/ v = Len(signals) + 1
      BY <3>1
    <3>3. DOMAIN signals \subseteq DOMAIN signals'
      BY <3>1
    <3>4. attempt[r].run = r
      BY <2>4
    <3> QED
      BY <1>0, <1>1, <2>1, <2>2, <3>1, <3>2, <3>3, <3>4 DEF RunSound, ProgressSound
  <2> QED
    BY <2>3, <2>4 DEF OnBehalfOf
<1> QED
  BY <1>2, <1>3, <1>4 DEF RunSound

\* What makes a step preserve the invariant.
LEMMA StepSound ==
    ASSUME NEW r \in Runs, IInv, OnlyLocalsOf(r), OnBehalfOf(r),
           TypeOK', Tables', RunSound(r)'
    PROVE  IInv'
<1>1. \A s \in Runs : RunSound(s)'
  BY Others
<1> QED
  BY <1>1 DEF IInv

\* Steps that read the tables, or nothing, keep their invariants.
LEMMA TablesStay ==
    ASSUME Tables, UNCHANGED <<now, slot, signals, ready, count>>
    PROVE  Tables'
BY DEF Tables, OneCommit, ReadySound, SlotSound, ConsumedIsReady

\* An execution that ends touches its own locals and leaves nothing to show.
LEMMA EndSound ==
    ASSUME NEW r \in Runs, TypeOK, End(r)
    PROVE  /\ OnlyLocalsOf(r)
           /\ pc' \in [Runs -> PCs] /\ count' \in [Runs -> 0 .. MaxExecutions]
           /\ activated' \in [Runs -> Nat]
           /\ attempt' \in [Runs -> Attempts \cup {None}] /\ version' \in [Runs -> Nat]
           /\ RunSound(r)'
           /\ count' = count
<1> USE DEF TypeOK, End, Goto
<1>1. OnlyLocalsOf(r)
  BY DEF OnlyLocalsOf
<1>2. /\ pc' \in [Runs -> PCs] /\ count' \in [Runs -> 0 .. MaxExecutions]
      /\ activated' \in [Runs -> Nat]
      /\ attempt' \in [Runs -> Attempts \cup {None}] /\ version' \in [Runs -> Nat]
  BY DEF PCs
<1>3. pc'[r] = "idle"
  OBVIOUS
<1>4. RunSound(r)'
  BY <1>3 DEF RunSound, AttemptSound, ProposalSound, ProgressSound
<1> QED
  BY <1>1, <1>2, <1>4

\* Release leaves the slot, or closes the run's own lease at this instant.
LEMMA ReleaseSound ==
    ASSUME NEW r \in Runs, IInv, NEW status \in Statuses, Release(r, status)
    PROVE  /\ slot' \in Slots \cup {None}
           /\ \/ slot' = slot
              \/ /\ slot # None /\ Owns(r) /\ slot.status = "ACTIVE"
                 /\ slot' # None /\ slot'.run = slot.run /\ slot'.attempt = slot.attempt
                 /\ slot'.activated = slot.activated
                 /\ slot'.status = status /\ slot'.expires = now
<1>1. slot \in Slots \cup {None} /\ now \in Nat
  BY DEF IInv, TypeOK
<1>2. CASE Owns(r) /\ slot.status = "ACTIVE"
  <2>1. slot \in Slots
    BY <1>1, <1>2 DEF Owns
  <2>2. slot' = [[slot EXCEPT !.status = status] EXCEPT !.expires = now]
    BY <1>2 DEF Release
  <2>3. [slot EXCEPT !.status = status] \in Slots
    BY <2>1 DEF Slots
  <2>4. slot' \in Slots
    BY <2>2, <2>3, <1>1 DEF Slots
  <2>5. /\ slot'.run = slot.run /\ slot'.attempt = slot.attempt
        /\ slot'.activated = slot.activated
        /\ slot'.status = status /\ slot'.expires = now
    BY <2>1, <2>2 DEF Slots
  <2>6. slot' # None
    BY <2>4, ProviderAssumption
  <2> QED
    BY <1>2, <2>1, <2>4, <2>5, <2>6 DEF Owns
<1>3. CASE ~(Owns(r) /\ slot.status = "ACTIVE")
  BY <1>1, <1>3 DEF Release
<1> QED
  BY <1>2, <1>3

\* A released slot is behind no execution and is consumed only when READY.
LEMMA ReleaseTables ==
    ASSUME NEW r \in Runs, IInv, NEW status \in Statuses, Release(r, status),
           UNCHANGED <<now, signals, ready, count>>,
           status = "CONSUMED" /\ Owns(r) =>
               \E row \in ready : row.attempt = attempt[r]
    PROVE  Tables' /\ slot' \in Slots \cup {None} /\
           (\/ slot' = slot
            \/ slot' # None /\ slot'.run = r /\ slot'.attempt.run = r)
<1>1. Tables
  BY DEF IInv
<1>2. /\ slot' \in Slots \cup {None}
      /\ \/ slot' = slot
         \/ /\ slot # None /\ Owns(r) /\ slot.status = "ACTIVE"
            /\ slot' # None /\ slot'.run = slot.run /\ slot'.attempt = slot.attempt
            /\ slot'.activated = slot.activated
            /\ slot'.status = status /\ slot'.expires = now
  BY ReleaseSound
<1>3. OneCommit' /\ ReadySound'
  BY <1>1 DEF Tables, OneCommit, ReadySound
<1>4. SlotSound'
  BY <1>1, <1>2 DEF Tables, SlotSound
<1>5. ConsumedIsReady'
  BY <1>1, <1>2 DEF Tables, ConsumedIsReady, Owns
<1>6. slot' = slot \/ (slot' # None /\ slot'.run = r /\ slot'.attempt.run = r)
  BY <1>1, <1>2 DEF Tables, SlotSound, Owns
<1> QED
  BY <1>2, <1>3, <1>4, <1>5, <1>6 DEF Tables

-----------------------------------------------------------------------------
(* One lemma for each action.                                              *)

\* An empty slot and empty tables satisfy the invariant.
LEMMA InitSound == Init => IInv
<1> SUFFICES ASSUME Init PROVE IInv
  OBVIOUS
<1>1. TypeOK
  BY ProviderAssumption DEF Init, TypeOK, PCs
<1>2. Tables
  BY DEF Init, Tables, OneCommit, ReadySound, SlotSound, ConsumedIsReady
<1>3. \A r \in Runs : RunSound(r)
  BY DEF Init, RunSound, AttemptSound, ProposalSound, ProgressSound
<1> QED
  BY <1>1, <1>2, <1>3 DEF IInv

\* The clock disturbs nothing that is stored.
LEMMA TickSound == IInv /\ Tick => IInv'
<1> SUFFICES ASSUME IInv, Tick PROVE IInv'
  OBVIOUS
<1> USE DEF Tick, stored, locals
<1>1. TypeOK'
  BY DEF IInv, TypeOK
<1>2. now' \in Nat /\ now' >= now
  BY DEF IInv, TypeOK
<1>3. Tables'
  BY <1>2 DEF IInv, TypeOK, Slots, Tables, OneCommit, ReadySound, SlotSound, ConsumedIsReady
<1>4. ASSUME NEW r \in Runs PROVE RunSound(r)'
  <2>1. RunSound(r) /\ activated[r] \in Nat /\ now \in Nat
    BY DEF IInv, TypeOK
  <2> QED
    BY <2>1, <1>2 DEF RunSound, AttemptSound, ProposalSound, ProgressSound
<1> QED
  BY <1>1, <1>3, <1>4 DEF IInv

\* An execution begins with a proposal that is new.
LEMMA BeginSound == \A r \in Runs : IInv /\ Begin(r) => IInv'
<1> SUFFICES ASSUME NEW r \in Runs, IInv, Begin(r) PROVE IInv'
  OBVIOUS
<1> USE DEF Begin, Starts, Goto, stored
<1>0. TypeOK /\ Tables
  BY DEF IInv
<1>1. OnlyLocalsOf(r)
  BY <1>0 DEF TypeOK, OnlyLocalsOf
<1>2. OnBehalfOf(r)
  BY <1>0 DEF TypeOK, OnBehalfOf
<1>3. PICK b \in Builds :
        attempt' = [attempt EXCEPT ![r] = [build |-> b, run |-> r, count |-> count[r] + 1]]
  OBVIOUS
<1>4. count[r] \in 0 .. MaxExecutions /\ count[r] + 1 \in 1 .. MaxExecutions
  BY <1>0, ProviderAssumption DEF TypeOK
<1>5. [build |-> b, run |-> r, count |-> count[r] + 1] \in Attempts
  BY <1>4 DEF Attempts
<1>6. /\ attempt'[r] = [build |-> b, run |-> r, count |-> count[r] + 1]
      /\ count'[r] = count[r] + 1 /\ pc'[r] = "lookup"
      /\ activated'[r] = now + 1 /\ now' = now + 1
  BY <1>0, <1>3 DEF TypeOK
<1>7. TypeOK'
  <2>1. attempt' \in [Runs -> Attempts \cup {None}]
    BY <1>0, <1>3, <1>5 DEF TypeOK
  <2>2. count' \in [Runs -> 0 .. MaxExecutions]
    BY <1>0, <1>4, ProviderAssumption DEF TypeOK
  <2>3. pc' \in [Runs -> PCs]
    BY <1>0 DEF TypeOK, PCs
  <2> QED
    BY <1>0, <2>1, <2>2, <2>3 DEF TypeOK
<1>8. Tables'
  <2>1. SlotSound'
    <3> SUFFICES ASSUME slot # None PROVE SlotSound'
      BY DEF SlotSound
    <3>1. slot \in Slots
      BY <1>0 DEF TypeOK
    <3>2. /\ slot.run \in Runs /\ slot.attempt.count \in Nat
          /\ slot.activated \in Nat
      BY <3>1 DEF Slots, Attempts
    <3>3. count[slot.run] \in Nat /\ count'[slot.run] >= count[slot.run]
          /\ count'[slot.run] \in Nat
      BY <1>0, <1>4, <3>2 DEF TypeOK
    <3>4. now \in Nat
      BY <1>0 DEF TypeOK
    <3> QED
      BY <1>0, <1>6, <3>2, <3>3, <3>4 DEF Tables, SlotSound
  <2> QED
    BY <1>0, <2>1 DEF Tables, OneCommit, ReadySound, ConsumedIsReady
<1>9. RunSound(r)'
  <2>1. slot # None /\ slot.run = r =>
          /\ slot.attempt.count \in Nat /\ slot.attempt.count <= count[r]
          /\ slot.activated \in Nat /\ slot.activated <= now
    BY <1>0 DEF TypeOK, Slots, Attempts, Tables, SlotSound
  <2>2. now \in Nat /\ count[r] \in Nat
    BY <1>0, <1>4 DEF TypeOK
  <2>3. AttemptSound(r)'
    <3>1. slot # None /\ slot.run = r => slot.activated <= now + 1
      BY <2>1, <2>2
    <3> QED
      BY <1>5, <1>6, <2>2, <3>1 DEF AttemptSound
  <2>4. ProposalSound(r)'
    <3>1. slot # None /\ slot.run = r => slot.attempt.count < count[r] + 1
      BY <2>1, <2>2
    <3> QED
      BY <1>6, <3>1 DEF ProposalSound
  <2> QED
    BY <1>6, <2>3, <2>4 DEF RunSound, ProgressSound
<1> QED
  BY <1>1, <1>2, <1>7, <1>8, <1>9, StepSound

\* What a retry proposes to reuse is an attempt of its own run, not consumed.
LEMMA LookUpSound == \A r \in Runs : IInv /\ LookUp(r) => IInv'
<1> SUFFICES ASSUME NEW r \in Runs, IInv, LookUp(r) PROVE IInv'
  OBVIOUS
<1> USE DEF LookUp, Goto
<1>0. TypeOK /\ Tables /\ RunSound(r)
  BY DEF IInv
<1>1. OnlyLocalsOf(r)
  BY <1>0 DEF TypeOK, OnlyLocalsOf
<1>2. OnBehalfOf(r)
  BY <1>0 DEF TypeOK, OnBehalfOf, stored
<1>3. pc'[r] = "claim" /\ attempt'[r] = IF Reusable(r) THEN slot.attempt ELSE attempt[r]
  BY <1>0 DEF TypeOK
<1>4. Reusable(r) => slot.attempt \in Attempts
  BY <1>0 DEF TypeOK, Reusable, Slots
<1>5. attempt'[r] \in Attempts
  BY <1>0, <1>3, <1>4 DEF RunSound, AttemptSound
<1>6. TypeOK'
  <2>1. attempt' \in [Runs -> Attempts \cup {None}]
    BY <1>0, <1>4, <1>5 DEF TypeOK
  <2>2. pc' \in [Runs -> PCs]
    BY <1>0 DEF TypeOK, PCs
  <2> QED
    BY <1>0, <2>1, <2>2 DEF TypeOK, stored
<1>7. Tables'
  BY <1>0, TablesStay DEF stored
<1>8. RunSound(r)'
  <2>1. /\ attempt'[r].run = r
        /\ attempt'[r].count <= count[r]
    BY <1>0, <1>3 DEF RunSound, AttemptSound, Tables, SlotSound, Reusable
  <2>2. AttemptSound(r)'
    BY <1>0, <1>3, <1>5, <2>1 DEF RunSound, AttemptSound, stored
  <2>3. ProposalSound(r)'
    <3>1. CASE Reusable(r)
      BY <1>3, <3>1 DEF Reusable, ProposalSound, stored
    <3>2. CASE ~Reusable(r)
      <4>1. attempt'[r] = attempt[r] /\ attempt[r].run = r
            /\ attempt[r].count = count[r] /\ count[r] \in Nat
        BY <1>0, <1>3, <3>2 DEF RunSound, AttemptSound, ProposalSound, TypeOK
      <4>2. slot # None => slot.attempt # attempt[r]
        <5> SUFFICES ASSUME slot # None, slot.attempt = attempt[r] PROVE FALSE
          OBVIOUS
        <5>1. slot.run = r
          BY <1>0, <4>1 DEF Tables, SlotSound
        <5> QED
          BY <1>0, <4>1, <5>1 DEF RunSound, ProposalSound
      <4> QED
        BY <1>3, <4>1, <4>2 DEF ProposalSound, stored
    <3> QED
      BY <3>1, <3>2
  <2> QED
    BY <1>3, <2>2, <2>3 DEF RunSound, ProgressSound
<1> QED
  BY <1>1, <1>2, <1>6, <1>7, <1>8, StepSound

\* The lease that an execution writes, and what it may be written over.
LEMMA LeaseSound ==
    ASSUME NEW r \in Runs, IInv, pc[r] = "claim"
    PROVE  /\ Lease(r) \in Slots /\ Lease(r) # None
           /\ Lease(r).run = r /\ Lease(r).attempt = attempt[r]
           /\ Lease(r).status = "ACTIVE" /\ Lease(r).activated = activated[r]
           /\ Lease(r).expires >= activated[r]
           /\ attempt[r] \in Attempts /\ attempt[r].run = r
           /\ attempt[r].count <= count[r]
           /\ activated[r] \in Nat /\ now \in Nat /\ activated[r] <= now
<1>1. /\ attempt[r] \in Attempts /\ attempt[r].run = r
      /\ attempt[r].count <= count[r] /\ activated[r] <= now
  BY DEF IInv, RunSound, AttemptSound
<1>2. activated[r] \in Nat /\ count[r] \in Nat /\ now \in Nat /\ LeaseLength \in Nat
  BY ProviderAssumption DEF IInv, TypeOK
<1>3. Lease(r) \in Slots
  BY <1>1, <1>2 DEF Lease, Slots, Statuses
<1>4. Lease(r) # None
  BY <1>3, ProviderAssumption
<1>5. Lease(r).expires >= activated[r]
  BY <1>2 DEF Lease
<1> QED
  BY <1>1, <1>2, <1>3, <1>4, <1>5 DEF Lease

\* The MERGE gives the slot to the proposal, or leaves it to its holder.
LEMMA ClaimSound == \A r \in Runs : IInv /\ Claim(r) => IInv'
<1> SUFFICES ASSUME NEW r \in Runs, IInv, Claim(r) PROVE IInv'
  OBVIOUS
<1>0. TypeOK /\ Tables /\ RunSound(r)
  BY DEF IInv
<1>1. pc[r] = "claim" /\ pc' = [pc EXCEPT ![r] = "verify"]
      /\ UNCHANGED <<now, faults, signals, ready, withdrawn, count, activated, attempt, version>>
  BY DEF Claim, Goto
<1>2. slot' = slot \/ slot' = Lease(r)
  BY DEF Claim
<1>3. OnlyLocalsOf(r)
  BY <1>0, <1>1 DEF TypeOK, OnlyLocalsOf
<1>4. OnBehalfOf(r)
  BY <1>0, <1>1, <1>2, LeaseSound DEF TypeOK, OnBehalfOf
<1>5. TypeOK'
  <2>1. pc' \in [Runs -> PCs]
    BY <1>0, <1>1 DEF TypeOK, PCs
  <2>2. slot' \in Slots \cup {None}
    BY <1>0, <1>1, <1>2, LeaseSound DEF TypeOK
  <2> QED
    BY <1>0, <1>1, <2>1, <2>2 DEF TypeOK
<1>6. Tables'
  <2>1. OneCommit' /\ ReadySound'
    BY <1>0, <1>1 DEF Tables, OneCommit, ReadySound
  <2>2. SlotSound'
    BY <1>0, <1>1, <1>2, LeaseSound DEF Tables, SlotSound
  <2>3. ConsumedIsReady'
    BY <1>0, <1>1, <1>2, LeaseSound DEF Tables, ConsumedIsReady
  <2> QED
    BY <2>1, <2>2, <2>3 DEF Tables
<1>7. RunSound(r)'
  <2>1. pc'[r] = "verify"
    BY <1>0, <1>1 DEF TypeOK
  <2>2. AttemptSound(r)'
    BY <1>0, <1>1, <1>2, LeaseSound DEF RunSound, AttemptSound
  <2> QED
    BY <2>1, <2>2 DEF RunSound, ProposalSound, ProgressSound
<1> QED
  BY <1>3, <1>4, <1>5, <1>6, <1>7, StepSound

\* A step that leaves the tables and sends the run to a step without a claim of
\* its own keeps the invariant.
LEMMA LocalSound ==
    ASSUME NEW r \in Runs, IInv, NEW label \in PCs, Goto(r, label),
           pc[r] # "idle",
           UNCHANGED <<stored, now, count, activated, attempt>>,
           faults' \in 0 .. MaxFaults, version' \in [Runs -> Nat],
           \A s \in Runs \ {r} : version'[s] = version[s],
           label \notin {"idle", "lookup", "claim"},
           ProgressSound(r)'
    PROVE  IInv'
<1>0. TypeOK /\ Tables /\ RunSound(r)
  BY DEF IInv
<1>1. OnlyLocalsOf(r) /\ OnBehalfOf(r)
  BY <1>0 DEF TypeOK, OnlyLocalsOf, OnBehalfOf, stored, Goto
<1>2. TypeOK'
  BY <1>0 DEF TypeOK, stored, Goto
<1>3. Tables'
  BY <1>0, TablesStay DEF stored
<1>4. AttemptSound(r)'
  BY <1>0 DEF RunSound, AttemptSound, stored
<1>5. ProposalSound(r)'
  BY <1>0 DEF ProposalSound, Goto, TypeOK
<1> QED
  BY <1>1, <1>2, <1>3, <1>4, <1>5, StepSound DEF RunSound

\* The runs that are withdrawn are runs.
LEMMA WithdrawsTyped ==
    ASSUME NEW r \in Runs, TypeOK, Withdraws(r)
    PROVE  withdrawn' \subseteq Runs
  BY DEF Withdraws, TypeOK

\* An execution that ends without a write to the slot, the signals or the READY
\* rows keeps the invariant.
LEMMA EndKeeps ==
    ASSUME NEW r \in Runs, IInv, End(r), UNCHANGED <<slot, signals, ready, now>>,
           faults' \in 0 .. MaxFaults, withdrawn' \subseteq Runs
    PROVE  IInv'
<1>0. TypeOK /\ Tables
  BY DEF IInv
<1>1. /\ OnlyLocalsOf(r)
      /\ pc' \in [Runs -> PCs] /\ count' \in [Runs -> 0 .. MaxExecutions]
      /\ activated' \in [Runs -> Nat]
      /\ attempt' \in [Runs -> Attempts \cup {None}] /\ version' \in [Runs -> Nat]
      /\ RunSound(r)'
      /\ count' = count
  BY <1>0, EndSound
<1>2. OnBehalfOf(r)
  BY <1>0 DEF TypeOK, OnBehalfOf
<1>3. TypeOK'
  BY <1>0, <1>1 DEF TypeOK
<1>4. Tables'
  BY <1>0, <1>1, TablesStay
<1> QED
  BY <1>1, <1>2, <1>3, <1>4, StepSound

\* An execution that reads back its own proposal works on the attempt of the slot.
LEMMA VerifySound == \A r \in Runs : IInv /\ Verify(r) => IInv'
<1> SUFFICES ASSUME NEW r \in Runs, IInv, Verify(r) PROVE IInv'
  OBVIOUS
<1>0. TypeOK /\ UNCHANGED <<now, faults, slot, signals, ready>> /\ pc[r] = "verify"
  BY DEF IInv, Verify
<1>1. CASE Goto(r, "find") /\ UNCHANGED <<withdrawn, count, activated, attempt, version>>
  <2>1. ProgressSound(r)'
    BY <1>0, <1>1 DEF TypeOK, Goto, ProgressSound
  <2> QED
    BY <1>0, <1>1, <2>1, LocalSound DEF TypeOK, PCs, stored
<1>2. CASE End(r) /\ Withdraws(r)
  BY <1>0, <1>2, EndKeeps, WithdrawsTyped DEF TypeOK
<1> QED
  BY <1>1, <1>2 DEF Verify

\* The read-back of a release changes the execution alone.
LEMMA ConfirmSound == \A r \in Runs : IInv /\ Confirm(r) => IInv'
<1> SUFFICES ASSUME NEW r \in Runs, IInv, Confirm(r) PROVE IInv'
  OBVIOUS
<1>0. TypeOK /\ RunSound(r) /\ UNCHANGED <<now, faults, stored>> /\ pc[r] = "confirm"
  BY DEF IInv, Confirm
<1>1. CASE Goto(r, "done") /\ UNCHANGED <<count, activated, attempt, version>>
  <2>1. ProgressSound(r)'
    BY <1>0, <1>1 DEF TypeOK, Goto, RunSound, ProgressSound, stored
  <2> QED
    BY <1>0, <1>1, <2>1, LocalSound DEF TypeOK, PCs
<1>2. CASE End(r)
  BY <1>0, <1>2, EndKeeps DEF TypeOK, stored
<1> QED
  BY <1>1, <1>2 DEF Confirm

\* A driver that dies leaves the tables as they are.
LEMMA CrashSound == \A r \in Runs : IInv /\ Crash(r) => IInv'
<1> SUFFICES ASSUME NEW r \in Runs, IInv, Crash(r) PROVE IInv'
  OBVIOUS
<1>1. /\ End(r) /\ UNCHANGED <<slot, signals, ready, now>> /\ faults' \in 0 .. MaxFaults
      /\ withdrawn' \subseteq Runs
  BY ProviderAssumption DEF Crash, IInv, TypeOK, stored
<1> QED
  BY <1>1, EndKeeps

\* Looking for a receipt decides between publishing it and going on.
LEMMA FoundSound ==
    ASSUME NEW r \in Runs, IInv, NEW otherwise \in {"compute", "commit"},
           Found(r, otherwise), pc[r] # "idle",
           UNCHANGED <<now, faults, stored, count, activated, attempt>>
    PROVE  IInv'
<1>0. TypeOK
  BY DEF IInv
<1>1. CASE Commits(attempt[r]) = {} /\ Goto(r, otherwise) /\ UNCHANGED version
  <2>1. \A v \in DOMAIN signals : signals[v] # attempt[r]
    BY <1>1 DEF Commits
  <2>2. ProgressSound(r)'
    BY <1>0, <1>1, <2>1 DEF TypeOK, Goto, ProgressSound, stored
  <2> QED
    BY <1>0, <1>1, <2>2, LocalSound DEF TypeOK, PCs
<1>2. CASE \E v \in DOMAIN signals :
              /\ Commits(attempt[r]) = {v}
              /\ version' = [version EXCEPT ![r] = v]
              /\ Goto(r, "publish")
  <2>1. PICK v \in DOMAIN signals :
              /\ Commits(attempt[r]) = {v}
              /\ version' = [version EXCEPT ![r] = v]
              /\ Goto(r, "publish")
    BY <1>2
  <2>2. signals[v] = attempt[r]
    BY <2>1 DEF Commits
  <2>3. v \in Nat
    BY <1>0 DEF TypeOK
  <2>4. version' \in [Runs -> Nat] /\ version'[r] = v /\ pc'[r] = "publish"
        /\ \A s \in Runs \ {r} : version'[s] = version[s]
    BY <1>0, <2>1, <2>3 DEF TypeOK, Goto
  <2>5. ProgressSound(r)'
    BY <2>2, <2>4 DEF ProgressSound, stored
  <2> QED
    BY <1>0, <2>1, <2>4, <2>5, LocalSound DEF TypeOK, PCs
<1> QED
  BY <1>1, <1>2 DEF Found

\* The receipt lookups find the commit of the attempt, or there is none.
LEMMA FindSound == \A r \in Runs : IInv /\ (Find(r) \/ Compute(r)) => IInv'
BY FoundSound DEF Find, Compute

\* The signals commit is the first of its attempt.
LEMMA CommitSound == \A r \in Runs : IInv /\ Commit(r) => IInv'
<1> SUFFICES ASSUME NEW r \in Runs, IInv, Commit(r) PROVE IInv'
  OBVIOUS
<1> USE DEF Commit, Goto
<1>0. TypeOK /\ Tables /\ RunSound(r)
  BY DEF IInv
<1>1. attempt[r] \in Attempts /\ attempt[r].run = r
  BY <1>0 DEF RunSound, AttemptSound
<1>2. /\ DOMAIN signals' = 1 .. Len(signals) + 1
      /\ DOMAIN signals = 1 .. Len(signals) /\ Len(signals) \in Nat
      /\ \A v \in DOMAIN signals : signals'[v] = signals[v]
      /\ signals'[Len(signals) + 1] = attempt[r]
      /\ signals' \in Seq(Attempts)
  BY <1>0, <1>1, AppendProperties DEF TypeOK
<1>3. \A v \in DOMAIN signals' : v \in DOMAIN signals \/ v = Len(signals) + 1
  BY <1>2
<1>4. DOMAIN signals \subseteq DOMAIN signals' /\ Len(signals) + 1 \in DOMAIN signals'
  BY <1>2
<1>5. \A v \in DOMAIN signals : signals[v] # attempt[r]
  BY <1>0 DEF RunSound, ProgressSound
<1>6. OnlyLocalsOf(r)
  BY <1>0 DEF TypeOK, OnlyLocalsOf
<1>7. OnBehalfOf(r)
  BY <1>0, <1>1 DEF TypeOK, OnBehalfOf
<1>8. TypeOK'
  BY <1>0, <1>2 DEF TypeOK, PCs
<1>9. Tables'
  <2>1. OneCommit'
    BY <1>0, <1>2, <1>3, <1>5 DEF Tables, OneCommit
  <2>2. ReadySound'
    BY <1>0, <1>2, <1>4 DEF Tables, ReadySound
  <2> QED
    BY <1>0, <2>1, <2>2 DEF Tables, SlotSound, ConsumedIsReady
<1>10. RunSound(r)'
  <2>1. pc'[r] = "publish" /\ version'[r] = Len(signals) + 1
    BY <1>0, <1>2 DEF TypeOK
  <2>2. AttemptSound(r)'
    BY <1>0 DEF RunSound, AttemptSound
  <2> QED
    BY <1>2, <1>4, <2>1, <2>2 DEF RunSound, ProposalSound, ProgressSound
<1> QED
  BY <1>6, <1>7, <1>8, <1>9, <1>10, StepSound

\* The READY row that is written names the attempt's commit, as does the row of
\* the attempt that it replaces: they are the same row.
LEMMA PublishAdds ==
    ASSUME NEW r \in Runs, IInv, Publish(r)
    PROVE  /\ version[r] \in DOMAIN signals /\ signals[version[r]] = attempt[r]
           /\ attempt[r] \in Attempts /\ version[r] \in Nat
           /\ ready' = ready \cup {[attempt |-> attempt[r], version |-> version[r]]}
<1>0. TypeOK /\ OneCommit /\ ReadySound /\ RunSound(r) /\ pc[r] = "publish"
  BY DEF IInv, Tables, Publish
<1>1. version[r] \in DOMAIN signals /\ signals[version[r]] = attempt[r]
  BY <1>0 DEF RunSound, ProgressSound
<1>2. attempt[r] \in Attempts /\ version[r] \in Nat
  BY <1>0 DEF RunSound, AttemptSound, TypeOK
<1>3. ASSUME NEW row \in ready, row.attempt = attempt[r]
      PROVE  row = [attempt |-> attempt[r], version |-> version[r]]
  <2>1. row.version = version[r]
    BY <1>0, <1>1, <1>3 DEF ReadySound, OneCommit
  <2>2. row \in [attempt : Attempts, version : Nat]
    BY <1>0 DEF TypeOK
  <2> QED
    BY <1>3, <2>1, <2>2
<1>4. ready' = {row \in ready : row.attempt # attempt[r]}
               \cup {[attempt |-> attempt[r], version |-> version[r]]}
  BY DEF Publish
<1> QED
  BY <1>1, <1>2, <1>3, <1>4

\* The READY row names the commit of its attempt.
LEMMA PublishSound == \A r \in Runs : IInv /\ Publish(r) => IInv'
<1> SUFFICES ASSUME NEW r \in Runs, IInv, Publish(r) PROVE IInv'
  OBVIOUS
<1> DEFINE new == [attempt |-> attempt[r], version |-> version[r]]
<1>0. TypeOK /\ Tables /\ RunSound(r)
  BY DEF IInv
<1>1. /\ version[r] \in DOMAIN signals /\ signals[version[r]] = attempt[r]
      /\ attempt[r] \in Attempts /\ version[r] \in Nat
      /\ ready' = ready \cup {new}
  BY PublishAdds
<1>2. /\ pc[r] = "publish" /\ pc' = [pc EXCEPT ![r] = "consume"]
      /\ UNCHANGED <<now, faults, slot, signals, withdrawn, count, activated, attempt, version>>
  BY DEF Publish, Goto
<1>3. new.attempt = attempt[r] /\ new.version = version[r]
      /\ new \in [attempt : Attempts, version : Nat]
  BY <1>1
<1> HIDE DEF new
<1>4. OnlyLocalsOf(r)
  BY <1>0, <1>2 DEF TypeOK, OnlyLocalsOf
<1>5. OnBehalfOf(r)
  BY <1>0, <1>1, <1>2 DEF TypeOK, OnBehalfOf
<1>6. TypeOK'
  BY <1>0, <1>1, <1>2, <1>3 DEF TypeOK, PCs
<1>7. Tables'
  <2>1. ReadySound'
    BY <1>0, <1>1, <1>2, <1>3 DEF Tables, ReadySound
  <2>2. ConsumedIsReady'
    BY <1>0, <1>1, <1>2 DEF Tables, ConsumedIsReady
  <2> QED
    BY <1>0, <1>2, <2>1, <2>2 DEF Tables, OneCommit, SlotSound
<1>8. RunSound(r)'
  <2>1. pc'[r] = "consume"
    BY <1>0, <1>2 DEF TypeOK
  <2>2. AttemptSound(r)'
    BY <1>0, <1>2 DEF RunSound, AttemptSound
  <2>3. ProgressSound(r)'
    BY <1>1, <1>2, <1>3, <2>1 DEF ProgressSound
  <2> QED
    BY <2>1, <2>2, <2>3 DEF RunSound, ProposalSound
<1> QED
  BY <1>4, <1>5, <1>6, <1>7, <1>8, StepSound

\* A context is consumed after its READY row.
LEMMA ConsumeSound == \A r \in Runs : IInv /\ Consume(r) => IInv'
<1> SUFFICES ASSUME NEW r \in Runs, IInv, Consume(r) PROVE IInv'
  OBVIOUS
<1>0. TypeOK /\ Tables /\ RunSound(r)
  BY DEF IInv
<1>1. /\ pc[r] = "consume" /\ pc' = [pc EXCEPT ![r] = "confirm"]
      /\ Release(r, "CONSUMED")
      /\ UNCHANGED <<now, faults, signals, ready, withdrawn, count, activated, attempt, version>>
  BY DEF Consume, Goto
<1>2. \E row \in ready : row.attempt = attempt[r]
  BY <1>0, <1>1 DEF RunSound, ProgressSound
<1>3. /\ Tables' /\ slot' \in Slots \cup {None}
      /\ slot' = slot \/ (slot' # None /\ slot'.run = r /\ slot'.attempt.run = r)
  BY <1>1, <1>2, ReleaseTables DEF Statuses
<1>4. OnlyLocalsOf(r)
  BY <1>0, <1>1 DEF TypeOK, OnlyLocalsOf
<1>5. OnBehalfOf(r)
  BY <1>0, <1>1, <1>3 DEF TypeOK, OnBehalfOf
<1>6. TypeOK'
  BY <1>0, <1>1, <1>3 DEF TypeOK, PCs
<1>7. RunSound(r)'
  <2>1. pc'[r] = "confirm"
    BY <1>0, <1>1 DEF TypeOK
  <2>2. slot' = slot \/ (slot # None /\ slot.run = r /\ slot'.activated = slot.activated)
    BY <1>1, ReleaseSound DEF Statuses, Owns
  <2>3. AttemptSound(r)'
    BY <1>0, <1>1, <2>2 DEF RunSound, AttemptSound
  <2> QED
    BY <1>1, <1>2, <2>1, <2>3 DEF RunSound, ProposalSound, ProgressSound
<1> QED
  BY <1>3, <1>4, <1>5, <1>6, <1>7, StepSound

\* The driver's handler releases a context that is not consumed.
LEMMA FailSound == \A r \in Runs : IInv /\ Fail(r) => IInv'
<1> SUFFICES ASSUME NEW r \in Runs, IInv, Fail(r) PROVE IInv'
  OBVIOUS
<1>0. TypeOK
  BY DEF IInv
<1>1. /\ slot' = slot \/ Release(r, "FAILED")
      /\ End(r) /\ UNCHANGED <<now, signals, ready>> /\ faults' \in 0 .. MaxFaults
  BY <1>0, ProviderAssumption DEF Fail, TypeOK
<1>2. withdrawn' \subseteq Runs
  BY <1>0, WithdrawsTyped DEF Fail
<1>3. CASE slot' = slot
  BY <1>1, <1>2, <1>3, EndKeeps
<1>4. CASE Release(r, "FAILED")
  <2>1. /\ OnlyLocalsOf(r)
        /\ pc' \in [Runs -> PCs] /\ count' \in [Runs -> 0 .. MaxExecutions]
        /\ activated' \in [Runs -> Nat]
        /\ attempt' \in [Runs -> Attempts \cup {None}] /\ version' \in [Runs -> Nat]
        /\ RunSound(r)'
        /\ count' = count
    BY <1>0, <1>1, EndSound
  <2>2. /\ Tables' /\ slot' \in Slots \cup {None}
        /\ slot' = slot \/ (slot' # None /\ slot'.run = r /\ slot'.attempt.run = r)
    BY <1>1, <1>4, <2>1, ReleaseTables DEF Statuses
  <2>3. OnBehalfOf(r)
    BY <1>0, <1>1, <2>2 DEF TypeOK, OnBehalfOf
  <2>4. TypeOK'
    BY <1>0, <1>1, <1>2, <2>1, <2>2 DEF TypeOK
  <2> QED
    BY <2>1, <2>2, <2>3, <2>4, StepSound
<1> QED
  BY <1>1, <1>3, <1>4

\* A refused execution is counted and does nothing; a repair lets the next in.
LEMMA RefuseSound == \A r \in Runs : IInv /\ (Refuse(r) \/ Repair(r)) => IInv'
<1> SUFFICES ASSUME NEW r \in Runs, IInv, Refuse(r) \/ Repair(r) PROVE IInv'
  OBVIOUS
<1>0. TypeOK /\ Tables
  BY DEF IInv
<1>1. /\ UNCHANGED <<now, slot, signals, ready, faults, pc, activated, attempt, version>>
      /\ pc[r] = "idle" /\ withdrawn' \subseteq Runs
      /\ count' = count \/ (count[r] < MaxExecutions /\ count' = [count EXCEPT ![r] = @ + 1])
  BY <1>0 DEF Refuse, Repair, Starts, stored, locals, TypeOK
<1>2. /\ count' \in [Runs -> 0 .. MaxExecutions]
      /\ \A s \in Runs : count[s] \in Nat /\ count'[s] \in Nat /\ count'[s] >= count[s]
      /\ \A s \in Runs \ {r} : count'[s] = count[s]
  <2>1. count \in [Runs -> 0 .. MaxExecutions] /\ MaxExecutions \in Nat
    BY <1>0, ProviderAssumption DEF TypeOK
  <2>2. CASE count' = count
    BY <2>1, <2>2
  <2>3. CASE count[r] < MaxExecutions /\ count' = [count EXCEPT ![r] = @ + 1]
    <3>1. count[r] \in Nat /\ count[r] + 1 \in 0 .. MaxExecutions
      BY <2>1, <2>3
    <3>. QED  BY <2>1, <2>3, <3>1
  <2>. QED  BY <1>1, <2>2, <2>3
<1>3. TypeOK'
  BY <1>0, <1>1, <1>2 DEF TypeOK
<1>4. Tables'
  <2>1. slot # None => slot.run \in Runs /\ slot.attempt.count \in Nat
    BY <1>0 DEF TypeOK, Slots, Attempts
  <2> QED
    BY <1>0, <1>1, <1>2, <2>1 DEF Tables, OneCommit, ReadySound, SlotSound, ConsumedIsReady
<1>5. RunSound(r)'
  BY <1>1 DEF RunSound, AttemptSound, ProposalSound, ProgressSound
<1>6. OnlyLocalsOf(r) /\ OnBehalfOf(r)
  BY <1>0, <1>1, <1>2 DEF OnlyLocalsOf, OnBehalfOf, TypeOK
<1> QED
  BY <1>3, <1>4, <1>5, <1>6, StepSound

\* Stuttering keeps the invariant.
LEMMA StutterSound == IInv /\ UNCHANGED vars => IInv'
<1> SUFFICES ASSUME IInv, UNCHANGED vars PROVE IInv'
  OBVIOUS
<1> USE DEF vars, stored, locals
<1>1. TypeOK'
  BY DEF IInv, TypeOK
<1>2. Tables'
  BY TablesStay DEF IInv
<1>3. \A r \in Runs : RunSound(r)'
  BY DEF IInv, RunSound, AttemptSound, ProposalSound, ProgressSound
<1> QED
  BY <1>1, <1>2, <1>3 DEF IInv

\* Every step, and stuttering, keeps the invariant.
LEMMA NextSound == IInv /\ [Next]_vars => IInv'
<1> SUFFICES ASSUME IInv, [Next]_vars PROVE IInv'
  OBVIOUS
<1>1. CASE UNCHANGED vars
  BY <1>1, StutterSound
<1>2. CASE Tick
  BY <1>2, TickSound
<1>3. ASSUME NEW r \in Runs, Step(r) PROVE IInv'
  BY <1>3, BeginSound, RefuseSound, LookUpSound, ClaimSound, VerifySound, FindSound, CommitSound,
     PublishSound, ConsumeSound, ConfirmSound DEF Step
<1>4. ASSUME NEW r \in Runs, Fail(r) \/ Crash(r) \/ Repair(r) PROVE IInv'
  BY <1>4, FailSound, CrashSound, RefuseSound
<1> QED
  BY <1>1, <1>2, <1>3, <1>4 DEF Next

\* The inductive invariant of a provider build.
LEMMA Invariance == Spec => []IInv
<1> QED
  BY InitSound, NextSound, PTL DEF Spec

-----------------------------------------------------------------------------
(* The theorems.                                                           *)

\* The tables' rows and the executions' state keep their types.
THEOREM TypeCorrect == Spec => []TypeOK
<1>1. IInv => TypeOK
  BY DEF IInv
<1> QED
  BY <1>1, Invariance, PTL

\* A context is consumed only when its attempt can be ranked with.
THEOREM ConsumedReady == Spec => []ConsumedIsReady
<1>1. IInv => ConsumedIsReady
  BY DEF IInv, Tables
<1> QED
  BY <1>1, Invariance, PTL

\* What SlotMovesForward says of a step.
MovesSlot ==
    slot # None /\ slot' # slot =>
        /\ slot'.activated >= slot.activated
        /\ slot.status = "CONSUMED" => slot'.attempt # slot.attempt
        /\ slot.status = "ACTIVE" /\ slot.expires > now /\ slot'.run # slot.run
              => TakesOver

\* The MERGE moves the slot to a later execution, or within the rules of a takeover.
LEMMA ClaimMoves == \A r \in Runs : IInv /\ Claim(r) => MovesSlot
<1> SUFFICES ASSUME NEW r \in Runs, IInv, Claim(r), slot # None, slot' # slot
             PROVE  /\ slot'.activated >= slot.activated
                    /\ slot.status = "CONSUMED" => slot'.attempt # slot.attempt
                    /\ slot.status = "ACTIVE" /\ slot.expires > now /\ slot'.run # slot.run
                          => TakesOver
  BY DEF MovesSlot
<1>0. Tables /\ RunSound(r) /\ pc[r] = "claim"
  BY DEF IInv, Claim
<1>1. Available(r) /\ slot' = Lease(r)
  BY DEF Claim
<1>2. /\ slot'.run = r /\ slot'.attempt = attempt[r]
      /\ slot'.activated = activated[r] /\ attempt[r].run = r
      /\ activated[r] \in Nat /\ now \in Nat /\ activated[r] <= now
  BY <1>0, <1>1, LeaseSound
<1>3. slot.activated \in Nat /\ slot.expires \in Nat
  BY DEF IInv, TypeOK, Slots
<1>4. slot.activated <= slot.expires /\ slot.attempt.run = slot.run
  BY <1>0 DEF Tables, SlotSound
<1>5. slot.run = r => slot.activated <= activated[r]
  BY <1>0 DEF RunSound, AttemptSound
<1>6. slot'.activated >= slot.activated
  BY <1>1, <1>2, <1>3, <1>4, <1>5 DEF Available, SerialTakeover
<1>7. slot.status = "CONSUMED" => slot'.attempt # slot.attempt
  BY <1>0, <1>2 DEF RunSound, ProposalSound
<1>8. slot.status = "ACTIVE" /\ slot.expires > now /\ slot'.run # slot.run => TakesOver
  <2>1. slot.expires > now => ~(slot.expires <= activated[r])
    BY <1>2, <1>3
  <2> QED
    BY <1>1, <1>2, <1>4, <2>1 DEF Available, SerialTakeover
<1> QED
  BY <1>6, <1>7, <1>8

\* A release changes the status of the slot alone.
LEMMA ReleaseMoves ==
    ASSUME NEW r \in Runs, IInv, NEW status \in Statuses, Release(r, status)
    PROVE  MovesSlot
<1>1. \/ slot' = slot
      \/ /\ slot.status = "ACTIVE" /\ slot'.run = slot.run
         /\ slot'.attempt = slot.attempt /\ slot'.activated = slot.activated
  BY ReleaseSound
<1>2. slot # None => slot.activated \in Nat
  BY DEF IInv, TypeOK, Slots
<1> QED
  BY <1>1, <1>2 DEF MovesSlot

\* Every step moves the slot forward.
LEMMA NextMoves == IInv /\ [Next]_vars => MovesSlot
<1> SUFFICES ASSUME IInv, [Next]_vars PROVE MovesSlot
  OBVIOUS
<1>1. CASE slot' = slot
  BY <1>1 DEF MovesSlot
<1>2. ASSUME NEW r \in Runs, Claim(r) PROVE MovesSlot
  BY <1>2, ClaimMoves
<1>3. ASSUME NEW r \in Runs, Consume(r) \/ Fail(r) PROVE MovesSlot
  <2>1. Release(r, "CONSUMED") \/ Release(r, "FAILED") \/ slot' = slot
    BY <1>3 DEF Consume, Fail
  <2> QED
    BY <1>1, <2>1, ReleaseMoves DEF Statuses
<1>4. ASSUME NEW r \in Runs, Step(r) \/ Fail(r) \/ Crash(r) \/ Repair(r)
      PROVE  slot' = slot \/ Claim(r) \/ Consume(r) \/ Fail(r)
  BY <1>4 DEF Step, Begin, Refuse, LookUp, Verify, Find, Compute, Commit, Publish, Confirm,
     Crash, Repair, stored
<1>5. CASE Tick
  BY <1>1, <1>5 DEF Tick, stored
<1>6. CASE UNCHANGED vars
  BY <1>1, <1>6 DEF vars, stored
<1> QED
  BY <1>1, <1>2, <1>3, <1>4, <1>5, <1>6 DEF Next

\* The slot goes to ever later executions, leaves a consumed attempt for good,
\* and passes to another run during a lease by serial takeover alone.
THEOREM MovesForward == Spec => SlotMovesForward
<1>1. IInv /\ [Next]_vars => [MovesSlot]_vars
  BY NextMoves
<1>2. [MovesSlot]_vars <=> [slot # None /\ slot' # slot =>
          /\ slot'.activated >= slot.activated
          /\ slot.status = "CONSUMED" => slot'.attempt # slot.attempt
          /\ slot.status = "ACTIVE" /\ slot.expires > now /\ slot'.run # slot.run
                => TakesOver]_vars
  BY DEF MovesSlot
<1> QED
  BY <1>1, <1>2, Invariance, PTL DEF Spec, SlotMovesForward

-----------------------------------------------------------------------------
(* The build implements OncePublished.                                     *)

\* A commit is the first of its attempt; publishing adds the row of a commit;
\* nothing else touches the signals table and the READY rows.
LEMMA NextImplements == IInv /\ [Next]_vars => [O!OnceNext]_<<signals, ready>>
<1> SUFFICES ASSUME IInv, [Next]_vars PROVE [O!OnceNext]_<<signals, ready>>
  OBVIOUS
<1>1. CASE UNCHANGED <<signals, ready>>
  BY <1>1
<1>2. ASSUME NEW r \in Runs, Commit(r) PROVE O!OnceNext
  <2>1. attempt[r] \in Attempts /\ \A v \in DOMAIN signals : signals[v] # attempt[r]
    BY <1>2 DEF IInv, RunSound, AttemptSound, ProgressSound, Commit
  <2>2. signals' = Append(signals, attempt[r]) /\ ready' = ready
    BY <1>2 DEF Commit
  <2>3. O!Commit(attempt[r])
    BY <2>1, <2>2 DEF O!Commit, O!Committed
  <2> QED
    BY <2>1, <2>3 DEF O!OnceNext
<1>3. ASSUME NEW r \in Runs, Publish(r) PROVE O!OnceNext
  <2>1. /\ version[r] \in DOMAIN signals /\ signals[version[r]] = attempt[r]
        /\ ready' = ready \cup {[attempt |-> attempt[r], version |-> version[r]]}
    BY <1>3, PublishAdds
  <2>2. signals' = signals
    BY <1>3 DEF Publish
  <2>3. O!Publish(version[r])
    BY <2>1, <2>2 DEF O!Publish
  <2> QED
    BY <2>1, <2>3 DEF O!OnceNext
<1>4. ASSUME NEW r \in Runs, Step(r) \/ Fail(r) \/ Crash(r) \/ Repair(r)
      PROVE  UNCHANGED <<signals, ready>> \/ Commit(r) \/ Publish(r)
  BY <1>4 DEF Step, Begin, Refuse, LookUp, Claim, Verify, Find, Compute, Consume, Confirm,
     Fail, Crash, Repair, stored
<1>5. CASE Tick
  BY <1>1, <1>5 DEF Tick, stored
<1>6. CASE UNCHANGED vars
  BY <1>1, <1>6 DEF vars, stored
<1> QED
  BY <1>1, <1>2, <1>3, <1>4, <1>5, <1>6 DEF Next

\* The signals table and its READY rows behave as OncePublished whatever dies
\* and whoever takes the slot.
THEOREM Implementation == Spec => PublishesOnce
<1>1. Init => O!OnceInit
  BY DEF Init, O!OnceInit
<1> QED
  BY <1>1, NextImplements, Invariance, PTL DEF Spec, PublishesOnce, O!Once

-----------------------------------------------------------------------------
(* Runs that follow one another reuse what they have committed.            *)
(*                                                                         *)
(* FinishedWorkIsReused alone is not inductive.  A commit without a READY  *)
(* row is found again because the slot still holds its attempt, for the    *)
(* run that may still be executed: nobody else is at work, the lookup sees *)
(* a lower execution count, and with one build there is no other proposal. *)

\* A run that executes no more.
Retired(r) == pc[r] = "done" \/ (pc[r] = "idle" /\ count[r] = MaxExecutions)

\* A commit of the run that no READY row publishes.
Pending(r, v) ==
    /\ v \in DOMAIN signals /\ signals[v].run = r
    /\ \A row \in ready : row.attempt # signals[v]

\* Of two runs, one at most is at work.
Alone == \A r, s \in Runs : r # s => Inactive(r) \/ Inactive(s)

\* Commits and leases are of executions that have begun.
Counted ==
    /\ \A v \in DOMAIN signals : signals[v].count <= count[signals[v].run]
    /\ slot # None => slot.count <= count[slot.run]

\* The lease of an earlier execution looks earlier; past verify it is held.
Works(r) ==
    /\ pc[r] = "lookup" /\ slot # None /\ slot.run = r => slot.count < count[r]
    /\ pc[r] \in {"find", "compute", "commit", "publish"} =>
          /\ slot # None /\ slot.run = r
          /\ slot.attempt = attempt[r] /\ slot.status = "ACTIVE"

\* The slot keeps what is pending for the next execution, which adopts it.
Resumes(r) ==
    \A v \in DOMAIN signals : Pending(r, v) /\ ~Retired(r) =>
        /\ slot # None /\ slot.run = r /\ slot.attempt = signals[v]
        /\ slot.status \in {"ACTIVE", "FAILED"}
        /\ pc[r] \notin {"idle", "lookup"} => attempt[r] = signals[v]

Reused ==
    \A v, w \in DOMAIN signals :
        v < w /\ signals[v].run = signals[w].run =>
            \E row \in ready : row.attempt = signals[v]

SInv == Alone /\ Counted /\ (\A r \in Runs : Works(r) /\ Resumes(r)) /\ Reused

\* While one run is at work, nothing is pending for another that may go on.
LEMMA OthersRest ==
    ASSUME IInv, IInv', SInv, NEW r \in Runs, OnlyLocalsOf(r),
           signals' = signals
             \/ (signals' = Append(signals, attempt[r]) /\ attempt[r] \in Attempts
                                                       /\ attempt[r].run = r),
           NEW s \in Runs, s # r, Inactive(s)
    PROVE  Inactive(s)' /\ Works(s)' /\ Resumes(s)'
<1>1. pc'[s] = pc[s] /\ count'[s] = count[s]
  BY DEF OnlyLocalsOf
<1>2. pc[s] \in {"idle", "done"}
  BY DEF Inactive
<1>3. Works(s)'
  BY <1>1, <1>2 DEF Works
<1>4. Inactive(s)'
  BY <1>1 DEF Inactive
<1>5. ASSUME NEW v \in DOMAIN signals', Pending(s, v)', ~Retired(s)' PROVE FALSE
  <2>1. count[s] = 0
    BY <1>1, <1>2, <1>5 DEF Inactive, Retired
  <2>2. v \in DOMAIN signals /\ signals'[v] = signals[v]
    <3>1. CASE signals' = signals
      BY <3>1
    <3>2. CASE signals' = Append(signals, attempt[r]) /\ attempt[r] \in Attempts
               /\ attempt[r].run = r
      <4>0. signals \in Seq(Attempts)
        BY DEF IInv, TypeOK
      <4>1. /\ DOMAIN signals' = 1 .. Len(signals) + 1
            /\ DOMAIN signals = 1 .. Len(signals) /\ Len(signals) \in Nat
            /\ \A w \in DOMAIN signals : signals'[w] = signals[w]
            /\ signals'[Len(signals) + 1] = attempt[r]
        BY <3>2, <4>0, AppendProperties
      <4>2. v # Len(signals) + 1
        BY <1>5, <3>2, <4>1 DEF Pending
      <4> QED
        BY <4>1, <4>2
    <3> QED
      BY <3>1, <3>2
  <2>3. signals[v] \in Attempts /\ signals[v].run = s
    BY <1>5, <2>2 DEF Pending, IInv, TypeOK
  <2>4. signals[v].count <= count[s]
    BY <2>2, <2>3 DEF SInv, Counted
  <2>5. signals[v].count \in 1 .. MaxExecutions
    BY <2>3 DEF Attempts
  <2> QED
    BY <2>1, <2>4, <2>5
<1>6. Resumes(s)'
  BY <1>5 DEF Resumes
<1> QED
  BY <1>3, <1>4, <1>6

\* A step that commits nothing takes nothing back that was reused.
LEMMA NoCommit ==
    ASSUME IInv, SInv, NEW r \in Runs, OnBehalfOf(r), signals' = signals
    PROVE  Reused' /\ \A s \in Runs, v \in DOMAIN signals : Pending(s, v)' => Pending(s, v)
<1>1. \A row \in ready : \E kept \in ready' : kept.attempt = row.attempt
  BY DEF OnBehalfOf
<1>2. Reused'
  BY <1>1 DEF SInv, Reused
<1>3. \A s \in Runs, v \in DOMAIN signals : Pending(s, v)' => Pending(s, v)
  BY <1>1 DEF Pending
<1> QED
  BY <1>2, <1>3

\* What makes a step that commits nothing keep the invariant.
LEMMA SerialStep ==
    ASSUME IInv, IInv', SInv, NEW r \in Runs, OnlyLocalsOf(r), OnBehalfOf(r),
           \A s \in Runs \ {r} : Inactive(s),
           signals' = signals, count'[r] >= count[r],
           slot' # None => slot' = slot \/ slot'.count <= count'[slot'.run],
           Works(r)', Resumes(r)'
    PROVE  SInv'
<1>1. \A s \in Runs \ {r} : Inactive(s)' /\ Works(s)' /\ Resumes(s)'
  BY OthersRest
<1>2. Alone'
  BY <1>1 DEF Alone
<1>3. \A s \in Runs : count[s] \in Nat /\ count'[s] \in Nat /\ count'[s] >= count[s]
  <2>1. \A s \in Runs : count[s] \in Nat /\ count'[s] \in Nat
    BY DEF IInv, TypeOK
  <2>2. \A s \in Runs \ {r} : count'[s] = count[s]
    BY DEF OnlyLocalsOf
  <2> QED
    BY <2>1, <2>2
<1>4. Counted'
  <2>1. ASSUME NEW v \in DOMAIN signals PROVE signals[v].count <= count'[signals[v].run]
    <3>1. signals[v] \in Attempts
      BY DEF IInv, TypeOK
    <3>2. signals[v].run \in Runs /\ signals[v].count \in Nat
      BY <3>1 DEF Attempts
    <3>3. signals[v].count <= count[signals[v].run]
      BY DEF SInv, Counted
    <3> QED
      BY <1>3, <3>2, <3>3
  <2>2. ASSUME slot' # None PROVE slot'.count <= count'[slot'.run]
    <3>1. CASE slot' = slot
      <4>1. slot \in Slots
        BY <2>2, <3>1 DEF IInv, TypeOK
      <4>2. slot.run \in Runs /\ slot.count \in Nat
        BY <4>1 DEF Slots
      <4>3. slot.count <= count[slot.run]
        BY <2>2, <3>1 DEF SInv, Counted
      <4> QED
        BY <1>3, <3>1, <4>2, <4>3
    <3> QED
      BY <2>2, <3>1
  <2> QED
    BY <2>1, <2>2 DEF Counted
<1>5. Reused'
  BY NoCommit
<1> QED
  BY <1>1, <1>2, <1>4, <1>5 DEF SInv

\* An execution begins while nobody else is at work.
LEMMA BeginSerial ==
    ASSUME OneAtATime, NEW r \in Runs, IInv, IInv', SInv, Begin(r)
    PROVE  SInv'
<1>0. TypeOK
  BY DEF IInv
<1>1. OnlyLocalsOf(r) /\ OnBehalfOf(r)
  BY <1>0 DEF Begin, Starts, Goto, stored, TypeOK, OnlyLocalsOf, OnBehalfOf
<1>2. \A s \in Runs \ {r} : Inactive(s)
  BY DEF Begin, Starts, OneAtATime
<1>3. /\ signals' = signals /\ slot' = slot /\ ready' = ready
      /\ pc[r] = "idle" /\ pc'[r] = "lookup"
      /\ count[r] < MaxExecutions /\ count'[r] = count[r] + 1 /\ count[r] \in Nat
  BY <1>0 DEF Begin, Starts, Goto, stored, TypeOK
<1>4. Works(r)'
  <2>1. slot # None /\ slot.run = r => slot.count \in Nat /\ slot.count <= count[r]
    BY <1>0 DEF TypeOK, Slots, SInv, Counted
  <2> QED
    BY <1>3, <2>1 DEF Works
<1>5. Resumes(r)'
  <2>1. ~Retired(r)
    BY <1>3 DEF Retired
  <2>2. Resumes(r)
    BY DEF SInv
  <2> QED
    BY <1>3, <2>1, <2>2 DEF Resumes, Pending
<1> QED
  BY <1>1, <1>2, <1>3, <1>4, <1>5, SerialStep

\* A run at work is the only one.
LEMMA AloneAtWork ==
    ASSUME SInv, NEW r \in Runs, pc[r] \notin {"idle", "done"}
    PROVE  \A s \in Runs \ {r} : Inactive(s)
  BY DEF SInv, Alone, Inactive

\* What an earlier execution has left pending is adopted.
LEMMA LookUpSerial ==
    ASSUME OneAtATime, NEW r \in Runs, IInv, IInv', SInv, LookUp(r)
    PROVE  SInv'
<1>0. TypeOK /\ AttemptSound(r) /\ pc[r] = "lookup"
  BY DEF IInv, RunSound, LookUp
<1>1. OnlyLocalsOf(r) /\ OnBehalfOf(r)
  BY <1>0 DEF LookUp, Goto, stored, TypeOK, OnlyLocalsOf, OnBehalfOf
<1>2. \A s \in Runs \ {r} : Inactive(s)
  BY <1>0, AloneAtWork
<1>3. /\ signals' = signals /\ slot' = slot /\ ready' = ready /\ count' = count
      /\ pc'[r] = "claim" /\ count[r] \in Nat
      /\ attempt'[r] = IF Reusable(r) THEN slot.attempt ELSE attempt[r]
  BY <1>0 DEF LookUp, Goto, stored, TypeOK
<1>4. Works(r)'
  BY <1>3 DEF Works
<1>5. ASSUME NEW v \in DOMAIN signals, Pending(r, v)
      PROVE  /\ slot # None /\ slot.run = r /\ slot.attempt = signals[v]
             /\ slot.status \in {"ACTIVE", "FAILED"} /\ attempt'[r] = signals[v]
  <2>1. /\ slot # None /\ slot.run = r /\ slot.attempt = signals[v]
        /\ slot.status \in {"ACTIVE", "FAILED"}
    BY <1>0, <1>5 DEF SInv, Resumes, Retired
  <2>2. slot.count < count[r]
    BY <1>0, <2>1 DEF SInv, Works
  <2>3. slot.attempt.build = attempt[r].build
    BY <1>0, <2>1 DEF AttemptSound, Attempts, TypeOK, Slots, OneAtATime
  <2> QED
    BY <1>3, <2>1, <2>2, <2>3 DEF Reusable
<1>6. Resumes(r)'
  BY <1>3, <1>5 DEF Resumes, Pending
<1> QED
  BY <1>1, <1>2, <1>3, <1>4, <1>6, SerialStep

\* The lease that is written carries the attempt that is pending.
LEMMA ClaimSerial ==
    ASSUME OneAtATime, NEW r \in Runs, IInv, IInv', SInv, Claim(r)
    PROVE  SInv'
<1>0. TypeOK /\ AttemptSound(r) /\ pc[r] = "claim"
  BY DEF IInv, RunSound, Claim
<1>1. slot' = slot \/ slot' = Lease(r)
  BY DEF Claim
<1>2. /\ signals' = signals /\ ready' = ready /\ count' = count /\ now' = now
      /\ attempt' = attempt /\ pc'[r] = "verify" /\ count[r] \in Nat
  BY <1>0 DEF Claim, Goto, TypeOK
<1>3. Lease(r).run = r /\ Lease(r).count = count[r] /\ Lease(r).attempt = attempt[r]
      /\ Lease(r).status = "ACTIVE"
  BY DEF Lease
<1>4. OnlyLocalsOf(r)
  BY <1>0 DEF Claim, Goto, TypeOK, OnlyLocalsOf
<1>5. slot' = Lease(r) => slot' # None
  BY <1>0, LeaseSound DEF IInv
<1>6. OnBehalfOf(r)
  BY <1>0, <1>1, <1>2, <1>3, <1>5 DEF TypeOK, OnBehalfOf, AttemptSound
<1>7. \A s \in Runs \ {r} : Inactive(s)
  BY <1>0, AloneAtWork
<1>8. Works(r)'
  BY <1>2 DEF Works
<1>9. ASSUME NEW v \in DOMAIN signals, Pending(r, v)
      PROVE  /\ slot' # None /\ slot'.run = r /\ slot'.attempt = signals[v]
             /\ slot'.status \in {"ACTIVE", "FAILED"} /\ attempt[r] = signals[v]
  <2>1. /\ slot # None /\ slot.run = r /\ slot.attempt = signals[v]
        /\ slot.status \in {"ACTIVE", "FAILED"} /\ attempt[r] = signals[v]
    BY <1>0, <1>9 DEF SInv, Resumes, Retired
  <2> QED
    BY <1>1, <1>3, <1>5, <2>1
<1>10. Resumes(r)'
  BY <1>2, <1>9 DEF Resumes, Pending
<1>11. slot' = slot \/ slot'.count <= count'[slot'.run]
  BY <1>1, <1>2, <1>3
<1> QED
  BY <1>2, <1>4, <1>6, <1>7, <1>8, <1>10, <1>11, SerialStep

\* A step of a run at work that leaves the slot and the signals to themselves.
LEMMA LocalSerial ==
    ASSUME NEW r \in Runs, IInv, IInv', SInv, pc[r] \notin {"idle", "lookup", "done"},
           OnlyLocalsOf(r), OnBehalfOf(r), signals' = signals, slot' = slot, count' = count,
           pc'[r] # "lookup", pc'[r] = "idle" \/ attempt'[r] = attempt[r],
           pc'[r] \in {"find", "compute", "commit", "publish"} =>
               /\ slot # None /\ slot.run = r
               /\ slot.attempt = attempt'[r] /\ slot.status = "ACTIVE"
    PROVE  SInv'
<1>1. \A s \in Runs \ {r} : Inactive(s)
  BY AloneAtWork
<1>2. Works(r)'
  BY DEF Works
<1>3. \A v \in DOMAIN signals : Pending(r, v)' => Pending(r, v)
  BY NoCommit
<1>4. ~Retired(r) /\ Resumes(r)
  BY DEF Retired, SInv
<1>5. Resumes(r)'
  BY <1>3, <1>4 DEF Resumes
<1>6. count[r] \in Nat
  BY DEF IInv, TypeOK
<1> QED
  BY <1>1, <1>2, <1>5, <1>6, SerialStep

\* An execution that ends leaves the slot for the next one.
LEMMA EndSerial ==
    ASSUME NEW r \in Runs, IInv, IInv', SInv, End(r), UNCHANGED <<slot, signals, ready, now>>,
           pc[r] \notin {"idle", "done"}
    PROVE  SInv'
<1>0. TypeOK
  BY DEF IInv
<1>1. OnlyLocalsOf(r) /\ count' = count /\ pc'[r] = "idle"
  BY <1>0, EndSound DEF End, Goto, TypeOK
<1>2. OnBehalfOf(r) /\ signals' = signals /\ slot' = slot
  BY <1>0 DEF TypeOK, OnBehalfOf
<1>3. \A s \in Runs \ {r} : Inactive(s)
  BY AloneAtWork
<1>4. Works(r)'
  BY <1>1 DEF Works
<1>5. \A v \in DOMAIN signals : Pending(r, v)' => Pending(r, v)
  BY <1>2, NoCommit
<1>6. ~Retired(r) /\ Resumes(r)
  BY DEF Retired, SInv
<1>7. Resumes(r)'
  BY <1>1, <1>2, <1>5, <1>6 DEF Resumes
<1>8. count[r] \in Nat
  BY <1>0 DEF TypeOK
<1> QED
  BY <1>1, <1>2, <1>3, <1>4, <1>7, <1>8, SerialStep

\* Past verify the slot is the run's own: nobody is there to take it.
LEMMA VerifySerial ==
    ASSUME NEW r \in Runs, IInv, IInv', SInv, Verify(r)
    PROVE  SInv'
<1>0. TypeOK /\ UNCHANGED <<now, faults, slot, signals, ready>> /\ pc[r] = "verify"
  BY DEF IInv, Verify
<1>1. CASE /\ Owns(r) /\ slot.status = "ACTIVE"
           /\ Goto(r, "find") /\ UNCHANGED <<count, activated, attempt, version>>
  <2>1. OnlyLocalsOf(r) /\ OnBehalfOf(r) /\ pc'[r] = "find"
    BY <1>0, <1>1 DEF TypeOK, OnlyLocalsOf, OnBehalfOf, Goto
  <2> QED
    BY <1>0, <1>1, <2>1, LocalSerial DEF Owns
<1>2. CASE End(r)
  BY <1>0, <1>2, EndSerial
<1> QED
  BY <1>1, <1>2 DEF Verify

\* The lookups for a receipt.
LEMMA FindSerial ==
    ASSUME NEW r \in Runs, IInv, IInv', SInv, Find(r) \/ Compute(r)
    PROVE  SInv'
<1>0. TypeOK /\ pc[r] \in {"find", "compute"}
      /\ UNCHANGED <<now, faults, stored, count, activated, attempt>>
  BY DEF IInv, Find, Compute
<1>1. \E label \in {"compute", "commit", "publish"} : Goto(r, label)
  BY DEF Find, Compute, Found
<1>2. \A s \in Runs \ {r} : version'[s] = version[s]
  BY <1>0 DEF Find, Compute, Found, TypeOK
<1>3. OnlyLocalsOf(r) /\ OnBehalfOf(r)
  BY <1>0, <1>1, <1>2 DEF TypeOK, OnlyLocalsOf, OnBehalfOf, stored, Goto
<1>4. pc'[r] \in {"compute", "commit", "publish"}
  BY <1>0, <1>1 DEF TypeOK, Goto
<1>5. Works(r)
  BY DEF SInv
<1> QED
  BY <1>0, <1>3, <1>4, <1>5, LocalSerial DEF Works, stored

\* What is pending at a commit would be of the same attempt, which has none.
LEMMA CommitSerial ==
    ASSUME NEW r \in Runs, IInv, IInv', SInv, Commit(r)
    PROVE  SInv'
<1>0. TypeOK /\ AttemptSound(r) /\ ProgressSound(r) /\ pc[r] = "commit"
  BY DEF IInv, RunSound, Commit
<1>1. /\ attempt[r] \in Attempts /\ attempt[r].run = r /\ attempt[r].count <= count[r]
      /\ \A v \in DOMAIN signals : signals[v] # attempt[r]
  BY <1>0 DEF AttemptSound, ProgressSound
<1>2. /\ signals' = Append(signals, attempt[r]) /\ ready' = ready /\ slot' = slot
      /\ count' = count /\ attempt' = attempt /\ pc'[r] = "publish"
  BY <1>0 DEF Commit, Goto, TypeOK
<1>3. OnlyLocalsOf(r)
  BY <1>0 DEF Commit, Goto, TypeOK, OnlyLocalsOf
<1>4. /\ DOMAIN signals' = 1 .. Len(signals) + 1
      /\ DOMAIN signals = 1 .. Len(signals) /\ Len(signals) \in Nat
      /\ \A v \in DOMAIN signals : signals'[v] = signals[v]
      /\ signals'[Len(signals) + 1] = attempt[r]
  BY <1>0, <1>1, <1>2, AppendProperties DEF TypeOK
<1>5. \A v \in DOMAIN signals' : v \in DOMAIN signals \/ v = Len(signals) + 1
  BY <1>4
<1>6. Works(r) /\ Resumes(r) /\ ~Retired(r)
  BY <1>0 DEF SInv, Retired
<1>7. \A v \in DOMAIN signals : ~Pending(r, v)
  BY <1>0, <1>1, <1>6 DEF Resumes
<1>8. \A s \in Runs \ {r} : Inactive(s)' /\ Works(s)' /\ Resumes(s)'
  BY <1>0, <1>1, <1>2, <1>3, AloneAtWork, OthersRest
<1>9. Alone'
  BY <1>8 DEF Alone
<1>10. Counted'
  BY <1>1, <1>2, <1>4, <1>5 DEF SInv, Counted
<1>11. Works(r)'
  BY <1>0, <1>2, <1>6 DEF Works
<1>12. Resumes(r)'
  <2>1. \A v \in DOMAIN signals : ~Pending(r, v)'
    BY <1>2, <1>4, <1>7 DEF Pending
  <2> QED
    BY <1>0, <1>2, <1>4, <1>5, <1>6, <2>1 DEF Resumes, Works
<1>13. Reused'
  <2> SUFFICES ASSUME NEW v \in DOMAIN signals', NEW w \in DOMAIN signals', v < w,
                      signals'[v].run = signals'[w].run
               PROVE  \E row \in ready : row.attempt = signals'[v]
    BY <1>2 DEF Reused
  <2>1. v \in DOMAIN signals /\ signals'[v] = signals[v]
    BY <1>4, <1>5
  <2>2. CASE w \in DOMAIN signals
    BY <1>4, <2>1, <2>2 DEF SInv, Reused
  <2>3. CASE w = Len(signals) + 1
    BY <1>1, <1>4, <1>7, <2>1, <2>3 DEF Pending
  <2> QED
    BY <1>5, <2>2, <2>3
<1> QED
  BY <1>8, <1>9, <1>10, <1>11, <1>12, <1>13 DEF SInv

\* The READY row takes its commit from what is pending.
LEMMA PublishSerial ==
    ASSUME NEW r \in Runs, IInv, IInv', SInv, Publish(r)
    PROVE  SInv'
<1>0. TypeOK /\ pc[r] = "publish"
  BY DEF IInv, Publish
<1>1. /\ signals' = signals /\ slot' = slot /\ count' = count /\ attempt' = attempt
      /\ now' = now /\ pc'[r] = "consume" /\ OnlyLocalsOf(r)
  BY <1>0 DEF Publish, Goto, TypeOK, OnlyLocalsOf
<1>2. \A row \in ready : row \in ready'
  BY PublishAdds
<1>3. OnBehalfOf(r)
  BY <1>0, <1>1, <1>2 DEF TypeOK, OnBehalfOf
<1> QED
  BY <1>0, <1>1, <1>3, LocalSerial

\* A release closes the run's own lease, if at all.
LEMMA ReleaseSerial ==
    ASSUME NEW r \in Runs, IInv, IInv', SInv, NEW status \in Statuses, Release(r, status),
           UNCHANGED <<now, signals, ready, count>>, OnlyLocalsOf(r),
           pc[r] \notin {"idle", "lookup", "done"}, pc'[r] \in {"idle", "confirm"},
           pc'[r] = "confirm" => attempt'[r] = attempt[r],
           status = "FAILED" \/ \A v \in DOMAIN signals : ~Pending(r, v)
    PROVE  SInv'
<1>0. TypeOK /\ SlotSound
  BY DEF IInv, Tables
<1>1. \/ slot' = slot
      \/ /\ slot # None /\ slot \in Slots /\ Owns(r)
         /\ slot' # None /\ slot'.run = slot.run /\ slot'.attempt = slot.attempt
         /\ slot'.status = status /\ slot'.count = slot.count
  <2>1. CASE Owns(r) /\ slot.status = "ACTIVE"
    <3>1. slot \in Slots /\ slot # None /\ now \in Nat
      BY <1>0, <2>1 DEF Owns, TypeOK
    <3>2. slot' = [slot EXCEPT !.status = status, !.expires = now]
      BY <2>1 DEF Release
    <3>3. slot'.count = slot.count
      BY <3>1, <3>2 DEF Slots
    <3>4. slot' = slot \/ (slot' # None /\ slot'.run = slot.run /\ slot'.status = status
                           /\ slot'.attempt = slot.attempt)
      BY ReleaseSound
    <3> QED
      BY <2>1, <3>1, <3>3, <3>4
  <2>2. CASE ~(Owns(r) /\ slot.status = "ACTIVE")
    BY <2>2 DEF Release
  <2> QED
    BY <2>1, <2>2
<1>2. OnBehalfOf(r)
  BY <1>0, <1>1 DEF TypeOK, OnBehalfOf, SlotSound, Owns
<1>3. \A s \in Runs \ {r} : Inactive(s)
  BY AloneAtWork
<1>4. Works(r)'
  BY DEF Works
<1>5. ~Retired(r) /\ Resumes(r)
  BY DEF Retired, SInv
<1>6. Resumes(r)'
  BY <1>1, <1>5 DEF Resumes, Pending
<1>7. slot' # None => slot' = slot \/ slot'.count <= count'[slot'.run]
  BY <1>1 DEF SInv, Counted
<1>8. count[r] \in Nat
  BY <1>0 DEF TypeOK
<1> QED
  BY <1>2, <1>3, <1>4, <1>6, <1>7, <1>8, SerialStep

\* Success and failure release the slot; only a failure leaves work pending.
LEMMA ClosingSerial ==
    ASSUME NEW r \in Runs, IInv, IInv', SInv, Consume(r) \/ Fail(r)
    PROVE  SInv'
<1>0. TypeOK /\ ProgressSound(r)
  BY DEF IInv, RunSound
<1>1. CASE Consume(r)
  <2>1. /\ pc[r] = "consume" /\ pc'[r] = "confirm" /\ OnlyLocalsOf(r) /\ attempt' = attempt
    BY <1>0, <1>1 DEF Consume, Goto, TypeOK, OnlyLocalsOf
  <2>2. \E row \in ready : row.attempt = attempt[r]
    BY <1>0, <2>1 DEF ProgressSound
  <2>3. Resumes(r) /\ ~Retired(r)
    BY <2>1 DEF SInv, Retired
  <2>4. \A v \in DOMAIN signals : ~Pending(r, v)
    BY <2>1, <2>2, <2>3 DEF Resumes, Pending
  <2> QED
    BY <1>1, <2>1, <2>4, ReleaseSerial DEF Consume, Statuses
<1>2. CASE Fail(r)
  <2>1. OnlyLocalsOf(r) /\ count' = count /\ pc'[r] = "idle"
    BY <1>0, <1>2, EndSound DEF Fail, End, Goto, TypeOK
  <2>2. CASE slot' = slot
    BY <1>2, <2>2, EndSerial DEF Fail
  <2>3. CASE pc[r] \notin {"lookup", "claim", "verify"}
    BY <1>2, <2>1, <2>3, ReleaseSerial DEF Fail, Statuses
  <2> QED
    BY <1>2, <2>2, <2>3 DEF Fail
<1> QED
  BY <1>1, <1>2

\* An execution that is refused leaves what is pending to the next.
LEMMA RefuseSerial ==
    ASSUME OneAtATime, NEW r \in Runs, IInv, IInv', SInv, Refuse(r)
    PROVE  SInv'
<1>0. TypeOK
  BY DEF IInv
<1>1. OnlyLocalsOf(r) /\ OnBehalfOf(r)
  BY <1>0 DEF Refuse, Starts, stored, TypeOK, OnlyLocalsOf, OnBehalfOf
<1>2. \A s \in Runs \ {r} : Inactive(s)
  BY DEF Refuse, Starts, OneAtATime
<1>3. /\ signals' = signals /\ slot' = slot /\ ready' = ready /\ attempt' = attempt
      /\ pc[r] = "idle" /\ pc'[r] = "idle"
      /\ count[r] < MaxExecutions /\ count'[r] = count[r] + 1 /\ count[r] \in Nat
  BY <1>0 DEF Refuse, Starts, stored, TypeOK
<1>4. Works(r)'
  BY <1>3 DEF Works
<1>5. Resumes(r)'
  <2>1. ~Retired(r)
    BY <1>3 DEF Retired
  <2>2. Resumes(r)
    BY DEF SInv
  <2> QED
    BY <1>3, <2>1, <2>2 DEF Resumes, Pending
<1> QED
  BY <1>1, <1>2, <1>3, <1>4, <1>5, SerialStep

\* The read-back of a release, and the loss of the driver.
LEMMA LeavingSerial ==
    ASSUME NEW r \in Runs, IInv, IInv', SInv, Confirm(r) \/ Crash(r)
    PROVE  SInv'
<1>0. TypeOK
  BY DEF IInv
<1>1. CASE End(r)
  BY <1>1, EndSerial DEF Confirm, Crash, stored
<1>2. CASE Confirm(r) /\ Goto(r, "done") /\ UNCHANGED <<count, activated, attempt, version>>
  <2>1. pc[r] = "confirm" /\ pc'[r] = "done" /\ UNCHANGED <<now, stored>>
        /\ OnlyLocalsOf(r)
    BY <1>0, <1>2 DEF Confirm, Goto, TypeOK, OnlyLocalsOf
  <2>2. OnBehalfOf(r)
    BY <1>0, <2>1 DEF TypeOK, OnBehalfOf, stored
  <2> QED
    BY <1>2, <2>1, <2>2, LocalSerial DEF stored
<1> QED
  BY <1>1, <1>2 DEF Confirm, Crash

\* Every step keeps it, as long as runs follow one another.
LEMMA NextSerial == OneAtATime /\ IInv /\ IInv' /\ SInv /\ [Next]_vars => SInv'
<1> SUFFICES ASSUME OneAtATime, IInv, IInv', SInv, [Next]_vars PROVE SInv'
  OBVIOUS
<1>1. CASE Tick \/ UNCHANGED vars \/ \E r \in Runs : Repair(r)
  BY <1>1 DEF Tick, Repair, vars, stored, locals, SInv, Alone, Inactive, Counted, Works, Resumes,
     Pending, Retired, Reused
<1>2. ASSUME NEW r \in Runs, Step(r) PROVE SInv'
  BY <1>2, BeginSerial, RefuseSerial, LookUpSerial, ClaimSerial, VerifySerial, FindSerial, CommitSerial,
     PublishSerial, ClosingSerial, LeavingSerial DEF Step
<1>3. ASSUME NEW r \in Runs, Fail(r) \/ Crash(r) PROVE SInv'
  BY <1>3, ClosingSerial, LeavingSerial
<1> QED
  BY <1>1, <1>2, <1>3 DEF Next

\* When runs follow one another and the build does not move on, an execution
\* commits again only what its run's earlier commit has published: a receipt
\* that a dead execution left behind is always found.
THEOREM FinishedReused == Spec => []FinishedWorkIsReused
<1> DEFINE Serial == OneAtATime => SInv
<1>1. Init => Serial
  <2> SUFFICES ASSUME Init PROVE SInv
    OBVIOUS
  <2>1. DOMAIN signals = {}
    BY DEF Init
  <2> QED
    BY <2>1 DEF Init, SInv, Alone, Inactive, Counted, Works, Resumes, Reused
<1>2. IInv /\ IInv' /\ Serial /\ [Next]_vars => Serial'
  BY NextSerial DEF OneAtATime
<1>3. Serial => FinishedWorkIsReused
  BY DEF SInv, Reused, FinishedWorkIsReused
<1> HIDE DEF Serial
<1> QED
  BY <1>1, <1>2, <1>3, Invariance, PTL DEF Spec
=============================================================================
