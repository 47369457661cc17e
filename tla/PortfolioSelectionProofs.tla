---------------------- MODULE PortfolioSelectionProofs ----------------------
(***************************************************************************)
(* Proofs about PortfolioSelection, for every set of routes, providers,    *)
(* builds and attempts and every cutoff, age and bound.                    *)
(***************************************************************************)
EXTENDS PortfolioSelection, WellFoundedInduction, TLAPS

(***************************************************************************)
(* There is always a latest row, and a latest attempt: a set of bounded    *)
(* numbers has a greatest one.                                             *)
(***************************************************************************)

\* A set of numbers that is not empty has a least one.
LEMMA LeastExists ==
    ASSUME NEW T \in SUBSET Nat, T # {}
    PROVE  \E n \in T : \A k \in T : n <= k
  <1>1. IsWellFoundedOn(OpToRel(<, Nat), Nat)
    BY NatLessThanWellFounded
  <1>2. PICK n \in T : \A k \in T : ~(<<k, n>> \in OpToRel(<, Nat))
    BY <1>1, WFMin
  <1>3. ASSUME NEW k \in T PROVE n <= k
    <2>1. ~(<<k, n>> \in {ss \in Nat \X Nat : ss[1] < ss[2]})
      BY <1>2 DEF OpToRel
    <2>2. <<k, n>> \in Nat \X Nat
      OBVIOUS
    <2>3. ~(k < n)
      BY <2>1, <2>2
    <2> QED BY <2>3
  <1> QED BY <1>3

\* A set of bounded numbers that is not empty has a greatest one.
LEMMA GreatestExists ==
    ASSUME NEW N \in Nat, NEW T \in SUBSET (0 .. N), T # {}
    PROVE  \E n \in T : \A k \in T : k <= n
  <1> DEFINE U == {N - n : n \in T}
  <1>1. U \in SUBSET Nat /\ U # {}
    <2>1. ASSUME NEW n \in T PROVE N - n \in Nat
      BY SMT
    <2> QED BY <2>1
  <1>2. PICK u \in U : \A k \in U : u <= k
    BY <1>1, LeastExists
  <1>3. PICK n \in T : u = N - n
    OBVIOUS
  <1>4. ASSUME NEW k \in T PROVE k <= n
    <2>1. N - k \in U
      OBVIOUS
    <2>2. N - n <= N - k
      BY <2>1, <1>2, <1>3
    <2> QED BY <2>2
  <1> QED BY <1>4

\* The latest of some rows is one of them.
LEMMA LatestReadyIsOne ==
    ASSUME SelectionAssumption, NEW rows \in SUBSET Rows, rows # {}
    PROVE  LatestReady(rows) \in rows
  <1>0. MaxClock \in Nat /\ MaxCount \in Nat
    BY DEF SelectionAssumption
  <1>1. \A m \in rows : m.at \in 0 .. MaxClock /\ m.count \in 0 .. MaxCount
    BY DEF Rows
  <1> DEFINE Times == {m.at : m \in rows}
  <1>2. Times \in SUBSET (0 .. MaxClock) /\ Times # {}
    BY <1>1
  <1> HIDE DEF Times
  <1>3. PICK t \in Times : \A k \in Times : k <= t
    BY <1>0, <1>2, GreatestExists
  <1> DEFINE Last == {m \in rows : m.at = t}
             Counts == {m.count : m \in Last}
  <1>4. Counts \in SUBSET (0 .. MaxCount) /\ Counts # {}
    BY <1>1, <1>3 DEF Times
  <1>5. PICK c \in Counts : \A k \in Counts : k <= c
    <2> HIDE DEF Counts
    <2> QED BY <1>0, <1>4, GreatestExists
  <1>6. PICK m \in rows : m.at = t /\ m.count = c
    BY <1>5
  <1>7. ASSUME NEW n \in rows
        PROVE  n.at < m.at \/ (n.at = m.at /\ n.count <= m.count)
    <2>1. n.at <= t
      BY <1>3 DEF Times
    <2>2. CASE n.at = t
      BY <2>2, <1>5, <1>6
    <2>3. CASE n.at # t
      BY <2>1, <2>3, <1>1, <1>2, <1>6
    <2> QED BY <2>2, <2>3
  <1> QED BY <1>6, <1>7 DEF LatestReady

\* Of a build that has rows, one is the latest attempt.
LEMMA LatestAttemptExists ==
    ASSUME SelectionAssumption, NEW rows \in SUBSET Rows, NEW o \in rows
    PROVE  \E n \in LatestAttempts(rows) : n.build = o.build
  <1>0. MaxClock \in Nat /\ MaxCount \in Nat
    BY DEF SelectionAssumption
  <1>1. \A m \in rows : m.at \in 0 .. MaxClock /\ m.count \in 0 .. MaxCount
    BY DEF Rows
  <1> DEFINE Same == {m \in rows : m.build = o.build}
             Counts == {m.count : m \in Same}
  <1>2. Counts \in SUBSET (0 .. MaxCount) /\ Counts # {}
    BY <1>1
  <1>3. PICK c \in Counts : \A k \in Counts : k <= c
    <2> HIDE DEF Counts
    <2> QED BY <1>0, <1>2, GreatestExists
  <1> DEFINE Top == {m \in Same : m.count = c}
             Times == {m.at : m \in Top}
  <1>4. Times \in SUBSET (0 .. MaxClock) /\ Times # {}
    BY <1>1, <1>3
  <1>5. PICK t \in Times : \A k \in Times : k <= t
    <2> HIDE DEF Times
    <2> QED BY <1>0, <1>4, GreatestExists
  <1>6. PICK n \in Top : n.at = t
    BY <1>5
  <1>7. ASSUME NEW m \in rows, Supersedes(m, n) PROVE FALSE
    <2>1. m \in Same /\ n \in rows
      BY <1>6, <1>7 DEF Supersedes
    <2>2. m.count <= c /\ n.count = c
      BY <2>1, <1>3, <1>6
    <2>3. m.count = n.count /\ m.at > n.at
      BY <2>1, <2>2, <1>1, <1>7 DEF Supersedes
    <2>4. m.at <= t
      BY <2>1, <2>2, <2>3, <1>5
    <2> QED BY <2>3, <2>4, <2>1, <1>1, <1>6
  <1> QED BY <1>6, <1>7 DEF LatestAttempts

(***************************************************************************)
(* Types.                                                                  *)
(***************************************************************************)

ExType == [pc : Steps, count : 1 .. MaxExecutions, left : SUBSET Providers,
           loaded : 0 .. MaxClock, seen : SUBSET Rows,
           wake : 0 .. MaxClock, picks : SUBSET Picks]

\* An execution that has resolved a provider keeps its types.
LEMMA ResolvedTypes ==
    ASSUME SelectionAssumption, TypeOK, NEW r \in Routes
    PROVE  Resolved(r) \in ExType
  <1> DEFINE left == ex[r].left \ {Provider(r)}
             next == IF left = {} THEN "bind" ELSE "load"
  <1>1. next \in Steps
    BY DEF Steps
  <1>2. Resolved(r) = [ex[r] EXCEPT !.pc = next, !.left = left, !.seen = {}, !.loaded = 0]
    BY Zenon DEF Resolved
  <1>3. ex[r] \in ExType /\ left \in SUBSET Providers /\ 0 \in 0 .. MaxClock
    BY DEF TypeOK, ExType, SelectionAssumption
  <1> HIDE DEF next, left
  <1> QED BY <1>1, <1>2, <1>3 DEF ExType

\* What a provider's look selects is a row of what was seen.
LEMMA PickTypes ==
    ASSUME SelectionAssumption, TypeOK, NEW r \in Routes,
           NEW rows \in SUBSET Rows, rows # {},
           NEW status \in {"READY_FOR_NEXTADS", "FALLBACK_PREVIOUS"},
           Pick(r, rows, status)
    PROVE  ex' \in [Routes -> ExType]
  <1>1. LatestReady(rows) \in Rows
    BY LatestReadyIsOne
  <1>2. ex[r].loaded \in 0 .. MaxClock
    BY DEF TypeOK
  <1> DEFINE pick == [row |-> LatestReady(rows), status |-> status, loaded |-> ex[r].loaded]
             new == [Resolved(r) EXCEPT !.picks = @ \cup {pick}]
  <1>3. pick \in Picks
    <2> HIDE DEF Rows
    <2> QED BY <1>1, <1>2, SMT DEF Picks
  <1>4. new \in ExType
    <2> HIDE DEF pick
    <2> QED BY <1>3, ResolvedTypes DEF ExType
  <1>5. ex' = [ex EXCEPT ![r] = new]
    BY Zenon DEF Pick
  <1>6. ex \in [Routes -> ExType]
    BY DEF TypeOK, ExType
  <1> HIDE DEF new
  <1> QED BY <1>4, <1>5, <1>6

\* The other outcomes of a look.
LEMMA OutcomeTypes ==
    ASSUME SelectionAssumption, TypeOK, NEW r \in Routes,
           Skip(r) \/ Fail(r) \/ Sleep(r, Cutoff)
    PROVE  ex' \in [Routes -> ExType]
  <1>1. 0 \in 0 .. MaxClock /\ MaxExecutions \in Nat \ {0}
    BY DEF SelectionAssumption
  <1>2. ex \in [Routes -> ExType]
    BY DEF TypeOK, ExType
  <1>3. CASE Skip(r)
    BY <1>2, <1>3, ResolvedTypes DEF Skip
  <1>4. CASE Fail(r)
    <2>1. ex[r].count \in 1 .. MaxExecutions
      BY DEF TypeOK
    <2>2. ex[r].count < MaxExecutions => Idle(ex[r].count + 1) \in ExType
      BY <1>1, <2>1 DEF Idle, ExType, Steps
    <2> QED BY <1>4, <2>2 DEF Fail, TypeOK, ExType, Steps
  <1>5. CASE Sleep(r, Cutoff)
    <2>1. now + Poll \in Nat /\ Cutoff \in 0 .. MaxClock
      BY DEF SelectionAssumption, TypeOK
    <2>2. Earlier(now + Poll, Cutoff) \in 0 .. MaxClock
      <3>1. ASSUME NEW m \in Nat, NEW n \in 0 .. MaxClock
            PROVE  Earlier(m, n) \in 0 .. MaxClock
        BY <1>1 DEF Earlier
      <3> QED BY <2>1, <3>1
    <2> DEFINE new == [ex[r] EXCEPT !.pc = "sleep", !.wake = Earlier(now + Poll, Cutoff),
                                    !.seen = {}, !.loaded = 0]
    <2>3. new \in ExType
      <3>1. ex[r] \in ExType
        BY <1>2
      <3> QED BY <1>1, <2>2, <3>1 DEF ExType, Steps
    <2>4. ex' = [ex EXCEPT ![r] = new]
      BY <1>5, Zenon DEF Sleep
    <2> HIDE DEF new
    <2> QED BY <1>2, <2>3, <2>4
  <1> QED BY <1>3, <1>4, <1>5

\* A portfolio attempt is an execution of its route.
LEMMA AttemptTypes ==
    ASSUME TypeOK, NEW r \in Routes
    PROVE  Attempt(r) \in Executions
  <1>1. ex[r].count \in 1 .. MaxExecutions
    BY DEF TypeOK
  <1> QED BY <1>1 DEF Attempt, Executions

\* The initial tables and executions have their types.
LEMMA TypeInit ==
    ASSUME SelectionAssumption, Init
    PROVE  TypeOK
  <1>1. Idle(1) \in ExType
    BY DEF Idle, ExType, Steps, SelectionAssumption
  <1> QED BY <1>1 DEF Init, TypeOK, ExType, SelectionAssumption

\* Every step keeps the types.
LEMMA TypeStep ==
    ASSUME SelectionAssumption, TypeOK, [Next]_vars
    PROVE  TypeOK'
  <1> USE SelectionAssumption
  <1>1. CASE Tick
    BY <1>1 DEF Tick, TypeOK, SelectionAssumption
  <1>2. ASSUME NEW a \in Attempts, Stamp(a) PROVE TypeOK'
    <2>1. Row(a) \in Rows
      BY DEF Row, Rows, TypeOK, SelectionAssumption
    <2> QED BY <1>2, <2>1 DEF Stamp, TypeOK
  <1>3. ASSUME NEW row \in pending, Commit(row) PROVE TypeOK'
    BY <1>3 DEF Commit, TypeOK
  <1>4. ASSUME NEW r \in Routes, Start(r) \/ Load(r) \/ Wake(r) PROVE TypeOK'
    <2>1. ex' \in [Routes -> ExType]
      BY <1>4 DEF Start, Load, Wake, TypeOK, ExType, Steps, SelectionAssumption
    <2> QED BY <1>4, <2>1 DEF Start, Load, Wake, Only, TypeOK, ExType
  <1>5. ASSUME NEW r \in Routes, Judge(r) PROVE TypeOK'
    <2> DEFINE latest == LatestAttempts(ex[r].seen)
               same == {m \in latest : m.build \in Today}
               fallback == latest \ same
    <2>1. latest \in SUBSET Rows
      BY DEF LatestAttempts, TypeOK
    <2>2. \/ same # {} /\ Pick(r, same, "READY_FOR_NEXTADS")
          \/ fallback # {} /\ Pick(r, fallback, "FALLBACK_PREVIOUS")
          \/ Skip(r) \/ Fail(r) \/ Sleep(r, Cutoff)
      BY <1>5 DEF Judge
    <2>3. same \in SUBSET Rows /\ fallback \in SUBSET Rows
      BY <2>1
    <2> HIDE DEF same, fallback, latest
    <2>4. ex' \in [Routes -> ExType]
      BY <2>2, <2>3, PickTypes, OutcomeTypes
    <2> QED BY <1>5, <2>4 DEF Judge, Only, TypeOK, ExType
  <1>6. ASSUME NEW r \in Routes, Bind(r) PROVE TypeOK'
    <2>1. Attempt(r) \in Executions
      BY AttemptTypes
    <2>2. ex' \in [Routes -> ExType]
      <3> DEFINE new == [ex[r] EXCEPT !.pc = "header", !.picks = {}]
      <3>1. ex \in [Routes -> ExType]
        BY DEF TypeOK, ExType
      <3>2. new \in ExType
        <4>1. ex[r] \in ExType
          BY <3>1
        <4> QED BY <4>1 DEF ExType, Steps
      <3>3. ex' = [ex EXCEPT ![r] = new]
        BY <1>6, Zenon DEF Bind
      <3> HIDE DEF new
      <3> QED BY <3>1, <3>2, <3>3
    <2>3. ex[r].picks \in SUBSET Picks
      BY DEF TypeOK
    <2>4. entries' \in [Executions -> SUBSET Picks]
      <3> HIDE DEF Executions, Picks
      <3> QED BY <1>6, <2>1, <2>3 DEF Bind, TypeOK
    <2> QED BY <1>6, <2>2, <2>4 DEF Bind, TypeOK, ExType
  <1>7. ASSUME NEW r \in Routes, Header(r) PROVE TypeOK'
    <2>1. Attempt(r) \in Executions
      BY AttemptTypes
    <2> QED BY <1>7, <2>1 DEF Header, Go, TypeOK, Steps
  <1>8. ASSUME NEW r \in Routes, Values(r) PROVE TypeOK'
    BY <1>8 DEF Values, Go, Only, TypeOK, Steps
  <1>9. ASSUME NEW r \in Routes, Crash(r) PROVE TypeOK'
    <2>1. ex' \in [Routes -> ExType]
      BY <1>9, OutcomeTypes DEF Crash
    <2> QED BY <1>9, <2>1 DEF Crash, Only, TypeOK, ExType
  <1>10. CASE UNCHANGED vars
    BY <1>10 DEF vars, TypeOK
  <1> QED
    BY <1>1, <1>2, <1>3, <1>4, <1>5, <1>6, <1>7, <1>8, <1>9, <1>10 DEF Next, Publish, Step

(***************************************************************************)
(* What an execution has picked covers what it has resolved.               *)
(***************************************************************************)

Resolving == {"load", "judge", "sleep"}

\* The picks of one execution e against the providers it has left.
Covering(e) ==
    /\ e.pc = "idle" => e.picks = {}
    /\ e.pc \in Resolving => e.left # {}
    /\ e.pc = "bind" => e.left = {}
    /\ e.pc \in Resolving \cup {"bind"} =>
          /\ \A p \in Serving : p \in e.left \/ \E x \in e.picks : x.row.provider = p
          /\ \A x \in e.picks : x.row.provider \notin e.left
          /\ \A x, y \in e.picks : x.row.provider = y.row.provider => x = y
    /\ e.pc = "judge" => \A m \in e.seen : m.provider = (CHOOSE p \in e.left : TRUE)

CoverInv ==
    /\ \A r \in Routes : /\ Covering(ex[r])
                         /\ ex[r].pc = "header" => Covers(entries[Attempt(r)])
    /\ HeaderHasEntries

\* A selected row leaves the rest of the providers to resolve.
LEMMA PickCovers ==
    ASSUME SelectionAssumption, TypeOK, NEW r \in Routes, Covering(ex[r]), ex[r].pc = "judge",
           NEW rows \in SUBSET ex[r].seen, rows # {}, NEW status, Pick(r, rows, status)
    PROVE  /\ Covering(ex'[r]) /\ ex'[r].pc # "header"
           /\ \A q \in Routes \ {r} : ex'[q] = ex[q]
  <1> DEFINE pick == [row |-> LatestReady(rows), status |-> status, loaded |-> ex[r].loaded]
             left == ex[r].left \ {Provider(r)}
             next == IF left = {} THEN "bind" ELSE "load"
             new == [Resolved(r) EXCEPT !.picks = @ \cup {pick}]
  <1>1. rows \in SUBSET Rows /\ ex \in [Routes -> ExType]
    BY DEF TypeOK, ExType
  <1>2. pick.row.provider = Provider(r)
    <2>1. LatestReady(rows) \in rows
      BY <1>1, LatestReadyIsOne
    <2> QED BY <2>1 DEF Covering, Provider
  <1>3. ex' = [ex EXCEPT ![r] = new]
    BY Zenon DEF Pick
  <1>4. ex'[r] = new /\ \A q \in Routes \ {r} : ex'[q] = ex[q]
    <2> HIDE DEF new
    <2> QED BY <1>1, <1>3
  <1>5. Resolved(r) = [ex[r] EXCEPT !.pc = next, !.left = left, !.seen = {}, !.loaded = 0]
    BY Zenon DEF Resolved
  <1>6. new.pc = next /\ new.left = left /\ new.picks = ex[r].picks \cup {pick}
    <2> HIDE DEF pick, next, left
    <2> QED BY <1>1, <1>5 DEF ExType
  <1>7. Provider(r) \in ex[r].left
    BY DEF Provider, Covering, Resolving
  <1>8. /\ \A p \in Serving : p \in ex[r].left \/ \E x \in ex[r].picks : x.row.provider = p
        /\ \A x \in ex[r].picks : x.row.provider \notin ex[r].left
        /\ \A x, y \in ex[r].picks : x.row.provider = y.row.provider => x = y
    BY DEF Covering, Resolving
  <1>9. (next = "bind" /\ left = {}) \/ (next = "load" /\ left # {})
    <2> HIDE DEF left
    <2>1. CASE left = {}
      BY <2>1, Zenon
    <2>2. CASE left # {}
      BY <2>2, Zenon
    <2> QED BY <2>1, <2>2
  <1>10. /\ \A p \in Serving : p \in left \/ \E x \in new.picks : x.row.provider = p
         /\ \A x \in new.picks : x.row.provider \notin left
         /\ \A x, y \in new.picks : x.row.provider = y.row.provider => x = y
    <2> HIDE DEF pick, new
    <2> QED BY <1>2, <1>6, <1>7, <1>8
  <1> HIDE DEF new, next, left, pick
  <1>11. Covering(new)
    BY <1>6, <1>9, <1>10 DEF Covering, Resolving
  <1> QED BY <1>4, <1>6, <1>9, <1>11

\* So does a provider that is skipped.
LEMMA SkipCovers ==
    ASSUME SelectionAssumption, TypeOK, NEW r \in Routes, Covering(ex[r]), ex[r].pc = "judge",
           Provider(r) \notin Serving, Skip(r)
    PROVE  /\ Covering(ex'[r]) /\ ex'[r].pc # "header"
           /\ \A q \in Routes \ {r} : ex'[q] = ex[q]
  <1> DEFINE left == ex[r].left \ {Provider(r)}
             next == IF left = {} THEN "bind" ELSE "load"
             new == Resolved(r)
  <1>1. ex \in [Routes -> ExType]
    BY DEF TypeOK, ExType
  <1>2. ex'[r] = new /\ \A q \in Routes \ {r} : ex'[q] = ex[q]
    BY <1>1 DEF Skip
  <1>3. new = [ex[r] EXCEPT !.pc = next, !.left = left, !.seen = {}, !.loaded = 0]
    BY Zenon DEF Resolved
  <1>4. new.pc = next /\ new.left = left /\ new.picks = ex[r].picks
    <2> HIDE DEF next, left, new
    <2> QED BY <1>1, <1>3 DEF ExType
  <1>5. (next = "bind" /\ left = {}) \/ (next = "load" /\ left # {})
    <2> HIDE DEF left
    <2>1. CASE left = {}
      BY <2>1, Zenon
    <2>2. CASE left # {}
      BY <2>2, Zenon
    <2> QED BY <2>1, <2>2
  <1>6. /\ \A p \in Serving : p \in left \/ \E x \in ex[r].picks : x.row.provider = p
        /\ \A x \in ex[r].picks : x.row.provider \notin left
        /\ \A x, y \in ex[r].picks : x.row.provider = y.row.provider => x = y
    BY DEF Covering, Resolving
  <1> HIDE DEF new, next, left
  <1>7. Covering(new)
    BY <1>4, <1>5, <1>6 DEF Covering, Resolving
  <1> QED BY <1>2, <1>4, <1>5, <1>7

\* So does an execution that fails or is run again, and one that sleeps.
LEMMA FailCovers ==
    ASSUME SelectionAssumption, TypeOK, NEW r \in Routes, Covering(ex[r]), Fail(r)
    PROVE  /\ Covering(ex'[r]) /\ ex'[r].pc # "header"
           /\ \A q \in Routes \ {r} : ex'[q] = ex[q]
  <1> DEFINE new == IF ex[r].count < MaxExecutions THEN Idle(ex[r].count + 1)
                    ELSE [ex[r] EXCEPT !.pc = "failed"]
  <1>1. ex \in [Routes -> ExType]
    BY DEF TypeOK, ExType
  <1>2. ex' = [ex EXCEPT ![r] = new]
    BY Zenon DEF Fail
  <1>3. (new.pc = "idle" /\ new.picks = {}) \/ new.pc = "failed"
    BY <1>1 DEF ExType, Idle
  <1> HIDE DEF new
  <1>4. Covering(new)
    BY <1>3 DEF Covering, Resolving
  <1> QED BY <1>1, <1>2, <1>3, <1>4

\* An execution that sleeps keeps what it has selected.
LEMMA SleepCovers ==
    ASSUME SelectionAssumption, TypeOK, NEW r \in Routes, Covering(ex[r]), ex[r].pc = "judge",
           Sleep(r, Cutoff)
    PROVE  /\ Covering(ex'[r]) /\ ex'[r].pc # "header"
           /\ \A q \in Routes \ {r} : ex'[q] = ex[q]
  <1> DEFINE new == [ex[r] EXCEPT !.pc = "sleep", !.wake = Earlier(now + Poll, Cutoff),
                                  !.seen = {}, !.loaded = 0]
  <1>1. ex \in [Routes -> ExType]
    BY DEF TypeOK, ExType
  <1>2. ex' = [ex EXCEPT ![r] = new]
    BY Zenon DEF Sleep
  <1>3. new.pc = "sleep" /\ new.left = ex[r].left /\ new.picks = ex[r].picks
    BY <1>1 DEF ExType
  <1> HIDE DEF new
  <1>4. Covering(new)
    BY <1>3 DEF Covering, Resolving
  <1> QED BY <1>1, <1>2, <1>3, <1>4

\* Where only one execution changes, and no portfolio, coverage is kept.
LEMMA CoverFrame ==
    ASSUME TypeOK, CoverInv, Only, NEW r \in Routes,
           Covering(ex'[r]), ex'[r].pc # "header",
           \A q \in Routes \ {r} : ex'[q] = ex[q]
    PROVE  CoverInv'
  <1>1. \A q \in Routes \ {r} : Attempt(q)' = Attempt(q)
    BY DEF Attempt
  <1> QED BY <1>1 DEF CoverInv, Only, HeaderHasEntries, Covering, Covers

\* No execution has selected anything at first.
LEMMA CoverInit ==
    ASSUME SelectionAssumption, Init
    PROVE  CoverInv
  BY DEF Init, Idle, CoverInv, Covering, Resolving, HeaderHasEntries

\* Every step keeps what has been picked in line with what is left to resolve,
\* and a header in line with its entries.
LEMMA CoverStep ==
    ASSUME SelectionAssumption, TypeOK, CoverInv, [Next]_vars
    PROVE  CoverInv'
  <1> DEFINE Frame == /\ UNCHANGED <<entries, headers, ex>>
  <1>0. Frame => CoverInv'
    BY DEF CoverInv, HeaderHasEntries, Covering, Covers, Attempt
  <1>1. CASE Tick
    BY <1>0, <1>1 DEF Tick
  <1>2. ASSUME NEW a \in Attempts, Stamp(a) PROVE CoverInv'
    BY <1>0, <1>2 DEF Stamp
  <1>3. ASSUME NEW row \in pending, Commit(row) PROVE CoverInv'
    BY <1>0, <1>3 DEF Commit
  <1>t. ex \in [Routes -> ExType]
    BY DEF TypeOK, ExType
  <1>c. \A r \in Routes : Covering(ex[r])
    BY DEF CoverInv
  <1>4. ASSUME NEW r \in Routes, Start(r) PROVE CoverInv'
    <2>1. ex'[r].pc = "load" /\ ex'[r].left = Providers /\ ex'[r].picks = {}
      BY <1>4, <1>t, <1>c DEF Start, At, ExType, Covering
    <2>2. Covering(ex'[r])
      BY <2>1 DEF Covering, Resolving, Providers, SelectionAssumption
    <2> QED BY <1>4, <1>t, <2>1, <2>2, CoverFrame DEF Start
  <1>5. ASSUME NEW r \in Routes, Load(r) PROVE CoverInv'
    <2>1. /\ ex'[r].pc = "judge" /\ ex'[r].left = ex[r].left /\ ex'[r].picks = ex[r].picks
          /\ ex'[r].seen = {m \in manifest : m.provider = Provider(r) /\ InWindow(m)}
          /\ ex[r].pc = "load"
      BY <1>5, <1>t DEF Load, At, ExType
    <2>2. Covering(ex'[r])
      BY <1>c, <2>1 DEF Covering, Resolving, Provider
    <2> QED BY <1>5, <1>t, <2>1, <2>2, CoverFrame DEF Load
  <1>6. ASSUME NEW r \in Routes, Judge(r) PROVE CoverInv'
    <2> DEFINE latest == LatestAttempts(ex[r].seen)
               same == {m \in latest : m.build \in Today}
               fallback == latest \ same
    <2>1. \/ same # {} /\ Pick(r, same, "READY_FOR_NEXTADS")
          \/ fallback # {} /\ Pick(r, fallback, "FALLBACK_PREVIOUS")
          \/ Provider(r) \notin Serving /\ Skip(r)
          \/ Fail(r) \/ Sleep(r, Cutoff)
      BY <1>6 DEF Judge
    <2>2. same \in SUBSET ex[r].seen /\ fallback \in SUBSET ex[r].seen
      BY DEF LatestAttempts
    <2>3. ex[r].pc = "judge" /\ Only
      BY <1>6 DEF Judge, At
    <2> HIDE DEF same, fallback, latest
    <2>4. /\ Covering(ex'[r]) /\ ex'[r].pc # "header"
          /\ \A q \in Routes \ {r} : ex'[q] = ex[q]
      <3>1. CASE same # {} /\ Pick(r, same, "READY_FOR_NEXTADS")
        BY <3>1, <1>c, <2>2, <2>3, PickCovers
      <3>2. CASE fallback # {} /\ Pick(r, fallback, "FALLBACK_PREVIOUS")
        BY <3>2, <1>c, <2>2, <2>3, PickCovers
      <3>3. CASE Provider(r) \notin Serving /\ Skip(r)
        BY <3>3, <1>c, <2>3, SkipCovers
      <3>4. CASE Fail(r)
        BY <3>4, <1>c, FailCovers
      <3>5. CASE Sleep(r, Cutoff)
        BY <3>5, <1>c, <2>3, SleepCovers
      <3> QED BY <2>1, <3>1, <3>2, <3>3, <3>4, <3>5
    <2> QED BY <2>3, <2>4, CoverFrame
  <1>7. ASSUME NEW r \in Routes, Wake(r) PROVE CoverInv'
    <2>1. /\ ex'[r].pc = "load" /\ ex'[r].left = ex[r].left /\ ex'[r].picks = ex[r].picks
          /\ ex[r].pc = "sleep"
      BY <1>7, <1>t DEF Wake, At, ExType
    <2>2. Covering(ex'[r])
      BY <1>c, <2>1 DEF Covering, Resolving
    <2> QED BY <1>7, <1>t, <2>1, <2>2, CoverFrame DEF Wake
  <1>8. ASSUME NEW r \in Routes, Bind(r) PROVE CoverInv'
    <2> DEFINE new == [ex[r] EXCEPT !.pc = "header", !.picks = {}]
    <2>1. ex' = [ex EXCEPT ![r] = new]
      BY <1>8, Zenon DEF Bind
    <2>2. new.pc = "header" /\ new.count = ex[r].count
      BY <1>t DEF ExType
    <2> HIDE DEF new
    <2>3. ex'[r] = new /\ \A q \in Routes \ {r} : ex'[q] = ex[q]
      BY <1>t, <2>1
    <2>4. /\ entries' = [entries EXCEPT ![Attempt(r)] = ex[r].picks]
          /\ headers' = headers /\ entries \in [Executions -> SUBSET Picks]
          /\ headers \in SUBSET Executions
      BY <1>8 DEF Bind, TypeOK
    <2>5. Covers(ex[r].picks)
      BY <1>8, <1>c DEF Bind, At, Covering, Resolving, Covers
    <2>6. Attempt(r) \in Executions /\ Attempt(r)' = Attempt(r)
      BY AttemptTypes, <2>2, <2>3 DEF Attempt
    <2>7. \A q \in Routes \ {r} : /\ Attempt(q)' = Attempt(q)
                                  /\ Attempt(q) # Attempt(r)
      BY <2>3 DEF Attempt
    <2>8. Covering(new)
      BY <2>2 DEF Covering, Resolving
    <2>9. \A e \in Executions : entries'[e] = IF e = Attempt(r) THEN ex[r].picks ELSE entries[e]
      BY <2>4
    <2>10. HeaderHasEntries'
      BY <2>4, <2>5, <2>9 DEF HeaderHasEntries, CoverInv, Covers
    <2>11. \A q \in Routes \ {r} : /\ Covering(ex'[q])
                                   /\ ex'[q].pc = "header" => Covers(entries'[Attempt(q)'])
      BY <2>3, <2>7, <2>9, AttemptTypes DEF CoverInv
    <2>12. Covering(ex'[r]) /\ Covers(entries'[Attempt(r)'])
      BY <2>3, <2>5, <2>6, <2>8, <2>9
    <2> QED BY <2>10, <2>11, <2>12 DEF CoverInv, Covering, Covers
  <1>9. ASSUME NEW r \in Routes, Header(r) PROVE CoverInv'
    <2>1. /\ ex[r].pc = "header" /\ ex' = [ex EXCEPT ![r].pc = "values"]
          /\ headers' = headers \cup {Attempt(r)} /\ entries' = entries
      BY <1>9 DEF Header, At, Go
    <2>2. ex'[r].pc = "values" /\ \A q \in Routes \ {r} : ex'[q] = ex[q]
      BY <1>t, <2>1 DEF ExType
    <2>3. Covering(ex'[r])
      BY <2>2 DEF Covering, Resolving
    <2>4. \A q \in Routes \ {r} : Attempt(q)' = Attempt(q)
      BY <2>2 DEF Attempt
    <2>5. HeaderHasEntries'
      BY <2>1 DEF HeaderHasEntries, CoverInv, Covers
    <2> QED BY <2>1, <2>2, <2>3, <2>4, <2>5 DEF CoverInv, Covering, Covers
  <1>10. ASSUME NEW r \in Routes, Values(r) PROVE CoverInv'
    <2>1. ex'[r].pc = "done" /\ \A q \in Routes \ {r} : ex'[q] = ex[q]
      BY <1>10, <1>t DEF Values, Go, ExType
    <2>2. Covering(ex'[r])
      BY <2>1 DEF Covering, Resolving
    <2> QED BY <1>10, <2>1, <2>2, CoverFrame DEF Values
  <1>11. ASSUME NEW r \in Routes, Crash(r) PROVE CoverInv'
    <2>1. Fail(r) /\ Only
      BY <1>11 DEF Crash
    <2>2. /\ Covering(ex'[r]) /\ ex'[r].pc # "header"
          /\ \A q \in Routes \ {r} : ex'[q] = ex[q]
      BY <1>c, <2>1, FailCovers
    <2> QED BY <2>1, <2>2, CoverFrame
  <1>12. CASE UNCHANGED vars
    BY <1>0, <1>12 DEF vars
  <1> QED
    BY <1>1, <1>2, <1>3, <1>4, <1>5, <1>6, <1>7, <1>8, <1>9, <1>10, <1>11, <1>12
       DEF Next, Publish, Step

(***************************************************************************)
(* A fallback was the last resort when it was taken, and stays so: what a  *)
(* prompt publisher commits later has a later time.                        *)
(***************************************************************************)

\* A pick as FallbackIsLastResort wants it, taken no later than now.
Honest(x) ==
    /\ x.loaded <= now
    /\ x.status = "FALLBACK_PREVIOUS" =>
        /\ x.row.build \in Yesterday
        /\ x.row.provider \in Serving => now >= Cutoff
        /\ prompt => ~\E m \in manifest :
                         /\ m.provider = x.row.provider /\ m.build \in Today
                         /\ InWindow(m) /\ m.at < x.loaded

\* What an execution saw is what its last look could have seen.
SawAll(r) ==
    ex[r].pc = "judge" =>
        /\ ex[r].loaded <= now
        /\ \A m \in ex[r].seen : InWindow(m) /\ m.provider = Provider(r)
        /\ prompt => \A m \in manifest :
               m.provider = Provider(r) /\ InWindow(m) /\ m.at < ex[r].loaded => m \in ex[r].seen

LastInv ==
    /\ prompt => \A m \in pending : m.at = now
    /\ \A r \in Routes : SawAll(r)
    /\ \A x \in AllPicks : Honest(x)

\* A row that was not there yet when a prompt publisher's clock showed t is
\* committed with a time that is not before t.
LEMMA NothingEarlier ==
    ASSUME SelectionAssumption, TypeOK, LastInv, [Next]_vars
    PROVE  /\ now \in Nat /\ now' \in Nat /\ now <= now' /\ prompt' = prompt
           /\ prompt => \A m \in manifest' : m \in manifest \/ m.at = now
           /\ (prompt => \A m \in pending : m.at = now)'
  <1>1. now \in Nat /\ MaxClock \in Nat
    BY DEF TypeOK, SelectionAssumption
  <1> DEFINE P == prompt => \A m \in pending : m.at = now
             Still == /\ manifest' = manifest /\ prompt' = prompt /\ now' = now
                      /\ pending' = pending
             Goal == /\ now' \in Nat /\ now <= now' /\ prompt' = prompt
                     /\ prompt => \A m \in manifest' : m \in manifest \/ m.at = now
                     /\ P'
  <1>2. P
    BY DEF LastInv
  <1>3. CASE Tick
    BY <1>1, <1>3 DEF Tick
  <1>4. ASSUME NEW a \in Attempts, Stamp(a) PROVE Goal
    BY <1>1, <1>2, <1>4 DEF Stamp, Row
  <1>5. ASSUME NEW row \in pending, Commit(row) PROVE Goal
    BY <1>1, <1>2, <1>5 DEF Commit
  <1>6. CASE Still
    BY <1>1, <1>2, <1>6
  <1>7. ASSUME NEW r \in Routes, Step(r) \/ Crash(r) PROVE Still
    BY <1>7 DEF Step, Start, Load, Judge, Wake, Bind, Header, Values, Crash, Only
  <1>8. CASE UNCHANGED vars
    BY <1>6, <1>8 DEF vars
  <1> QED
    BY <1>1, <1>3, <1>4, <1>5, <1>6, <1>7, <1>8 DEF Next, Publish

\* A pick stays honest, whatever happens.
LEMMA HonestStays ==
    ASSUME SelectionAssumption, TypeOK, LastInv, [Next]_vars,
           NEW x \in Picks, Honest(x)
    PROVE  Honest(x)'
  <1>1. x.loaded \in Nat /\ Cutoff \in Nat
    BY DEF Picks, SelectionAssumption
  <1> QED BY <1>1, NothingEarlier DEF Honest, InWindow

\* So does what an execution saw, until it judges it.
LEMMA SawStays ==
    ASSUME SelectionAssumption, TypeOK, LastInv, [Next]_vars,
           NEW r \in Routes, ex'[r] = ex[r]
    PROVE  SawAll(r)'
  <1>1. ex[r].loaded \in Nat
    BY DEF TypeOK
  <1>2. SawAll(r) /\ Provider(r)' = Provider(r)
    BY DEF LastInv, Provider
  <1> QED BY <1>1, <1>2, NothingEarlier DEF SawAll, InWindow

\* What a look finds of what it saw.
Latest(r) == LatestAttempts(ex[r].seen)
Same(r) == {m \in Latest(r) : m.build \in Today}
Fallback(r) == Latest(r) \ Same(r)
NewPick(r, rows, status) ==
    [row |-> LatestReady(rows), status |-> status, loaded |-> ex[r].loaded]

\* A look adds at most one pick.
LEMMA JudgedPick ==
    ASSUME SelectionAssumption, TypeOK, NEW r \in Routes, Judge(r),
           NEW x, x \in ex'[r].picks, x \notin ex[r].picks
    PROVE  \/ /\ Same(r) # {}
              /\ x = NewPick(r, Same(r), "READY_FOR_NEXTADS")
           \/ /\ Same(r) = {} /\ Fallback(r) # {}
              /\ x = NewPick(r, Fallback(r), "FALLBACK_PREVIOUS")
              /\ ~(Provider(r) \in Serving /\ now < Cutoff)
  <1>1. ex \in [Routes -> ExType] /\ ex[r].seen \in SUBSET Rows
    BY DEF TypeOK, ExType
  <1>2. Same(r) \in SUBSET Rows /\ Fallback(r) \in SUBSET Rows
    BY <1>1 DEF Same, Fallback, Latest, LatestAttempts
  <1>3. ASSUME NEW rows \in SUBSET Rows, rows # {}, NEW status, Pick(r, rows, status)
        PROVE  x = NewPick(r, rows, status)
    <2>1. Resolved(r).picks = ex[r].picks /\ Resolved(r) \in ExType
      <3> DEFINE left == ex[r].left \ {Provider(r)}
                 next == IF left = {} THEN "bind" ELSE "load"
      <3>1. Resolved(r) = [ex[r] EXCEPT !.pc = next, !.left = left, !.seen = {}, !.loaded = 0]
        BY Zenon DEF Resolved
      <3> HIDE DEF next, left
      <3> QED BY <1>1, <3>1, ResolvedTypes DEF ExType
    <2> DEFINE e == [Resolved(r) EXCEPT !.picks = @ \cup {NewPick(r, rows, status)}]
    <2>2. ex' = [ex EXCEPT ![r] = e]
      BY <1>3, Zenon DEF Pick, NewPick
    <2>3. e.picks = ex[r].picks \cup {NewPick(r, rows, status)}
      BY <2>1 DEF ExType
    <2>4. ex'[r] = e
      <3> HIDE DEF e
      <3> QED BY <1>1, <2>2
    <2> HIDE DEF e
    <2> QED BY <2>3, <2>4
  <1>4. ASSUME Skip(r) \/ Fail(r) \/ Sleep(r, Cutoff) PROVE FALSE
    <2>1. CASE Skip(r)
      <3> DEFINE left == ex[r].left \ {Provider(r)}
                 next == IF left = {} THEN "bind" ELSE "load"
      <3>1. Resolved(r) = [ex[r] EXCEPT !.pc = next, !.left = left, !.seen = {}, !.loaded = 0]
        BY Zenon DEF Resolved
      <3>2. Resolved(r).picks = ex[r].picks
        <4> HIDE DEF next, left
        <4> QED BY <1>1, <3>1 DEF ExType
      <3> QED BY <1>1, <2>1, <3>2 DEF Skip
    <2>2. CASE Fail(r)
      BY <1>1, <2>2 DEF Fail, Idle, ExType
    <2>3. CASE Sleep(r, Cutoff)
      BY <1>1, <2>3 DEF Sleep, ExType
    <2> QED BY <1>4, <2>1, <2>2, <2>3
  <1>5. \/ Same(r) # {} /\ Pick(r, Same(r), "READY_FOR_NEXTADS")
        \/ /\ Same(r) = {} /\ Fallback(r) # {} /\ Pick(r, Fallback(r), "FALLBACK_PREVIOUS")
           /\ ~(Provider(r) \in Serving /\ now < Cutoff)
        \/ Skip(r) \/ Fail(r) \/ Sleep(r, Cutoff)
    BY DEF Judge, Same, Fallback, Latest
  <1> QED BY <1>2, <1>3, <1>4, <1>5

\* What a look selects is honest.
LEMMA JudgedHonest ==
    ASSUME SelectionAssumption, TypeOK, LastInv, NEW r \in Routes, Judge(r),
           NEW x, x \in ex'[r].picks, x \notin ex[r].picks
    PROVE  Honest(x)
  <1>1. ex[r].seen \in SUBSET Rows
    BY DEF TypeOK
  <1>2. /\ ex[r].pc = "judge" /\ ex[r].loaded <= now
        /\ \A m \in ex[r].seen : InWindow(m) /\ m.provider = Provider(r)
        /\ prompt => \A m \in manifest :
               m.provider = Provider(r) /\ InWindow(m) /\ m.at < ex[r].loaded => m \in ex[r].seen
    BY DEF Judge, At, LastInv, SawAll
  <1>3. CASE x = NewPick(r, Same(r), "READY_FOR_NEXTADS")
    BY <1>2, <1>3 DEF Honest, NewPick
  <1>4. CASE /\ Same(r) = {} /\ Fallback(r) # {}
             /\ x = NewPick(r, Fallback(r), "FALLBACK_PREVIOUS")
             /\ ~(Provider(r) \in Serving /\ now < Cutoff)
    <2>1. Fallback(r) \in SUBSET Rows
      BY <1>1 DEF Latest, Fallback, LatestAttempts
    <2>2. x.row \in Fallback(r) /\ x.loaded = ex[r].loaded /\ x.status = "FALLBACK_PREVIOUS"
      BY <1>4, <2>1, LatestReadyIsOne DEF NewPick
    <2>3. x.row \in ex[r].seen /\ x.row.build \in Yesterday /\ x.row.provider = Provider(r)
      BY <1>2, <2>2 DEF Same, Fallback, Latest, LatestAttempts, InWindow
    <2>4. ASSUME NEW m \in ex[r].seen PROVE m.build \notin Today
      <3>1. PICK n \in LatestAttempts(ex[r].seen) : n.build = m.build
        BY <1>1, LatestAttemptExists
      <3> QED BY <1>4, <3>1 DEF Same, Latest
    <2>5. now \in Nat /\ Cutoff \in Nat
      BY DEF TypeOK, SelectionAssumption
    <2> QED BY <1>2, <1>4, <2>2, <2>3, <2>4, <2>5 DEF Honest
  <1> QED BY <1>3, <1>4, JudgedPick

\* What is selected is kept by an execution or by a portfolio.
LEMMA PicksAre ==
    ASSUME NEW x
    PROVE  /\ x \in AllPicks <=> \/ \E e \in Executions : x \in entries[e]
                                \/ \E r \in Routes : x \in ex[r].picks
           /\ x \in AllPicks' <=> \/ \E e \in Executions : x \in entries'[e]
                                 \/ \E r \in Routes : x \in ex'[r].picks
  <1>1. x \in AllPicks <=> \/ x \in UNION {entries[e] : e \in Executions}
                          \/ x \in UNION {ex[r].picks : r \in Routes}
    BY SMT DEF AllPicks
  <1>2. x \in AllPicks' <=> \/ x \in UNION {entries'[e] : e \in Executions}
                           \/ x \in UNION {ex'[r].picks : r \in Routes}
    BY SMT DEF AllPicks
  <1>3. /\ x \in UNION {entries[e] : e \in Executions}
               <=> \E e \in Executions : x \in entries[e]
        /\ x \in UNION {entries'[e] : e \in Executions}
               <=> \E e \in Executions : x \in entries'[e]
    BY SMT
  <1>4. /\ x \in UNION {ex[r].picks : r \in Routes} <=> \E r \in Routes : x \in ex[r].picks
        /\ x \in UNION {ex'[r].picks : r \in Routes} <=> \E r \in Routes : x \in ex'[r].picks
    BY SMT
  <1> QED BY <1>1, <1>2, <1>3, <1>4

\* Every pick has been there before, or has just been judged.
LEMMA PicksFrom ==
    ASSUME SelectionAssumption, TypeOK, CoverInv, [Next]_vars, NEW x \in AllPicks'
    PROVE  \/ x \in AllPicks
           \/ \E r \in Routes : Judge(r) /\ x \in ex'[r].picks /\ x \notin ex[r].picks
  <1>1. /\ ex \in [Routes -> ExType] /\ entries \in [Executions -> SUBSET Picks]
        /\ \A r \in Routes : Covering(ex[r])
    BY DEF TypeOK, ExType, CoverInv
  <1>2. CASE entries' = entries /\ \A r \in Routes : ex'[r].picks \subseteq ex[r].picks
    BY <1>2, PicksAre
  <1>3. CASE UNCHANGED <<entries, ex>>
    BY <1>2, <1>3
  <1>4. ASSUME NEW r \in Routes, Start(r) \/ Load(r) \/ Wake(r) \/ Header(r) \/ Values(r)
        PROVE  x \in AllPicks
    <2>1. entries' = entries
      BY <1>4 DEF Start, Load, Wake, Header, Values, Only
    <2>2. \A q \in Routes : ex'[q].picks = ex[q].picks
      BY <1>1, <1>4 DEF Start, Load, Wake, Header, Values, Go, ExType
    <2> QED BY <1>2, <2>1, <2>2
  <1>5. ASSUME NEW r \in Routes, Bind(r) PROVE x \in AllPicks
    <2>1. entries' = [entries EXCEPT ![Attempt(r)] = ex[r].picks]
      BY <1>5 DEF Bind
    <2>2. \A e \in Executions : entries'[e] = entries[e] \/ entries'[e] = ex[r].picks
      BY <1>1, <2>1
    <2> DEFINE new == [ex[r] EXCEPT !.pc = "header", !.picks = {}]
    <2>3. ex' = [ex EXCEPT ![r] = new] /\ new.picks = {}
      BY <1>1, <1>5, Zenon DEF Bind, ExType
    <2> HIDE DEF new
    <2>4. ASSUME NEW q \in Routes PROVE ex'[q].picks \subseteq ex[q].picks
      <3>1. CASE q = r
        BY <1>1, <2>3, <3>1
      <3>2. CASE q # r
        BY <1>1, <2>3, <3>2
      <3> QED BY <3>1, <3>2
    <2> QED BY <2>2, <2>4, PicksAre
  <1>6. ASSUME NEW r \in Routes, Fail(r), Only PROVE x \in AllPicks
    <2>1. \A q \in Routes : ex'[q].picks \subseteq ex[q].picks
      BY <1>1, <1>6 DEF Fail, Idle, ExType
    <2> QED BY <1>2, <1>6, <2>1 DEF Only
  <1>7. ASSUME NEW r \in Routes, Judge(r)
        PROVE  x \in AllPicks \/ (x \in ex'[r].picks /\ x \notin ex[r].picks)
    <2>1. entries' = entries
      BY <1>7 DEF Judge, Only
    <2>2. ASSUME NEW q \in Routes, q # r PROVE ex'[q] = ex[q]
      BY <1>1, <1>7, <2>2 DEF Judge, Pick, Skip, Fail, Sleep
    <2> QED BY <2>1, <2>2, PicksAre
  <1> QED
    BY <1>3, <1>4, <1>5, <1>6, <1>7
       DEF Next, Publish, Step, Tick, Stamp, Commit, Crash, vars

\* There is no pick at first.
LEMMA LastInit ==
    ASSUME SelectionAssumption, Init
    PROVE  LastInv
  BY DEF Init, Idle, LastInv, SawAll, AllPicks

\* An execution that has something to judge has just loaded it, or had it.
LEMMA JudgesWhatItLoaded ==
    ASSUME SelectionAssumption, TypeOK, [Next]_vars, NEW r \in Routes
    PROVE  ex'[r] = ex[r] \/ Load(r) \/ ex'[r].pc # "judge"
  <1>t. ex \in [Routes -> ExType] /\ now \in Nat
    BY DEF TypeOK, ExType, SelectionAssumption
  <1>4. ASSUME NEW q \in Routes, Step(q) \/ Crash(q), ~Load(q), r = q
        PROVE  ex'[r].pc # "judge"
    <2>1. CASE Judge(r)
      <3>1. Resolved(r).pc # "judge" /\ Resolved(r) \in ExType
        <4> DEFINE left == ex[r].left \ {Provider(r)}
                   next == IF left = {} THEN "bind" ELSE "load"
        <4>1. Resolved(r) = [ex[r] EXCEPT !.pc = next, !.left = left, !.seen = {},
                                          !.loaded = 0]
          BY Zenon DEF Resolved
        <4>2. next # "judge"
          OBVIOUS
        <4> HIDE DEF next, left
        <4> QED BY <1>t, <4>1, <4>2, ResolvedTypes DEF ExType
      <3>2. ASSUME NEW rows, NEW status, Pick(r, rows, status) PROVE ex'[r].pc # "judge"
        <4> DEFINE e == [Resolved(r) EXCEPT !.picks = @ \cup {
                           [row |-> LatestReady(rows), status |-> status,
                            loaded |-> ex[r].loaded]}]
        <4>1. ex' = [ex EXCEPT ![r] = e]
          BY <3>2, Zenon DEF Pick
        <4>2. e.pc # "judge"
          BY <3>1 DEF ExType
        <4> HIDE DEF e
        <4> QED BY <1>t, <4>1, <4>2
      <3>3. Skip(r) => ex'[r].pc # "judge"
        BY <1>t, <3>1 DEF Skip
      <3>4. Fail(r) => ex'[r].pc # "judge"
        BY <1>t DEF Fail, Idle, ExType
      <3>5. Sleep(r, Cutoff) => ex'[r].pc # "judge"
        BY <1>t DEF Sleep, ExType
      <3> QED BY <2>1, <3>2, <3>3, <3>4, <3>5 DEF Judge
    <2>2. CASE Bind(r)
      BY <1>t, <2>2 DEF Bind, ExType
    <2>3. CASE Start(r) \/ Wake(r) \/ Header(r) \/ Values(r)
      BY <1>t, <2>3 DEF Start, Wake, Header, Values, Go, ExType
    <2>4. CASE Crash(r)
      BY <1>t, <2>4 DEF Crash, At, Fail, Idle, ExType
    <2> QED BY <1>4, <2>1, <2>2, <2>3, <2>4 DEF Step
  <1>5. ASSUME NEW q \in Routes, Step(q) \/ Crash(q), r # q
        PROVE  ex'[r] = ex[r]
    BY <1>t, <1>5
       DEF Step, Start, Load, Judge, Wake, Bind, Header, Values, Crash, Go,
           Pick, Skip, Fail, Sleep
  <1> QED
    BY <1>4, <1>5 DEF Next, Publish, Tick, Stamp, Commit, vars

\* Every step keeps fallbacks last resorts.
LEMMA LastStep ==
    ASSUME SelectionAssumption, TypeOK, CoverInv, LastInv, [Next]_vars
    PROVE  LastInv'
  <1>1. (prompt => \A m \in pending : m.at = now)'
    BY NothingEarlier
  <1>2. ASSUME NEW x \in AllPicks' PROVE Honest(x)'
    <2>1. TypeOK'
      BY TypeStep
    <2>2. x \in Picks
      <3>1. entries' \in [Executions -> SUBSET Picks] /\ ex' \in [Routes -> ExType]
        BY <2>1 DEF TypeOK, ExType, Executions, Picks, Rows
      <3>2. \A e \in Executions : entries'[e] \in SUBSET Picks
        BY <3>1
      <3>3. \A q \in Routes : ex'[q].picks \in SUBSET Picks
        BY <3>1 DEF ExType
      <3> QED BY <3>2, <3>3, PicksAre
    <2>3. Honest(x)
      BY <2>2, PicksFrom, JudgedHonest DEF LastInv
    <2> QED BY <2>2, <2>3, HonestStays
  <1>3. ASSUME NEW r \in Routes PROVE SawAll(r)'
    <2>t. ex \in [Routes -> ExType] /\ now \in Nat
      BY DEF TypeOK, ExType, SelectionAssumption
    <2>1. CASE ex'[r] = ex[r]
      BY <2>1, SawStays
    <2>2. CASE Load(r)
      <3>1. /\ ex'[r].loaded = now /\ ex'[r].left = ex[r].left
            /\ ex'[r].seen = {m \in manifest : m.provider = Provider(r) /\ InWindow(m)}
            /\ now' = now /\ manifest' = manifest /\ prompt' = prompt
        BY <2>2, <2>t DEF Load, Only, ExType
      <3> QED BY <2>t, <3>1 DEF SawAll, Provider, InWindow
    <2> QED
      BY <2>1, <2>2, JudgesWhatItLoaded DEF SawAll
  <1> QED BY <1>1, <1>2, <1>3 DEF LastInv

(***************************************************************************)
(* The theorems.                                                           *)
(***************************************************************************)

IInv == TypeOK /\ CoverInv /\ LastInv

\* The inductive invariant: types, coverage of the picks, and what the last
\* look of an execution saw.
THEOREM Invariance == Spec => []IInv
  <1>1. SelectionAssumption
    BY SelectionAssumption
  <1>2. Init => IInv
    BY <1>1, TypeInit, CoverInit, LastInit DEF IInv
  <1>3. IInv /\ [Next]_vars => IInv'
    BY <1>1, TypeStep, CoverStep, LastStep DEF IInv
  <1> QED BY <1>2, <1>3, PTL DEF Spec

\* The manifest, the portfolios and the executions keep their types.
THEOREM SelectionTypes == Spec => []TypeOK
  <1>1. IInv => TypeOK
    BY DEF IInv
  <1> QED BY <1>1, Invariance, PTL

\* A READY header always stands over entries for every serving provider and at
\* most one for any, whatever is lost or run again.
THEOREM HeadersBacked == Spec => []HeaderHasEntries
  <1>1. IInv => HeaderHasEntries
    BY DEF IInv, CoverInv
  <1> QED BY <1>1, Invariance, PTL

\* A fallback is taken only where no build of the day was there to see, and by
\* a serving route only at the cutoff.
THEOREM FallbackLast == Spec => []FallbackIsLastResort
  <1>1. IInv => FallbackIsLastResort
    BY DEF IInv, LastInv, Honest, FallbackIsLastResort
  <1> QED BY <1>1, Invariance, PTL

(***************************************************************************)
(* Later looks see more.  With prompt publishers a look sees every row of  *)
(* an earlier time, the manifest only grows, and what is committed later   *)
(* has a time that is not before the look: so of two looks the later one   *)
(* saw all that the earlier one saw, and after the cutoff nothing else.    *)
(***************************************************************************)

Visible(m, provider) == m.provider = provider /\ InWindow(m)

\* What a provider's look at some rows selects.
Judged(seen) ==
    LET same == {m \in LatestAttempts(seen) : m.build \in Today}
    IN  LatestReady(IF same # {} THEN same ELSE LatestAttempts(seen) \ same)

\* A look at time t saw all that was there before t, and nothing after it.
SawBy(seen, provider, t) ==
    /\ \A m \in seen : m \in manifest /\ Visible(m, provider) /\ m.at <= t
    /\ \A m \in manifest : Visible(m, provider) /\ m.at < t => m \in seen

\* A pick is what its look selects of what it saw.
Looked(x) ==
    \E seen \in SUBSET manifest :
        /\ seen # {} /\ SawBy(seen, x.row.provider, x.loaded)
        /\ x.row = Judged(seen)

\* A prompt publisher writes the row of an attempt once, when it stamps it.
RowsOnce ==
    /\ \A m \in manifest : m.at <= now
    /\ \A m \in pending : \A n \in manifest : ~IsOf(n, m)
    /\ \A m, n \in pending : IsOf(n, m) => m = n

AgreeInv ==
    prompt =>
        /\ RowsOnce
        /\ \A r \in Routes :
              ex[r].pc = "judge" => SawBy(ex[r].seen, Provider(r), ex[r].loaded)
        /\ \A x \in AllPicks : Looked(x)

\* Of rows that are there, one is selected; it is among the latest attempts,
\* and of the day if any row is.
LEMMA JudgedIsOne ==
    ASSUME SelectionAssumption, NEW seen \in SUBSET Rows, seen # {}
    PROVE  /\ Judged(seen) \in LatestAttempts(seen)
           /\ (\E m \in seen : m.build \in Today) => Judged(seen).build \in Today
  <1> DEFINE same == {m \in LatestAttempts(seen) : m.build \in Today}
             rows == IF same # {} THEN same ELSE LatestAttempts(seen) \ same
  <1>1. LatestAttempts(seen) \in SUBSET seen
    BY DEF LatestAttempts
  <1>2. PICK n \in LatestAttempts(seen) : TRUE
    BY LatestAttemptExists
  <1>3. rows \in SUBSET LatestAttempts(seen) /\ rows # {}
    BY <1>2
  <1>4. LatestReady(rows) \in rows
    <2>1. rows \in SUBSET Rows
      BY <1>1, <1>3
    <2> HIDE DEF rows
    <2> QED BY <1>3, <2>1, LatestReadyIsOne
  <1>5. Judged(seen) = LatestReady(rows)
    BY DEF Judged
  <1>6. ASSUME NEW m \in seen, m.build \in Today PROVE LatestReady(rows).build \in Today
    <2>1. PICK k \in LatestAttempts(seen) : k.build = m.build
      BY LatestAttemptExists
    <2>2. rows = same
      BY <1>6, <2>1
    <2> QED BY <1>4, <2>2
  <1> QED BY <1>3, <1>4, <1>5, <1>6

\* The manifest of prompt publishers grows, with rows of the present.
LEMMA PromptGrows ==
    ASSUME SelectionAssumption, TypeOK, LastInv, prompt, RowsOnce, [Next]_vars
    PROVE  /\ RowsOnce'
           /\ manifest \subseteq manifest'
  <1>1. now \in Nat /\ \A m \in pending : m.at = now
    BY DEF TypeOK, LastInv
  <1>2. \A m \in pending \cup manifest : m \in Rows /\ m.at \in Nat
    BY DEF TypeOK, Rows
  <1> DEFINE Goal == RowsOnce' /\ manifest \subseteq manifest'
             Still == manifest' = manifest /\ now' = now /\ pending' = pending
  <1>3. CASE Tick
    BY <1>1, <1>2, <1>3 DEF Tick, RowsOnce
  <1>4. ASSUME NEW a \in Attempts, Stamp(a) PROVE Goal
    <2>1. /\ pending' = pending \cup {Row(a)} /\ manifest' = manifest /\ now' = now
          /\ \A m \in pending \cup manifest : ~IsOf(m, a)
      BY <1>4 DEF Stamp
    <2>2. \A m : IsOf(m, Row(a)) <=> IsOf(m, a)
      BY DEF IsOf, Row
    <2>3. \A m : IsOf(Row(a), m) => IsOf(m, a)
      BY DEF IsOf, Row
    <2> QED BY <2>1, <2>2, <2>3 DEF RowsOnce
  <1>5. ASSUME NEW row \in pending, Commit(row) PROVE Goal
    <2>1. /\ pending' = pending \ {row} /\ now' = now
          /\ manifest' = {m \in manifest : ~IsOf(m, row)} \cup {row}
      BY <1>5 DEF Commit
    <2>2. manifest' = manifest \cup {row}
      BY <2>1 DEF RowsOnce
    <2>3. \A m, n : IsOf(m, n) => IsOf(n, m)
      BY DEF IsOf
    <2>4. row.at <= now
      BY <1>1
    <2> QED BY <2>1, <2>2, <2>3, <2>4 DEF RowsOnce
  <1>6. CASE Still
    BY <1>6 DEF RowsOnce
  <1>7. ASSUME NEW r \in Routes, Step(r) \/ Crash(r) PROVE Still
    BY <1>7 DEF Step, Start, Load, Judge, Wake, Bind, Header, Values, Crash, Only
  <1>8. CASE UNCHANGED vars
    BY <1>6, <1>8 DEF vars
  <1> QED
    BY <1>3, <1>4, <1>5, <1>6, <1>7, <1>8 DEF Next, Publish

\* What a look saw stays all there was.
LEMMA SawByStays ==
    ASSUME SelectionAssumption, TypeOK, LastInv, prompt, RowsOnce, [Next]_vars,
           NEW seen, NEW provider, NEW t \in Nat, t <= now, SawBy(seen, provider, t)
    PROVE  SawBy(seen, provider, t)'
  <1>1. manifest \subseteq manifest' /\ \A m \in manifest' : m \in manifest \/ m.at = now
    BY PromptGrows, NothingEarlier
  <1>2. now \in Nat
    BY DEF TypeOK
  <1> QED BY <1>1, <1>2 DEF SawBy, Visible, InWindow

\* So a pick stays what its look selects.
LEMMA LookedStays ==
    ASSUME SelectionAssumption, TypeOK, LastInv, prompt, RowsOnce, [Next]_vars,
           NEW x \in Picks, x.loaded <= now, Looked(x)
    PROVE  Looked(x)'
  <1>1. PICK seen \in SUBSET manifest :
          seen # {} /\ SawBy(seen, x.row.provider, x.loaded) /\ x.row = Judged(seen)
    BY DEF Looked
  <1>2. x.loaded \in Nat
    BY DEF Picks
  <1>3. SawBy(seen, x.row.provider, x.loaded)'
    BY <1>1, <1>2, SawByStays
  <1>4. seen \in SUBSET manifest'
    BY <1>1, PromptGrows
  <1> QED BY <1>1, <1>3, <1>4 DEF Looked

\* A look that selects leaves a pick of what it saw.
LEMMA JudgedLooked ==
    ASSUME SelectionAssumption, TypeOK, AgreeInv, prompt, NEW r \in Routes, Judge(r),
           NEW x, x \in ex'[r].picks, x \notin ex[r].picks
    PROVE  Looked(x)
  <1> DEFINE seen == ex[r].seen
  <1>1. seen \in SUBSET Rows /\ SawBy(seen, Provider(r), ex[r].loaded)
    BY DEF Judge, At, AgreeInv, TypeOK
  <1>2. /\ x.row = Judged(seen) /\ x.loaded = ex[r].loaded /\ LatestAttempts(seen) # {}
    <2>1. CASE Same(r) # {} /\ x = NewPick(r, Same(r), "READY_FOR_NEXTADS")
      BY <2>1 DEF Judged, NewPick, Same, Latest
    <2>2. CASE /\ Same(r) = {} /\ Fallback(r) # {}
               /\ x = NewPick(r, Fallback(r), "FALLBACK_PREVIOUS")
      BY <2>2 DEF Judged, NewPick, Same, Fallback, Latest
    <2> QED BY <2>1, <2>2, JudgedPick
  <1>3. seen # {} /\ seen \in SUBSET manifest
    BY <1>1, <1>2 DEF SawBy, LatestAttempts
  <1>4. Judged(seen) \in seen
    BY <1>1, <1>3, JudgedIsOne DEF LatestAttempts
  <1>5. x.row.provider = Provider(r)
    BY <1>1, <1>2, <1>4 DEF SawBy, Visible
  <1> HIDE DEF seen
  <1> QED BY <1>1, <1>2, <1>3, <1>5 DEF Looked

\* Every step keeps it.
LEMMA AgreeStep ==
    ASSUME SelectionAssumption, IInv, AgreeInv, [Next]_vars
    PROVE  AgreeInv'
  <1> SUFFICES ASSUME prompt' PROVE AgreeInv'
    BY DEF AgreeInv
  <1>0. TypeOK /\ CoverInv /\ LastInv
    BY DEF IInv
  <1>1. prompt
    BY <1>0, NothingEarlier
  <1>2. RowsOnce
    BY <1>1 DEF AgreeInv
  <1>3. RowsOnce'
    BY <1>0, <1>1, <1>2, PromptGrows
  <1>4. ASSUME NEW r \in Routes, ex'[r].pc = "judge"
        PROVE  SawBy(ex[r].seen, Provider(r), ex[r].loaded)'
    <2>1. CASE ex'[r] = ex[r]
      <3>1. SawBy(ex[r].seen, Provider(r), ex[r].loaded)
        BY <1>1, <1>4, <2>1 DEF AgreeInv
      <3>2. ex[r].loaded \in Nat /\ ex[r].loaded <= now
        BY <1>0, <1>4, <2>1 DEF TypeOK, LastInv, SawAll
      <3>3. Provider(r)' = Provider(r)
        BY <2>1 DEF Provider
      <3> DEFINE seen == ex[r].seen
                 provider == Provider(r)
                 t == ex[r].loaded
      <3>4. SawBy(seen, provider, t)'
        <4>1. manifest \subseteq manifest' /\ \A m \in manifest' : m \in manifest \/ m.at = now
          BY <1>0, <1>1, <1>2, PromptGrows, NothingEarlier
        <4>2. seen' = seen /\ provider' = provider /\ t' = t /\ now \in Nat
          BY <1>0, <2>1, <3>3 DEF TypeOK
        <4>3. SawBy(seen, provider, t) /\ t \in Nat /\ t <= now
          BY <3>1, <3>2
        <4> HIDE DEF seen, provider, t
        <4> QED BY <4>1, <4>2, <4>3 DEF SawBy, Visible, InWindow
      <3> QED BY <3>4
    <2>2. CASE Load(r)
      <3>1. ex \in [Routes -> ExType]
        BY <1>0 DEF TypeOK, ExType
      <3>2. /\ ex'[r].loaded = now /\ ex'[r].left = ex[r].left
            /\ ex'[r].seen = {m \in manifest : m.provider = Provider(r) /\ InWindow(m)}
            /\ manifest' = manifest
        BY <2>2, <3>1 DEF Load, Only, ExType
      <3>3. Provider(r)' = Provider(r)
        BY <3>2 DEF Provider
      <3> QED BY <1>2, <3>2, <3>3 DEF RowsOnce, SawBy, Visible, InWindow
    <2> QED BY <1>0, <1>4, <2>1, <2>2, JudgesWhatItLoaded
  <1>5. ASSUME NEW x \in AllPicks' PROVE Looked(x)'
    <2>1. TypeOK' /\ LastInv'
      BY <1>0, TypeStep, LastStep
    <2>2. x \in Picks
      <3>1. entries' \in [Executions -> SUBSET Picks] /\ ex' \in [Routes -> ExType]
        BY <2>1 DEF TypeOK, ExType, Executions, Picks, Rows
      <3>2. \A e \in Executions : entries'[e] \in SUBSET Picks
        BY <3>1
      <3>3. \A q \in Routes : ex'[q].picks \in SUBSET Picks
        BY <3>1 DEF ExType
      <3> QED BY <3>2, <3>3, PicksAre
    <2>3. Looked(x) /\ x.loaded <= now
      BY <1>0, <1>1, PicksFrom, JudgedHonest, JudgedLooked DEF AgreeInv, LastInv, Honest
    <2> QED BY <1>0, <1>1, <1>2, <2>2, <2>3, LookedStays
  <1> QED BY <1>3, <1>4, <1>5 DEF AgreeInv

\* Of two looks for a provider the later one selects no less, and after the
\* cutoff the same.
LEMMA LooksAgree ==
    ASSUME SelectionAssumption, TypeOK, LastInv, AgreeInv
    PROVE  LaterLooksAgree
  <1> SUFFICES ASSUME prompt, NEW x \in AllPicks, NEW y \in AllPicks,
                      x.row.provider = y.row.provider, x.loaded < y.loaded
               PROVE  /\ x.row.build \in Today => y.row.build \in Today
                      /\ x.row.build = y.row.build => x.row.count <= y.row.count
                      /\ Cutoff < x.loaded => x.row = y.row
    BY DEF LaterLooksAgree
  <1>1. x \in Picks /\ y \in Picks
    <2>1. \A e \in Executions : entries[e] \in SUBSET Picks
      BY DEF TypeOK
    <2>2. \A r \in Routes : ex[r].picks \in SUBSET Picks
      BY DEF TypeOK
    <2> QED BY <2>1, <2>2, PicksAre
  <1>2. PICK first \in SUBSET manifest :
          first # {} /\ SawBy(first, x.row.provider, x.loaded) /\ x.row = Judged(first)
    BY DEF AgreeInv, Looked
  <1>3. PICK later \in SUBSET manifest :
          later # {} /\ SawBy(later, y.row.provider, y.loaded) /\ y.row = Judged(later)
    BY DEF AgreeInv, Looked
  <1>4. x.loaded \in Nat /\ y.loaded \in Nat /\ Cutoff \in Nat
    BY <1>1 DEF Picks, SelectionAssumption
  <1>5. \A m \in manifest : m \in Rows /\ m.at \in Nat /\ m.count \in Nat
    BY DEF TypeOK, Rows
  <1>6. first \in SUBSET Rows /\ later \in SUBSET Rows
    BY <1>5
  <1>7. first \subseteq later
    BY <1>2, <1>3, <1>4, <1>5 DEF SawBy
  <1>8. x.row \in first /\ y.row \in LatestAttempts(later) /\ y.row \in later
    BY <1>2, <1>3, <1>6, JudgedIsOne DEF LatestAttempts
  <1>9. x.row.build \in Today => y.row.build \in Today
    BY <1>3, <1>6, <1>7, <1>8, JudgedIsOne
  <1>10. x.row.build = y.row.build => x.row.count <= y.row.count
    BY <1>5, <1>7, <1>8 DEF LatestAttempts, Supersedes
  <1>11. ASSUME Cutoff < x.loaded PROVE x.row = y.row
    <2>1. later \subseteq first
      BY <1>2, <1>3, <1>4, <1>5, <1>11 DEF SawBy, Visible, InWindow
    <2>2. first = later
      BY <1>7, <2>1
    <2> QED BY <1>2, <1>3, <2>2
  <1> QED BY <1>9, <1>10, <1>11

\* With prompt publishers no execution of a route, and no other route, selects
\* less at a later look; after the cutoff every look selects the same output.
THEOREM LaterAgrees == Spec => []LaterLooksAgree
  <1>1. SelectionAssumption
    BY SelectionAssumption
  <1>2. Init => AgreeInv
    BY DEF Init, Idle, AgreeInv, RowsOnce, AllPicks
  <1>3. IInv /\ AgreeInv /\ [Next]_vars => AgreeInv'
    BY <1>1, AgreeStep
  <1>4. IInv /\ AgreeInv => LaterLooksAgree
    BY <1>1, LooksAgree DEF IInv
  <1> QED BY <1>2, <1>3, <1>4, Invariance, PTL DEF Spec
=============================================================================
