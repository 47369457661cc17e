------------------------- MODULE PortfolioSelection -------------------------
(***************************************************************************)
(* The provider builds a scoring portfolio is bound to                     *)
(* (src/src/next_ads/ranking/provider_selection.py, portfolio_resolution   *)
(* and scoring_manifest, src/jobs/orchestration/                           *)
(* resolve_scoring_portfolio.py), against the publishers that go on        *)
(* writing the manifest while routes read it.                              *)
(*                                                                         *)
(* Every execution of a route selects at the same fixed cutoff.  What it   *)
(* may see is decided by CompletedAt, a time the publisher stamps before   *)
(* it commits the row, so a row can appear after the cutoff it predates.   *)
(***************************************************************************)
EXTENDS Naturals, FiniteSets

CONSTANTS
    Routes,          \* routes that resolve a portfolio
    Serving,         \* providers whose entries serve: a route waits for them
    Optional,        \* providers that are only evaluated
    Today,           \* logical builds of the run date
    Yesterday,       \* those of the day before
    Older,           \* those of earlier days
    MaxCount,        \* bound on the execution count of a build attempt
    Attempts,        \* build attempts that may publish: provider, build, count
    Cutoff,          \* selection_cutoff
    FallbackAge,     \* MAX_FALLBACK_AGE
    Poll,            \* poll_seconds
    MaxClock,        \* bound on the clock
    MaxPublished,    \* bound on the rows written
    MaxExecutions    \* bound on the executions of a route

Providers == Serving \cup Optional
Builds == Today \cup Yesterday \cup Older

ASSUME SelectionAssumption ==
    /\ MaxCount \in Nat
    /\ Attempts \subseteq [provider : Providers, build : Builds, count : 0 .. MaxCount]
    /\ MaxPublished \in Nat /\ MaxExecutions \in Nat \ {0}
    /\ Cutoff \in Nat /\ FallbackAge \in Nat /\ FallbackAge <= Cutoff
    /\ Poll \in Nat \ {0} /\ MaxClock \in Nat /\ Cutoff < MaxClock
    /\ Serving # {} /\ Serving \cap Optional = {}
    /\ Today \cap (Yesterday \cup Older) = {} /\ Yesterday \cap Older = {}

VARIABLES
    prompt,      \* this behaviour's publishers commit when they stamp, and once
    now,         \* the clock
    pending,     \* rows stamped and not yet committed
    manifest,    \* score_provider_builds: READY rows
    entries,     \* portfolio entries of each portfolio attempt
    headers,     \* portfolio attempts with a READY header
    ex           \* the execution of each route

vars == <<prompt, now, pending, manifest, entries, headers, ex>>

Executions == [route : Routes, count : 1 .. MaxExecutions]

Idle(n) == [pc |-> "idle", count |-> n,   \* where it is; its execution count
            left |-> {},                  \* providers still to resolve
            loaded |-> 0, seen |-> {},    \* when it last loaded, and what it saw
            wake |-> 0,                   \* when it is to look again
            picks |-> {}]                 \* what it has selected

Init ==
    /\ prompt \in BOOLEAN
    /\ now = 0
    /\ pending = {} /\ manifest = {}
    /\ entries = [e \in Executions |-> {}] /\ headers = {}
    /\ ex = [r \in Routes |-> Idle(1)]

-----------------------------------------------------------------------------
(* Publishers: publish_provider_build and register_ready_provider_build.   *)

Row(a) == [provider |-> a.provider, build |-> a.build, count |-> a.count, at |-> now]
IsOf(m, a) == m.provider = a.provider /\ m.build = a.build /\ m.count = a.count

\* CompletedAt is read from the clock; the row is not there yet.
Stamp(a) ==
    /\ Cardinality(pending \cup manifest) < MaxPublished
    /\ \A m \in pending \cup (IF prompt THEN manifest ELSE {}) : ~IsOf(m, a)
    /\ pending' = pending \cup {Row(a)}
    /\ UNCHANGED <<prompt, now, manifest, entries, headers, ex>>

\* replace_scope_by_name on the attempt: a publication that is run again after
\* its row was committed moves the row to a later CompletedAt.
Commit(row) ==
    /\ row \in pending
    /\ pending' = pending \ {row}
    /\ manifest' = {m \in manifest : ~IsOf(m, row)} \cup {row}
    /\ UNCHANGED <<prompt, now, entries, headers, ex>>

Tick ==
    /\ now < MaxClock
    /\ prompt => pending = {}
    /\ now' = now + 1
    /\ UNCHANGED <<prompt, pending, manifest, entries, headers, ex>>

-----------------------------------------------------------------------------
(* A route: resolve_scoring_portfolio.                                     *)

At(r, step) == ex[r].pc = step
Go(r, step) == ex' = [ex EXCEPT ![r].pc = step]
Only == UNCHANGED <<prompt, now, pending, manifest, entries, headers>>

\* Providers are resolved one after the other, in a fixed order.
Provider(r) == CHOOSE p \in ex[r].left : TRUE

Start(r) ==
    /\ At(r, "idle") /\ Only
    /\ ex' = [ex EXCEPT ![r].pc = "load", ![r].left = Providers]

\* Mutant: the cutoff does not bound what is loaded.
InAnyWindow(m) == m.build \in Today \cup Yesterday /\ Cutoff - FallbackAge <= m.at

\* load_score_provider_builds, and the same test in select_score_provider_build.
InWindow(m) ==
    /\ m.build \in Today \cup Yesterday
    /\ Cutoff - FallbackAge <= m.at
    /\ m.at <= Cutoff

Load(r) ==
    /\ At(r, "load") /\ Only
    /\ ex' = [ex EXCEPT ![r].pc = "judge", ![r].loaded = now,
                        ![r].seen = {m \in manifest : m.provider = Provider(r) /\ InWindow(m)}]

\* _select_latest_attempts: of one logical build the attempt with the highest
\* execution count, then the latest.
Supersedes(m, n) ==
    m.build = n.build /\ (m.count > n.count \/ (m.count = n.count /\ m.at > n.at))
LatestAttempts(rows) == {n \in rows : \A m \in rows : ~Supersedes(m, n)}

\* _latest_ready; ties are broken by identifiers, in some fixed way.
LatestReady(rows) ==
    CHOOSE m \in rows :
        \A n \in rows : n.at < m.at \/ (n.at = m.at /\ n.count <= m.count)

\* One provider less to resolve.
Resolved(r) ==
    LET left == ex[r].left \ {Provider(r)}
    IN  [ex[r] EXCEPT !.pc = IF left = {} THEN "bind" ELSE "load", !.left = left,
                      !.seen = {}, !.loaded = 0]

Pick(r, rows, status) ==
    LET pick == [row |-> LatestReady(rows), status |-> status, loaded |-> ex[r].loaded]
    IN  ex' = [ex EXCEPT ![r] = [Resolved(r) EXCEPT !.picks = @ \cup {pick}]]

Skip(r) == ex' = [ex EXCEPT ![r] = Resolved(r)]

\* Mutant: one retry too many.
FailsLate(r) ==
    ex' = [ex EXCEPT ![r] = IF @.count <= MaxExecutions THEN Idle(@.count + 1)
                            ELSE [@ EXCEPT !.pc = "failed"]]

\* A failed task is run again with the next execution count.
Fail(r) ==
    ex' = [ex EXCEPT ![r] = IF @.count < MaxExecutions THEN Idle(@.count + 1)
                            ELSE [@ EXCEPT !.pc = "failed"]]

Earlier(m, n) == IF m <= n THEN m ELSE n
Sleep(r, end) ==
    ex' = [ex EXCEPT ![r] = [@ EXCEPT !.pc = "sleep", !.wake = Earlier(now + Poll, end),
                                      !.seen = {}, !.loaded = 0]]

\* Mutant: the wait has no end.
JudgesForever(r) ==
    LET latest == LatestAttempts(ex[r].seen)
        same == {m \in latest : m.build \in Today}
    IN  /\ At(r, "judge") /\ Only
        /\ \/ same # {} /\ Pick(r, same, "READY_FOR_NEXTADS")
           \/ /\ same = {} /\ Provider(r) \notin Serving
              /\ Skip(r)
           \/ /\ same = {} /\ Provider(r) \in Serving
              /\ Sleep(r, MaxClock)

\* Mutant: the latest build wins, of whichever day, and nobody waits.
JudgesLatest(r) ==
    LET latest == LatestAttempts(ex[r].seen)
    IN  /\ At(r, "judge") /\ Only
        /\ \/ latest # {} /\ Pick(r, latest, IF LatestReady(latest).build \in Today
                                             THEN "READY_FOR_NEXTADS"
                                             ELSE "FALLBACK_PREVIOUS")
           \/ latest = {} /\ Fail(r)

\* wait_for_score_provider_build for a serving provider, one look with fallback
\* for the others.  The clock is read after the load.
Judge(r) ==
    LET latest == LatestAttempts(ex[r].seen)
        same == {m \in latest : m.build \in Today}
        fallback == latest \ same
        waits == Provider(r) \in Serving /\ now < Cutoff
    IN  /\ At(r, "judge") /\ Only
        /\ \/ same # {} /\ Pick(r, same, "READY_FOR_NEXTADS")
           \/ /\ same = {} /\ waits
              /\ Sleep(r, Cutoff)
           \/ /\ same = {} /\ ~waits /\ fallback # {}
              /\ Pick(r, fallback, "FALLBACK_PREVIOUS")
           \/ /\ same = {} /\ ~waits /\ fallback = {}
              /\ IF Provider(r) \in Serving THEN Fail(r) ELSE Skip(r)

Wake(r) ==
    /\ At(r, "sleep") /\ now >= ex[r].wake /\ Only
    /\ ex' = [ex EXCEPT ![r].pc = "load", ![r].wake = 0]

Attempt(r) == [route |-> r, count |-> ex[r].count]

\* Mutant: the header is published before the entries.
BindsHeader(r) ==
    /\ At(r, "bind") /\ Go(r, "header")
    /\ headers' = headers \cup {Attempt(r)}
    /\ UNCHANGED <<prompt, now, pending, manifest, entries>>

\* publish_scoring_portfolio: the entries first, the READY header last.
Bind(r) ==
    /\ At(r, "bind")
    /\ ex' = [ex EXCEPT ![r] = [@ EXCEPT !.pc = "header", !.picks = {}]]
    /\ entries' = [entries EXCEPT ![Attempt(r)] = ex[r].picks]
    /\ UNCHANGED <<prompt, now, pending, manifest, headers>>

Header(r) ==
    /\ At(r, "header") /\ Go(r, "values")
    /\ headers' = headers \cup {Attempt(r)}
    /\ UNCHANGED <<prompt, now, pending, manifest, entries>>

\* The task values are set, and the route is done.
Values(r) == At(r, "values") /\ Only /\ Go(r, "done")

\* The driver is lost, or a call raises.
Crash(r) == ex[r].pc \notin {"idle", "done", "failed"} /\ Only /\ Fail(r)

-----------------------------------------------------------------------------
Publish ==
    \/ \E a \in Attempts : Stamp(a)
    \/ \E row \in pending : Commit(row)

Step(r) ==
    Start(r) \/ Load(r) \/ Judge(r) \/ Wake(r) \/ Bind(r) \/ Header(r) \/ Values(r)

Next == Tick \/ Publish \/ \E r \in Routes : Step(r) \/ Crash(r)

Spec == Init /\ [][Next]_vars

\* Time passes and a route at work goes on; nothing has to be published, except
\* that a prompt publisher ends what it has begun.
FairSpec ==
    /\ Spec
    /\ WF_vars(Tick)
    /\ WF_vars(\E row \in pending : Commit(row))
    /\ \A r \in Routes : WF_vars(Step(r))

-----------------------------------------------------------------------------
(* Correctness.                                                            *)

Rows == [provider : Providers, build : Builds, count : 0 .. MaxCount, at : 0 .. MaxClock]
Picks == [row : Rows, status : {"READY_FOR_NEXTADS", "FALLBACK_PREVIOUS"},
          loaded : 0 .. MaxClock]
Steps == {"idle", "load", "judge", "sleep", "bind", "header", "values", "done", "failed"}

\* Types of the manifest, the portfolios and the executions.
TypeOK ==
    /\ prompt \in BOOLEAN /\ now \in 0 .. MaxClock
    /\ pending \subseteq Rows /\ manifest \subseteq Rows
    /\ entries \in [Executions -> SUBSET Picks] /\ headers \subseteq Executions
    /\ ex \in [Routes -> [pc : Steps, count : 1 .. MaxExecutions, left : SUBSET Providers,
                          loaded : 0 .. MaxClock, seen : SUBSET Rows,
                          wake : 0 .. MaxClock, picks : SUBSET Picks]]

AllPicks == (UNION {entries[e] : e \in Executions}) \cup (UNION {ex[r].picks : r \in Routes})

\* The picks cover what serves, and name each provider once.
Covers(picks) ==
    /\ \A p \in Serving : \E x \in picks : x.row.provider = p
    /\ \A x, y \in picks : x.row.provider = y.row.provider => x = y

\* A READY header never stands without the entries it announces: one for each
\* provider that serves, at most one for any, also when the execution that
\* wrote it was lost half-way or run again (publish_scoring_portfolio: "exact
\* entries first and the READY portfolio header last").
HeaderHasEntries == \A e \in headers : Covers(entries[e])

\* A fallback is the last resort: no build of the day that the cutoff admits
\* was there to see at the look before it was taken, and a route that serves
\* from it had waited for the cutoff.  (That look may be before the cutoff, and
\* the decision after it.)
FallbackIsLastResort ==
    \A x \in AllPicks : x.status = "FALLBACK_PREVIOUS" =>
        /\ x.row.build \in Yesterday
        /\ x.row.provider \in Serving => now >= Cutoff
        /\ prompt => ~\E m \in manifest :
                         /\ m.provider = x.row.provider /\ m.build \in Today
                         /\ InWindow(m) /\ m.at < x.loaded

\* Where publishers are prompt, a later look never selects less: it stays with
\* the day, it does not return to a superseded attempt, and two looks after the
\* cutoff, of two routes or of one that is run again, select the same output.
LaterLooksAgree ==
    prompt => \A x, y \in AllPicks :
        x.row.provider = y.row.provider /\ x.loaded < y.loaded =>
            /\ x.row.build \in Today => y.row.build \in Today
            /\ x.row.build = y.row.build => x.row.count <= y.row.count
            /\ Cutoff < x.loaded => x.row = y.row

\* An execution that has begun ends.
ExecutionsEnd ==
    \A r \in Routes : \A n \in 1 .. MaxExecutions :
        ex[r].count = n /\ ex[r].pc # "idle"
            ~> ex[r].count # n \/ ex[r].pc \in {"done", "failed"}
=============================================================================
