---------------------------- MODULE OncePublished ----------------------------
(***************************************************************************)
(* What a build that publishes through Delta receipts promises: the table  *)
(* takes at most one commit of an attempt, and what is published as ready  *)
(* names the commit of its own attempt, for ever.                          *)
(***************************************************************************)
EXTENDS Naturals, Sequences

CONSTANT Attempts

VARIABLES
    commits,  \* the attempt of each commit of the table; the index is its version
    ready     \* published rows: an attempt and the version it is read at

Committed(a) == \E v \in DOMAIN commits : commits[v] = a

OnceInit == commits = << >> /\ ready = {}

Commit(a) ==
    /\ ~Committed(a)
    /\ commits' = Append(commits, a)
    /\ ready' = ready

Publish(v) ==
    /\ v \in DOMAIN commits
    /\ ready' = ready \cup {[attempt |-> commits[v], version |-> v]}
    /\ commits' = commits

OnceNext == (\E a \in Attempts : Commit(a)) \/ (\E v \in DOMAIN commits : Publish(v))

Once == OnceInit /\ [][OnceNext]_<<commits, ready>>
=============================================================================
