------------------------------- MODULE Queue --------------------------------
(***************************************************************************)
(* The lists of sys/queue.h (TAILQ, SLIST) as sequences.  They stand in a  *)
(* module of their own, apart from the library for sequences, to keep      *)
(* small what a proof about them has to carry.                             *)
(***************************************************************************)
EXTENDS Naturals, Sequences, FiniteSets

\* TAILQ_REMOVE, SLIST_REMOVE: q without its i-th entry.
Removed(q, i) == SubSeq(q, 1, i - 1) \o SubSeq(q, i + 1, Len(q))

\* A walk over q with TAILQ_FOREACH that looks at, or leaves linked, the entries
\* at the positions K: those entries, in their order.
Remaining(q, K) ==
    LET at(k) == CHOOSE i \in K : Cardinality({j \in K : j <= i}) = k
    IN  [k \in 1 .. Cardinality(K) |-> q[at(k)]]

\* e is linked into q.
OnQueue(q, e) == \E i \in 1 .. Len(q) : q[i] = e

=============================================================================
