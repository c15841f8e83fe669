------------------------------- MODULE Ordered -------------------------------
(***************************************************************************)
(* ORDER BY and LIMIT over sets.  before(i, j) says that i comes before j; *)
(* a list is the set of its rows together with the order they are in.      *)
(***************************************************************************)
EXTENDS Integers, FiniteSets

\* The first n rows.
First(S, before(_, _), n) == {i \in S : Cardinality({j \in S : before(j, i)}) < n}

\* The last row.
LastOf(S, before(_, _)) == CHOOSE i \in S : \A j \in S \ {i} : before(j, i)
=============================================================================
