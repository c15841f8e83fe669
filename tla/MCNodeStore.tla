----------------------------- MODULE MCNodeStore ----------------------------
(* Instances of NodeStore for TLC.                                         *)
EXTENDS NodeStore, TLC

CONSTANTS n1, n2, s1, s2, api

\* Both sources list n1, only the second one n2.
MCOffers == [s \in Sources |-> Nodes \cap (IF s = s1 THEN {n1} ELSE {n1, n2})]

\* One process.
AllInApi == [j \in Slots |-> api]
=============================================================================
