------------------------- MODULE MCSourceGovernance -------------------------
(* Instances of SourceGovernance for TLC.                                  *)
EXTENDS SourceGovernance, TLC

\* One process, which runs the fetches and serves the requests.
AllInApi == [f \in Fetchers |-> Api]
=============================================================================
