--------------------------- MODULE MCPublishCache ---------------------------
(* PublishCache with one rendered body beside the label.                   *)
EXTENDS PublishCache, TLC

MCBodies == <<"raw">>

RequestSymmetry == Permutations(Requests)
=============================================================================
