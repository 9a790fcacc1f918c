--------------------------- MODULE MCPublication ---------------------------
(* Small instances of Publication for TLC                                   *)
EXTENDS Publication, TLC

(* The names of topic and profile are interchangeable *)
TextSymmetry == Permutations(Texts)
=============================================================================
