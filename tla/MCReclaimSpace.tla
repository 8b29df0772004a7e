--------------------------- MODULE MCReclaimSpace ---------------------------
(* Values for model checking ReclaimSpace.                                 *)
EXTENDS ReclaimSpace, TLC

Stages1 == 1 .. 1
Stages2 == 1 .. 2
NoGc    == {}
NoUser  == {}
Rewrites == {"rewrite"}
Deletes  == {"delete"}
EditsAndDeletes == {"inplace", "delete"}

(* Targets, contents, workers and collectors are interchangeable.          *)
Symmetry ==
    Permutations(Targets) \cup Permutations(Contents) \cup Permutations(Workers)
    \cup Permutations(Gcs)
=============================================================================
