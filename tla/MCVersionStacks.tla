--------------------------- MODULE MCVersionStacks ---------------------------
(* Small instances of VersionStacks for TLC.                                *)
EXTENDS VersionStacks, TLC

Interchangeable == Permutations(Media) \cup Permutations(Groups)
                       \cup Permutations(Editors)

(* The properties say nothing of what follows a race; and, as a bound, of   *)
(* the rows that a transaction has read, at most one is committed anew      *)
(* before it ends.                                                          *)
Undisturbed ==
    /\ ~raced
    /\ \A e \in Editors, m, n \in Media :
           tx[e].open /\ rows[m] # tx[e].snap[m] /\ rows[n] # tx[e].snap[n] => m = n
=============================================================================
