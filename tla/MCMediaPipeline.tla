--------------------------- MODULE MCMediaPipeline ---------------------------
(* Small instances of MediaPipeline for TLC.                                *)
EXTENDS MediaPipeline, TLC

CONSTANTS m1, m2, r1, r2, w1, w2

AllVideo == [m \in Media |-> "video"]
ImageAndSvg == [m \in Media |-> IF m = m1 THEN "image" ELSE "svg"]

Symmetric == Permutations(Requests) \cup Permutations(Workers)
=============================================================================
