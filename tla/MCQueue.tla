------------------------------ MODULE MCQueue ------------------------------
(* Queue with six blocks: room for three elements, or for two and one that *)
(* fails half way.  No symmetry: the refinement is a temporal property.    *)
EXTENDS Queue
=============================================================================
