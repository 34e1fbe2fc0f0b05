------------------------------- MODULE MCUrlPull -------------------------------
(***************************************************************************)
(* Model checking of UrlPull: three pulls of a board of two jobs.          *)
(***************************************************************************)
EXTENDS UrlPull, TLC

CONSTANTS p1, p2, p3, j1, j2, h1, h2

Symmetry == Permutations(Pull) \cup Permutations(Job) \cup Permutations(Hash)
=============================================================================
