------------------------------ MODULE MCSessions ------------------------------
(***************************************************************************)
(* Two sessions, two requests, two libraries and three shared links.         *)
(***************************************************************************)
EXTENDS Sessions, TLC

CONSTANTS r1, r2, t1, t2, library, other, s1, s2, s3

MCRequests == {r1, r2}
MCTokens == {t1, t2}
MCLibraries == {library, other}
MCShares == {s1, s2, s3}
MCLibraryOf == (s1 :> library) @@ (s2 :> library) @@ (s3 :> other)

MCAllowances == {{"download"}}

Symmetry == Permutations(MCRequests) \cup Permutations(MCTokens) \cup Permutations({s1, s2})
=============================================================================
