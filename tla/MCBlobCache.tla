----------------------------- MODULE MCBlobCache -----------------------------
(* Small instances of BlobCache. *)
EXTENDS BlobCache, TLC

CONSTANTS k1, k2

\* One range as large as the cache, and one half as large.
Sizes == (k1 :> 1) @@ (k2 :> 2)

\* Threads are interchangeable; no liveness property is checked.
Symmetry == Permutations(Threads)
=============================================================================
