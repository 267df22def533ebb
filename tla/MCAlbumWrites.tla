---------------------------- MODULE MCAlbumWrites ----------------------------
(* Small instances of AlbumWrites. *)
EXTENDS AlbumWrites, FiniteSets, TLC

\* Requests are interchangeable; no liveness property is checked.
Symmetry == Permutations(Requests)

\* Bound: at most one upload is remembered at a time.
OneReceipt == Cardinality({p \in Paths : receipts[p] # {}}) <= 1
=============================================================================
