--------------------------- MODULE MCMetadataCache ---------------------------
(* Small instances of MetadataCache. *)
EXTENDS MetadataCache, TLC

UnitTTL == [k \in Keys |-> 1]
ZeroTTL == [k \in Keys |-> 0]

\* Readers are interchangeable; no liveness property is checked.
Symmetry == Permutations(Readers)
=============================================================================
