----------------------------- MODULE MCAdminStore -----------------------------
(* Small instances of AdminStore. *)
EXTENDS AdminStore, TLC

\* Requests, views and names are interchangeable; no liveness is checked.
Symmetry == Permutations(Requests) \cup Permutations(Views) \cup Permutations(Names)
=============================================================================
