------------------------------ MODULE MCIngest ------------------------------
(* Requests in flight are interchangeable; no liveness is checked. *)
EXTENDS Ingest, TLC

Symmetry == Permutations(Requests)

=============================================================================
