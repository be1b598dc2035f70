---------------------------- MODULE MCExportFlow ----------------------------
(* Instance of ExportFlow for TLC. *)
EXTENDS ExportFlow, TLC

\* Requests are interchangeable, and so are clients and downloads; the run
\* checks invariants only.
Symmetry == Permutations(Requests) \cup Permutations(Clients)
                \cup Permutations(Downloads)
=============================================================================
