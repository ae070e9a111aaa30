--------------------------- MODULE MCEvidenceStore ---------------------------
(* Small instances of EvidenceStore. *)
EXTENDS EvidenceStore
=============================================================================
