--------------------------- MODULE MCNdjsonSource ---------------------------
(* Every input of at most MaxLength bytes. *)
EXTENDS NdjsonSource

CONSTANT MaxLength

MCInputs == UNION {[1..n -> Byte] : n \in 0..MaxLength}
=============================================================================
