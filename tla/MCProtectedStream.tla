--------------------------- MODULE MCProtectedStream ---------------------------
(* ProtectedStream with structured previews only.                                *)
EXTENDS ProtectedStream

Previews == {"json"}
=============================================================================
