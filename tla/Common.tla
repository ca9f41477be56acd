------------------------------- MODULE Common -------------------------------
(* The value every module uses for Python's None and for a missing file.  *)
CONSTANT Nothing
=============================================================================
