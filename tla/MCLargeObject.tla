--------------------------- MODULE MCLargeObject ---------------------------
(* One large object and one small span; the sizes are in LargeObject.cfg.  *)
EXTENDS LargeObject
=============================================================================
