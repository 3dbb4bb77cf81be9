----------------------------- MODULE MCSeedSend -----------------------------
(* TLC instance of SeedSend: see MCSeedSend.cfg.                             *)
EXTENDS SeedSend

=============================================================================
