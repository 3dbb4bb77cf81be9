---------------------------- MODULE MCSendDialog ----------------------------
(* TLC instances of SendDialog: see the MCSendDialog*.cfg files.              *)
EXTENDS SendDialog

=============================================================================
