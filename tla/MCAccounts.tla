----------------------------- MODULE MCAccounts -----------------------------
(* TLC instances of Accounts: see the MCAccounts*.cfg files.                 *)
EXTENDS Accounts

=============================================================================
