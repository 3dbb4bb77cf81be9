-------------------------- MODULE MCBrowserSession --------------------------
(* TLC instances of BrowserSession: see the MCBrowserSession*.cfg files.      *)
EXTENDS BrowserSession, TLC

\* Wallets are interchangeable, and so are the sends.
Symmetry == Permutations(Wallet) \cup Permutations(Sender)
=============================================================================
