----------------------------- MODULE MCWalletLock ----------------------------
(* Instance of WalletLock: two calls of walletpassphrase with timeouts 1 or 3 *)
EXTENDS WalletLock
=============================================================================
