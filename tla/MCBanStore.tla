----------------------------- MODULE MCBanStore -----------------------------
(* Instances of BanStore for TLC. *)
EXTENDS BanStore, TLC
=============================================================================
