-------------------------- MODULE MCDeezerAccounts --------------------------
(* DeezerAccounts for TLC: requests are alike, so safety runs permute them. *)
EXTENDS DeezerAccounts, TLC

=============================================================================
