----------------------------- MODULE MCAccounts -----------------------------
(***************************************************************************)
(* Small instances of Accounts.                                            *)
(***************************************************************************)
EXTENDS Accounts, TLC

CONSTANTS s1, s2, ann, home

MCAddress == ann :> home

EitherSubscription == Permutations(Subscriptions)

=============================================================================
