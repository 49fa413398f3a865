----------------------------- MODULE MCAssetList -----------------------------
(* Instances of AssetList for TLC.                                           *)
EXTENDS AssetList, TLC

Tokens == Permutations(Gas) \cup Permutations(Token \ Gas)

(* The user chooses between merges; the others are of no interest here.     *)
Unhurried == ~used.hasty
=============================================================================
