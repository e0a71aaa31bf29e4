--------------------------- MODULE MCShopAccounts ---------------------------
(* An instance of ShopAccounts small enough for TLC.                       *)
EXTENDS ShopAccounts, TLC

\* Requests of one kind and passwords are alike.
AccountSymmetry ==
  Permutations(Creations) \cup Permutations(Handlers)
    \cup Permutations(Passwords)
=============================================================================
