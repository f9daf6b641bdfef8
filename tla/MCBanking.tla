----------------------------- MODULE MCBanking -----------------------------
(***************************************************************************)
(* A small instance of BankingTools for TLC: an account each of two users  *)
(* and an inactive one, and the amounts zero, one of which two exceed the  *)
(* larger account, and the one that is no number.                          *)
(***************************************************************************)
EXTENDS BankingTools, TLC

CONSTANTS checking, savings, closed, alice, bob

OwnerMap == [a \in Accounts |-> IF a = savings THEN bob ELSE alice]
OpeningBalance == [a \in Accounts |-> IF a = savings THEN 2 ELSE 3]
SomeAmounts == {0, 2, NaN}
DraftSymmetry == Permutations(DraftIds)

=============================================================================
