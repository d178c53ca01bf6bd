---------------------------- MODULE MCRefreshTokens ----------------------------
(***************************************************************************)
(* Small instances of RefreshTokens for TLC.                               *)
(***************************************************************************)
EXTENDS RefreshTokens, TLC

CONSTANTS t1, t2

TwoTabs == {t1, t2}

\* The tabs are alike.
TabsAlike == Permutations(TwoTabs)

=============================================================================
