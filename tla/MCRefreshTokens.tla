--------------------------- MODULE MCRefreshTokens ---------------------------
(***************************************************************************)
(* Small instances of RefreshTokens.                                       *)
(***************************************************************************)
EXTENDS RefreshTokens, TLC

Names ==
  Permutations(RefreshCalls) \cup Permutations(RefreshNames) \cup Permutations(Logins)
    \cup Permutations(RPs) \cup Permutations(RefreshSubjects)

=============================================================================
