---------------------------- MODULE MCLoginBridge ----------------------------
(***************************************************************************)
(* Small instances of LoginBridge.                                         *)
(***************************************************************************)
EXTENDS LoginBridge, TLC

Good == [client |-> "rp", challenge |-> "x1", method |-> "S256", credential |-> TRUE]

\* With and without a credential scope; with and without PKCE's S256.
MCScopes == {Good, [Good EXCEPT !.credential = FALSE]}
MCMethods == {Good, [Good EXCEPT !.method = "plain"], [Good EXCEPT !.challenge = ""]}

Names ==
  Permutations(Tabs) \cup Permutations(TokenCalls) \cup Permutations(AuthIDs)
    \cup Permutations(Sessions) \cup Permutations(Codes) \cup Permutations(Subjects)

=============================================================================
