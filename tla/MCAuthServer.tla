---------------------------- MODULE MCAuthServer ----------------------------
(***************************************************************************)
(* Instances of AuthServer for TLC.                                        *)
(***************************************************************************)
EXTENDS AuthServer, TLC

Fresh == [requestURI |-> FALSE, attested |-> "c1", responseType |-> "code",
          challenge |-> "x1", method |-> "S256", proof |-> "key1",
          jkt |-> Absent, clientID |-> "c1", issuerState |-> Absent,
          scope |-> "pid", redirectURI |-> "valid"]

Offer == [Fresh EXCEPT !.attested = "c2", !.challenge = "x2",
                       !.proof = Absent, !.issuerState = "offer"]

MCParInputs == {Fresh, Offer}

MCTokenInputs ==
  {[attested |-> "c1", clientID |-> Absent, proof |-> "key1",
    verifier |-> "x1"],
   [attested |-> "c2", clientID |-> Absent, proof |-> "key1",
    verifier |-> "x2"],
   [attested |-> "c2", clientID |-> Absent, proof |-> "key1",
    verifier |-> "x1"]}

Pools ==
  Permutations(Threads) \cup Permutations(TokenThreads)
    \cup Permutations(RequestURIs) \cup Permutations(SessionTokens)
    \cup Permutations(Cookies) \cup Permutations(Codes)
    \cup Permutations(Records) \cup Permutations(JTIs)

=============================================================================
