------------------------------- MODULE MCDPoP -------------------------------
(***************************************************************************)
(* Instances of DPoP for TLC.                                              *)
(***************************************************************************)
EXTENDS DPoP, TLC

ParURL == [path |-> "par", query |-> FALSE, parses |-> TRUE]

Good(jti, t) == [jose |-> TRUE, htm |-> "POST", htu |-> ParURL,
                 hasIAT |-> TRUE, iat |-> t, jti |-> jti]

Jti == CHOOSE j \in JTIs : TRUE

\* Proper proofs, one of them from a clock that is ahead, one for each kind
\* of flaw, and the two spellings that are none.
MCFlawed ==
  {[Good(Jti, 0) EXCEPT !.jose = FALSE],
   [Good(Jti, 0) EXCEPT !.htm = "GET"],
   [Good(Jti, 0) EXCEPT !.htu.path = "token"],
   [Good(Jti, 0) EXCEPT !.htu.parses = FALSE],
   [Good(Jti, 0) EXCEPT !.hasIAT = FALSE],
   [Good(Jti, 0) EXCEPT !.jti = ""],
   [Good(Jti, 0) EXCEPT !.htm = "post"],
   [Good(Jti, 0) EXCEPT !.htu.query = TRUE]}

MCGood == {Good(j, 0) : j \in JTIs} \cup {Good(Jti, 2)}

MCProofs == MCGood \cup MCFlawed
MCHeaders == {<<>>} \cup {<<p>> : p \in MCProofs}
               \cup {<<Good(Jti, 0), Good(Jti, 2)>>}

Anonymous == Permutations(Requests)

=============================================================================
