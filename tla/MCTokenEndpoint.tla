--------------------------- MODULE MCTokenEndpoint ---------------------------
(***************************************************************************)
(* Instances of TokenEndpoint for TLC.                                     *)
(***************************************************************************)
EXTENDS TokenEndpoint, TLC

\* A code bound to a DPoP key.  (MCAuthServer also has one that is not.)
MCGrants ==
  {[record |-> "r1", client |-> "c1", challenge |-> "x1", jkt |-> "key1"]}

Good == [attested |-> "c1", clientID |-> NoValue, proof |-> "key1",
         verifier |-> "x1"]

\* The proper request, another client's, and one with each kind of flaw.
MCTokenInputs ==
  {Good,
   [attested |-> "c2", clientID |-> "c2", proof |-> "key2", verifier |-> "x2"],
   [Good EXCEPT !.attested = "c2"],     \* another client's code
   [Good EXCEPT !.clientID = "c2"],     \* claims to be another client
   [Good EXCEPT !.proof = "key2"],      \* another DPoP key
   [Good EXCEPT !.proof = "error"],
   [Good EXCEPT !.attested = "error"],
   [Good EXCEPT !.attested = NoValue],
   [Good EXCEPT !.verifier = NoValue],
   [Good EXCEPT !.verifier = "x2"]}

\* Only the proper request and one refused for its code_verifier.
MCFewInputs == {Good, [Good EXCEPT !.verifier = "x2"]}

=============================================================================
