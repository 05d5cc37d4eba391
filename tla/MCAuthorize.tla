----------------------------- MODULE MCAuthorize -----------------------------
(***************************************************************************)
(* Instances of Authorize for TLC.  Times are in units of parRequestTTL.   *)
(***************************************************************************)
EXTENDS Authorize, TLC

\* A wallet's complete request, to be identified by the end user.
Fresh == [requestURI |-> FALSE, attested |-> "c1", responseType |-> "code",
          challenge |-> "x1", method |-> "S256", proof |-> "key1",
          jkt |-> Absent, clientID |-> "c1", issuerState |-> Absent,
          scope |-> "pid", redirectURI |-> "valid"]

\* A request that answers a credential offer, from a client that leaves out
\* client_id, declares its key by dpop_jkt and names no scope.
Offer == [Fresh EXCEPT !.attested = "c2", !.responseType = Absent,
                       !.challenge = "x2", !.proof = Absent, !.jkt = "key2",
                       !.clientID = Absent, !.issuerState = "offer",
                       !.scope = Absent]

\* Requests HandlePar must refuse.
Refused == {[Fresh EXCEPT !.requestURI = TRUE],
            [Fresh EXCEPT !.attested = "error"],
            [Fresh EXCEPT !.attested = Absent],
            [Fresh EXCEPT !.responseType = "other"],
            [Fresh EXCEPT !.challenge = Absent],
            [Fresh EXCEPT !.method = "other"],
            [Fresh EXCEPT !.proof = "error"],
            [Fresh EXCEPT !.jkt = "key2"]}

\* The two above, the first also with a redirect_uri that does not parse, and
\* the second with a scope.
MCParInputs ==
  {Fresh, [Fresh EXCEPT !.redirectURI = "malformed"], Offer, [Offer EXCEPT !.scope = "pid"]}
    \cup Refused

Pools ==
  Permutations(Threads) \cup Permutations(RequestURIs)
    \cup Permutations(SessionTokens) \cup Permutations(Cookies)
    \cup Permutations(Codes) \cup Permutations(Records)

=============================================================================
