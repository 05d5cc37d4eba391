------------------------- MODULE MCVerifierSessions -------------------------
(***************************************************************************)
(* Small instances of VerifierSessions: wallets present SD-JWT VCs bound   *)
(* to one session or another, proper or flawed.                            *)
(***************************************************************************)
EXTENDS VerifierSessions, TLC

IssuerJWT(k) ==
  [parses |-> TRUE, signatures |-> 1, x5c |-> "i", signedBy |-> "i", sd |-> {},
   cnf |-> k, vct |-> "pid", status |-> [ref |-> TRUE, idx |-> 0, uri |-> "l"]]

SD(k, s) ==
  [format |-> FormatSDJWTVC, compact |-> TRUE, issuer |-> IssuerJWT(k),
   disclosures |-> <<>>,
   kb |-> [present |-> TRUE, signedBy |-> k, aud |-> <<ClientID>>, nonce |-> s,
           sdHash |-> [issuer |-> IssuerJWT(k), disclosures |-> <<>>],
           hasIAT |-> TRUE, iat |-> 0]]

Bare(p) == [shape |-> "string", value |-> p]
Odd == [shape |-> "other", value |-> <<>>]

MCQueries ==
  {<<>>, BuildDCQLQuery(<<[id |-> "c1", format |-> "dc+sd-jwt", type |-> "pid"]>>)}

\* Each holder's proper presentation, one made for another session, and none.
MCTokens ==
  {Odd, Bare(SD(CHOOSE k \in Holders : TRUE, "elsewhere"))}
    \cup {Bare(SD(k, s)) : k \in Holders, s \in Sessions}

\* The list says valid or revoked.
MCLists ==
  {[l \in {"l"} |-> [reachable |-> TRUE, token |-> TRUE, bits |-> 4, raw |-> <<b>>]] :
     b \in {0, 1}}

=============================================================================
