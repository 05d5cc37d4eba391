---------------------------- MODULE Registering ----------------------------
(***************************************************************************)
(* One registry file, loaded once when the server starts and asked by one  *)
(* login: New of internal/oidcserver with Load of internal/oidcclients, on *)
(* any file, with what a mounted bridge promises of its clients.           *)
(***************************************************************************)
EXTENDS Registry

CONSTANTS
  Docs,              \* the files: whether readable, clients, credential scopes
  Characters,        \* what scope strings are made of
  OpenID,            \* the word openid
  ScopeParameters    \* the scope parameters of a login

ASSUME DocsAssumption ==
  \A d \in Docs : \A i \in DOMAIN d.clients : d.clients[i].scope \in Seq(Characters)

VARIABLES
  doc,        \* the file
  path,       \* where it is configured to be, "" for nowhere
  verifier,   \* there is a Verifier
  asked,      \* the scopes a login asks for
  server,     \* what New returned
  chosen      \* the credential scope of the login

registryVars == <<doc, path, verifier, asked, server, chosen>>

-----------------------------------------------------------------------------
RegistryInit ==
  /\ doc \in Docs
  /\ path \in {"", "clients.yaml"}
  /\ verifier \in BOOLEAN
  /\ asked \in ScopeParameters
  /\ server = "starting"
  /\ chosen = "none"

Start ==
  /\ server = "starting"
  /\ server' = NewServer(path, verifier, doc, OpenID)
  /\ UNCHANGED <<doc, path, verifier, asked, chosen>>

LoadedRegistry == Load(doc, OpenID)

Login ==
  /\ server = "mounted" /\ chosen = "none"
  /\ chosen' = ResolveCredentialScope(LoadedRegistry, AdmittedScopes(LoadedRegistry, asked))
  /\ UNCHANGED <<doc, path, verifier, asked, server>>

RegistrySpec == RegistryInit /\ [][Start \/ Login]_registryVars

-----------------------------------------------------------------------------
\* Characters x to y of s lie between blanks, or the ends of s.
IsWord(s, x, y) ==
  /\ x <= y + 1
  /\ x > 1 => s[x - 1] = Blank
  /\ y < Len(s) => s[y + 1] = Blank
  /\ \A k \in x .. y : s[k] # Blank

HasWord(s, w) ==
  \E x \in 1 .. Len(s) + 1 : \E y \in 0 .. Len(s) :
    IsWord(s, x, y) /\ SubSeq(s, x, y) = w

\* What a client needs besides the word openid in its scope.
OtherwiseValid(c) == c.clientID # "" /\ c.authMethod = "none" /\ c.redirectURIs # {}

\* containsScope finds the words of a scope, no part of one and none too few:
\* every client of a mounted bridge has openid among them, and a file in which
\* nothing else is wrong is refused only over a client that has not.
OpenIDIsAWord ==
  /\ server = "mounted" =>
       \A i \in DOMAIN doc.clients : HasWord(doc.clients[i].scope, OpenID)
  /\ server = "fails" /\ verifier /\ doc.readable
       /\ NoDuplicates(ClientIDs(doc)) /\ NoDuplicates(ScopeNames(doc))
       /\ (\A i \in DOMAIN doc.scopes : ValidCredentialScope(doc.scopes[i]))
       /\ (\A i \in DOMAIN doc.clients : OtherwiseValid(doc.clients[i])) =>
       \E i \in DOMAIN doc.clients : ~ HasWord(doc.clients[i].scope, OpenID)

=============================================================================
