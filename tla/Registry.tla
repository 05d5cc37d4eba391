------------------------------- MODULE Registry -------------------------------
(***************************************************************************)
(* internal/oidcclients: the registry of Relying Parties and credential    *)
(* scopes, loaded and validated once at startup; and what New of           *)
(* internal/oidcserver makes of it.                                        *)
(*                                                                         *)
(* doc is the parsed file: two sequences of records.  A scope string is a  *)
(* sequence of characters.                                                 *)
(***************************************************************************)
EXTENDS GoMaps, Sequences, Integers

Rejected == [loaded |-> FALSE]

-----------------------------------------------------------------------------
Blank == " "

\* The pass of containsScope over the characters, which cuts a word at every
\* blank: <<a word cut so far is the one wanted, where the next one starts>>
\* before character i is read
Scan(scope, want) ==
  LET scan[i \in 1 .. Len(scope) + 1] ==
        IF i = 1 THEN <<FALSE, 1>>
        ELSE IF scope[i - 1] = Blank
          THEN <<scan[i - 1][1] \/ SubSeq(scope, scan[i - 1][2], i - 2) = want, i>>
          ELSE scan[i - 1]
  IN scan

\* Mutant: the last word is never looked at.
ContainsScopeShort(scope, want) == Scan(scope, want)[Len(scope) + 1][1]

\* containsScope: the end of the string cuts the last word
ContainsScope(scope, want) ==
  LET last == Scan(scope, want)[Len(scope) + 1] IN
  last[1] \/ SubSeq(scope, last[2], Len(scope)) = want

\* validateClient
ValidClient(c, openid) ==
  /\ c.clientID # ""
  /\ c.authMethod = "none"
  /\ c.redirectURIs # {}
  /\ ContainsScope(c.scope, openid)

\* validateCredentialScope, and the names Load reserves
ReservedScopes == {"openid", "offline_access", "profile", "email"}

ValidCredentialScope(cs) ==
  cs.name # "" /\ cs.type # "" /\ cs.name \notin ReservedScopes

\* Load's check of the map it is filling
NoDuplicates(keys) == \A i, j \in DOMAIN keys : keys[i] = keys[j] => i = j

\* A map of the entries by key; a later one would replace an earlier one.
Keyed(entries, keys) ==
  [k \in Range(keys) |->
     entries[CHOOSE i \in DOMAIN keys :
               keys[i] = k /\ \A j \in DOMAIN keys : keys[j] = k => j <= i]]

ClientIDs(doc) == [i \in DOMAIN doc.clients |-> doc.clients[i].clientID]
ScopeNames(doc) == [i \in DOMAIN doc.scopes |-> doc.scopes[i].name]

\* Load: the first bad entry fails all of it
Load(doc, openid) ==
  IF /\ doc.readable
     /\ \A i \in DOMAIN doc.clients : ValidClient(doc.clients[i], openid)
     /\ NoDuplicates(ClientIDs(doc))
     /\ \A i \in DOMAIN doc.scopes : ValidCredentialScope(doc.scopes[i])
     /\ NoDuplicates(ScopeNames(doc))
    THEN [loaded           |-> TRUE,
          clients          |-> Keyed(doc.clients, ClientIDs(doc)),
          credentialScopes |-> Keyed(doc.scopes, ScopeNames(doc))]
    ELSE Rejected

\* New: without a path there is no bridge, and with one it needs a Verifier.
NewServer(path, verifier, doc, openid) ==
  CASE path = "" -> "absent"
    [] path # "" /\ (~ verifier \/ ~ Load(doc, openid).loaded) -> "fails"
    [] OTHER -> "mounted"

-----------------------------------------------------------------------------
\* Lookup
Lookup(r, clientID) == clientID \in DOMAIN r.clients

\* IsCredentialScope
IsCredentialScope(r, scope) == scope \in DOMAIN r.credentialScopes

\* op admits the standard scopes by itself and asks IsScopeAllowed of others.
StandardScopes == {"openid", "profile", "email", "phone", "address", "offline_access"}

AdmittedScopes(r, scopes) ==
  SelectSeq(scopes, LAMBDA s : s \in StandardScopes \/ IsCredentialScope(r, s))

\* ResolveCredentialScope: the first that is registered, "" for none
ResolveCredentialScope(r, scopes) ==
  LET named == SelectSeq(scopes, LAMBDA s : IsCredentialScope(r, s)) IN
  IF named = <<>> THEN "" ELSE named[1]

=============================================================================
