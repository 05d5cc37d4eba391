------------------------------ MODULE MCRegistry ------------------------------
(***************************************************************************)
(* Registries loaded from small files, each asked by one login; and scope  *)
(* strings, each searched for one word.                                    *)
(***************************************************************************)
EXTENDS Registering, FiniteSets

-----------------------------------------------------------------------------
MCOpenID == <<"o", "i">>   \* stands for the word openid

ScopeStrings == UNION {[1 .. n -> Characters] : n \in 0 .. 5}

Client(id, scope) ==
  [clientID |-> id, authMethod |-> "none", redirectURIs |-> {"cb"}, scope |-> scope]
RP == Client("rp", MCOpenID)

ClientLists ==
  {<<>>, <<RP>>, <<RP, [RP EXCEPT !.redirectURIs = {"cb2"}]>>,
   <<RP, Client("rp2", <<"i", " ", "o", "i">>)>>,
   <<Client("", MCOpenID)>>, <<[RP EXCEPT !.authMethod = "client_secret_basic"]>>,
   <<[RP EXCEPT !.redirectURIs = {}]>>}
    \cup {<<Client("rp", s)>> : s \in ScopeStrings}

Scope(name, type) == [name |-> name, type |-> type]

ScopeLists ==
  {<<>>, <<Scope("padro", "t1")>>, <<Scope("padro", "t1"), Scope("pid", "t2")>>,
   <<Scope("padro", "t1"), Scope("padro", "t2")>>, <<Scope("", "t1")>>,
   <<Scope("padro", "")>>} \cup {<<Scope(n, "t1")>> : n \in StandardScopes}

MCDocs ==
  {[readable |-> TRUE, clients |-> c, scopes |-> s] :
     c \in {<<>>, <<RP>>}, s \in ScopeLists}
  \cup {[readable |-> r, clients |-> c, scopes |-> <<Scope("padro", "t1")>>] :
     c \in ClientLists, r \in BOOLEAN}

MCScopeParameters ==
  {<<"openid">>, <<"openid", "padro">>, <<"pid", "openid", "padro">>,
   <<"other", "padro", "pid">>, <<"openid", "phone", "other">>}

\* Another check has its turn.
RegistryOff ==
  /\ doc = <<>> /\ path = "" /\ verifier = FALSE /\ asked = <<>>
  /\ server = "off" /\ chosen = "none"

=============================================================================
