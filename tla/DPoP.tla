-------------------------------- MODULE DPoP --------------------------------
(***************************************************************************)
(* DPoP proofs at /par and /token: SingleDPoPHeader, ValidateDPoPProof and *)
(* the size-bounded JTIStore both endpoints share (internal/oauth2).       *)
(*                                                                         *)
(* A request is a thread.  It checks its proof without a lock, then calls  *)
(* Accept, the one critical section; the clock may move in between.        *)
(***************************************************************************)
EXTENDS Integers, FiniteSets, Sequences

CONSTANTS
  Requests,     \* the requests the server receives
  JTIs,         \* values of the jti claim, other than ""
  Proofs,       \* the proofs clients send
  Headers,      \* the DPoP header values of a request: sequences of proofs
  MaxSize,      \* jtiStoreMaxSize
  EvictCount,   \* jtiStoreEvictCount
  Window,       \* dpopIATWindow
  MaxTime       \* bound on the clock

ASSUME StoreAssumption ==
  /\ MaxSize \in Nat \ {0}
  /\ EvictCount \in 1 .. MaxSize
  /\ Window \in Nat

ASSUME RequestsAssumption == IsFiniteSet(Requests)

ASSUME JTIAssumption == "" \notin JTIs

Sites == {"par", "token"}

\* What the validation reads of a proof.  jose stands for the checks of the
\* JWS itself: one signature, typ, a public jwk, ES256, a good signature.
\* A URL is its scheme, authority and path, and whether it has a query.
Proof == [jose   : BOOLEAN,
          htm    : {"POST", "post", "GET"},
          htu    : [path : Sites, query : BOOLEAN, parses : BOOLEAN],
          hasIAT : BOOLEAN,
          iat    : Int,
          jti    : JTIs \cup {""}]

ASSUME ProofsAssumption ==
  /\ Proofs \subseteq Proof
  /\ Headers \subseteq Seq(Proofs)

VARIABLES
  now,       \* the wall clock
  set,       \* JTIStore.set
  dreq,      \* request -> its progress
  \* History variables, read by no action.
  accepts,   \* requests whose proof was accepted since the last start
  dropped,   \* those among them whose jti was evicted since
  firstAt    \* proof -> when a request first arrived that it was accepted in

dpopHistory == <<accepts, dropped, firstAt>>
dpopVars == <<now, set, dreq, dpopHistory>>

-----------------------------------------------------------------------------
\* The longest a proof stays presentable: from iat - Window to iat + Window.
Horizon == 2 * Window

DPoPRequest == [pc      : {"new", "accept", "done"},
                proof   : Proofs \cup {<<>>},
                at      : Nat,
                outcome : {"accepted", "none", "refused", ""}]

NewRequest == [pc |-> "new", proof |-> <<>>, at |-> 0, outcome |-> ""]

\* Every reachable state of the proof validation is well typed.
DPoPTypeOK ==
  /\ now \in Nat
  /\ set \subseteq JTIs
  /\ dreq \in [Requests -> DPoPRequest]
  /\ accepts \subseteq Requests
  /\ dropped \subseteq accepts
  /\ firstAt \in [Proofs -> Nat \cup {-1}]

DPoPInit ==
  /\ now = 0
  /\ set = {}
  /\ dreq = [r \in Requests |-> NewRequest]
  /\ accepts = {}
  /\ dropped = {}
  /\ firstAt = [p \in Proofs |-> -1]

-----------------------------------------------------------------------------
\* equalFoldASCII
EqualFoldASCII(a, b) == a = b \/ {a, b} = {"POST", "post"}

\* htuMatches: query and fragment are ignored; a URL that does not parse
\* never equals the server's own.
HtuMatches(claimed, site) == claimed.parses /\ claimed.path = site

\* Mutant: only a proof that is too old is refused.
IATInWindowPast(p) == p.hasIAT /\ now - p.iat <= Window

IATInWindow(p) ==
  /\ p.hasIAT
  /\ now - p.iat <= Window
  /\ now - p.iat >= -Window

\* ValidateDPoPProof up to the jti.  Both callers expect POST and pass no
\* ath, so the last check of the function never applies.
ProofChecks(p, site) ==
  /\ p.jose
  /\ EqualFoldASCII(p.htm, "POST")
  /\ HtuMatches(p.htu, site)
  /\ IATInWindow(p)
  /\ p.jti # ""

DPoPAnswer(r, outcome) ==
  dreq' = [dreq EXCEPT ![r].pc = "done", ![r].outcome = outcome]

\* A request arrives with the DPoP header values h.  More than one is
\* refused; none at all is fine at /par and refused at /token.
ValidateDPoPProof(r, site, h) ==
  /\ dreq[r].pc = "new"
  /\ CASE Len(h) > 1 -> DPoPAnswer(r, "refused")
       [] Len(h) = 0 -> DPoPAnswer(r, IF site = "par" THEN "none" ELSE "refused")
       [] OTHER ->
            IF ProofChecks(h[1], site)
              THEN dreq' = [dreq EXCEPT ![r] = [@ EXCEPT !.pc = "accept",
                                                !.proof = h[1], !.at = now]]
              ELSE DPoPAnswer(r, "refused")
  /\ UNCHANGED <<now, set, dpopHistory>>

-----------------------------------------------------------------------------
\* JTIStore.Accept

\* Map iteration order is arbitrary, and so is what an overflow evicts.
Evictions == {E \in SUBSET set : Cardinality(E) = EvictCount}

\* Mutant: a full store makes no room.
OverflowNever == {{}}

\* Mutant: a store one short of full makes room already.
OverflowEarly == IF Cardinality(set) >= MaxSize - 1 THEN Evictions ELSE {{}}

\* The sets of jtis an Accept of a new one may remove.
Overflow == IF Cardinality(set) >= MaxSize THEN Evictions ELSE {{}}

\* Mutant: the lookup of the jti is forgotten.
SeenNever(jti) == FALSE

Seen(jti) == jti \in set

Accept(r) ==
  LET p == dreq[r].proof IN
  /\ dreq[r].pc = "accept"
  /\ IF Seen(p.jti)
       THEN /\ DPoPAnswer(r, "refused")
            /\ UNCHANGED <<set, dpopHistory>>
       ELSE \E E \in Overflow :
              /\ set' = (set \ E) \cup {p.jti}
              /\ accepts' = accepts \cup {r}
              /\ dropped' = dropped \cup {q \in accepts : dreq[q].proof.jti \in E}
              /\ firstAt' = IF firstAt[p] = -1
                              THEN [firstAt EXCEPT ![p] = dreq[r].at]
                              ELSE firstAt
              /\ DPoPAnswer(r, "accepted")
  /\ UNCHANGED now

-----------------------------------------------------------------------------
DPoPTick ==
  /\ now < MaxTime
  /\ now' = now + 1
  /\ UNCHANGED <<set, dreq, dpopHistory>>

\* The process restarts: the store is in memory only, and requests in
\* progress are cut off.
DPoPRestart ==
  /\ set' = {}
  /\ accepts' = {}
  /\ dropped' = {}
  /\ dreq' = [r \in Requests |-> IF dreq[r].pc = "accept"
                                   THEN [dreq[r] EXCEPT !.pc = "done"]
                                   ELSE dreq[r]]
  /\ UNCHANGED <<now, firstAt>>

DPoPNext ==
  \/ \E r \in Requests, site \in Sites, h \in Headers :
       ValidateDPoPProof(r, site, h)
  \/ \E r \in Requests : Accept(r)
  \/ DPoPTick
  \/ DPoPRestart

DPoPSpec == DPoPInit /\ [][DPoPNext]_dpopVars

-----------------------------------------------------------------------------
\* However many proofs arrive, the set JTIStore.Accept keeps holds at most
\* jtiStoreMaxSize jtis.
JTIStoreBounded == Cardinality(set) <= MaxSize

\* Of two requests accepted since the last start with the same jti, one had
\* its jti evicted: Accept recognises every replay of a jti it still holds,
\* however the requests overlap.
ReplayOnlyAfterEviction ==
  \A q, r \in accepts \ dropped :
     dreq[q].proof.jti = dreq[r].proof.jti => q = r

\* Accept evicts nothing before it is full: a server that has accepted at
\* most jtiStoreMaxSize proofs since it started has forgotten none of them.
NothingDroppedWithinCapacity ==
  Cardinality(accepts) <= MaxSize => dropped = {}

\* Whatever eviction and restarts let through, two requests in which the same
\* proof is accepted arrive within twice dpopIATWindow of each other.
ReplayHorizon ==
  \A r \in Requests :
     dreq[r].outcome = "accepted" =>
       dreq[r].at - firstAt[dreq[r].proof] \in -Horizon .. Horizon

=============================================================================
