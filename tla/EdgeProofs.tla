----------------------------- MODULE EdgeProofs -----------------------------
(***************************************************************************)
(* What a request meets first, for any number of requests and tabs and any *)
(* sizes: its DPoP proof and the store that recognises replays, its client *)
(* attestation, and the identify page in the browser.  Each of the three   *)
(* parts stands by itself.                                                 *)
(***************************************************************************)
EXTENDS DPoP, Attesting, IdentifyPage, FiniteSetTheorems, TLAPS

-----------------------------------------------------------------------------
\* DPoP: the jti store keeps its bound and recognises every replay of a jti it
\* still holds, and a proof is accepted again only within twice the iat window.

Near(a, b) == a - b <= Window /\ b - a <= Window

\* A request that got as far as Accept carries a proof with a jti that was
\* in its window when the request arrived.
InHand ==
  \A r \in Requests :
     dreq[r].pc = "accept" \/ dreq[r].outcome = "accepted" =>
       /\ dreq[r].proof \in Proofs
       /\ dreq[r].proof.jti \in JTIs
       /\ Near(dreq[r].at, dreq[r].proof.iat)

\* What the history of acceptances says of the requests.
Accepted ==
  /\ \A r \in accepts : dreq[r].pc = "done" /\ dreq[r].outcome = "accepted"
  /\ \A r \in Requests : dreq[r].outcome = "accepted" => dreq[r].pc = "done"

\* The first acceptance of a proof was in its window.
FirstInWindow ==
  /\ \A p \in Proofs : firstAt[p] = -1 \/ Near(firstAt[p], p.iat)
  /\ \A r \in Requests :
       dreq[r].outcome = "accepted" => firstAt[dreq[r].proof] # -1

\* The store holds no more than was accepted, and all that was not dropped.
StoreCounts ==
  /\ IsFiniteSet(set)
  /\ Cardinality(set) <= Cardinality(accepts)
  /\ \A r \in accepts \ dropped : dreq[r].proof.jti \in set

DPoPInv ==
  /\ DPoPTypeOK /\ InHand /\ Accepted /\ FirstInWindow /\ StoreCounts
  /\ JTIStoreBounded /\ ReplayOnlyAfterEviction /\ NothingDroppedWithinCapacity

-----------------------------------------------------------------------------
\* The fields of a proof.
LEMMA ProofFields ==
  ASSUME NEW p \in Proofs
  PROVE  p.iat \in Int /\ p.jti \in JTIs \cup {""}
BY ProofsAssumption DEF Proof

\* The requests accepted are finitely many.
LEMMA AcceptsFinite ==
  ASSUME accepts \subseteq Requests
  PROVE  IsFiniteSet(accepts) /\ Cardinality(accepts) \in Nat
BY FS_Subset, FS_CardinalityType, RequestsAssumption

\* A server that has just started satisfies the invariant.
LEMMA DPoPInitInv == DPoPInit => DPoPInv
<1> SUFFICES ASSUME DPoPInit PROVE DPoPInv
  OBVIOUS
<1>1. IsFiniteSet({}) /\ Cardinality({}) = 0
  BY FS_EmptySet
<1>2. DPoPTypeOK
  BY DEF DPoPInit, DPoPTypeOK, DPoPRequest, NewRequest
<1>3. InHand /\ Accepted /\ FirstInWindow
  BY DEF DPoPInit, InHand, Accepted, FirstInWindow, NewRequest
<1>4. StoreCounts /\ JTIStoreBounded /\ ReplayOnlyAfterEviction /\ NothingDroppedWithinCapacity
  BY <1>1, StoreAssumption
     DEF DPoPInit, StoreCounts, JTIStoreBounded, ReplayOnlyAfterEviction,
         NothingDroppedWithinCapacity
<1> QED
  BY <1>2, <1>3, <1>4 DEF DPoPInv

-----------------------------------------------------------------------------
\* A step that changes only one request, to something that is not accepted,
\* keeps the invariant.
LEMMA OneRequest ==
  ASSUME DPoPInv, NEW r \in Requests, NEW e \in DPoPRequest,
         dreq[r].pc # "done" /\ dreq[r].outcome # "accepted",
         e.outcome # "accepted",
         e.pc = "accept" => /\ e.proof \in Proofs
                            /\ e.proof.jti \in JTIs
                            /\ Near(e.at, e.proof.iat),
         dreq' = [dreq EXCEPT ![r] = e],
         UNCHANGED <<now, set, dpopHistory>>
  PROVE  DPoPInv'
<1>1. /\ DPoPTypeOK /\ InHand /\ Accepted /\ FirstInWindow /\ StoreCounts
      /\ JTIStoreBounded /\ ReplayOnlyAfterEviction /\ NothingDroppedWithinCapacity
  BY DEF DPoPInv
<1>2. r \notin accepts
  BY <1>1 DEF Accepted
<1>3. \A q \in Requests : dreq'[q] = IF q = r THEN e ELSE dreq[q]
  BY <1>1 DEF DPoPTypeOK
<1>4. accepts \subseteq Requests /\ \A q \in accepts : dreq'[q] = dreq[q]
  BY <1>1, <1>2, <1>3 DEF DPoPTypeOK
<1>5. UNCHANGED <<now, set, accepts, dropped, firstAt>>
  BY DEF dpopHistory
<1>6. DPoPTypeOK'
  BY <1>1, <1>5 DEF DPoPTypeOK
<1>7. InHand'
  BY <1>1, <1>3 DEF InHand, Near
<1>8. Accepted'
  BY <1>1, <1>3, <1>4, <1>5 DEF Accepted
<1>9. FirstInWindow'
  BY <1>1, <1>3, <1>5 DEF FirstInWindow, Near
<1>10. StoreCounts'
  BY <1>1, <1>4, <1>5 DEF StoreCounts
<1>11. JTIStoreBounded' /\ NothingDroppedWithinCapacity'
  BY <1>1, <1>5 DEF JTIStoreBounded, NothingDroppedWithinCapacity
<1>12. ReplayOnlyAfterEviction'
  BY <1>1, <1>4, <1>5 DEF ReplayOnlyAfterEviction
<1> QED
  BY <1>6, <1>7, <1>8, <1>9, <1>10, <1>11, <1>12 DEF DPoPInv

\* Refusing a request, or letting it pass without a proof, keeps the invariant.
LEMMA AnswerInv ==
  ASSUME DPoPInv, NEW r \in Requests, NEW outcome \in {"none", "refused"},
         dreq[r].pc # "done", DPoPAnswer(r, outcome),
         UNCHANGED <<now, set, dpopHistory>>
  PROVE  DPoPInv'
<1> DEFINE e == [dreq[r] EXCEPT !.pc = "done", !.outcome = outcome]
<1>1. dreq \in [Requests -> DPoPRequest] /\ Accepted
  BY DEF DPoPInv, DPoPTypeOK
<1>2. dreq' = [dreq EXCEPT ![r] = e]
  BY <1>1, Zenon DEF DPoPAnswer
<1>3. e \in DPoPRequest /\ e.pc = "done" /\ e.outcome = outcome
  BY <1>1 DEF DPoPRequest
<1>4. dreq[r].outcome # "accepted"
  BY <1>1 DEF Accepted
<1> HIDE DEF e
<1> QED
  BY <1>2, <1>3, <1>4, OneRequest, Zenon

\* ValidateDPoPProof up to the jti keeps the invariant.
LEMMA ValidateInv ==
  ASSUME DPoPInv, NEW r \in Requests, NEW site \in Sites, NEW h \in Headers,
         ValidateDPoPProof(r, site, h)
  PROVE  DPoPInv'
<1>1. dreq[r].pc = "new" /\ UNCHANGED <<now, set, dpopHistory>>
  BY DEF ValidateDPoPProof
<1>2. dreq \in [Requests -> DPoPRequest] /\ Accepted /\ now \in Nat
  BY DEF DPoPInv, DPoPTypeOK
<1>3. CASE \E outcome \in {"none", "refused"} : DPoPAnswer(r, outcome)
  BY <1>1, <1>3, AnswerInv
<1>4. CASE ~ \E outcome \in {"none", "refused"} : DPoPAnswer(r, outcome)
  <2> DEFINE e == [dreq[r] EXCEPT !.pc = "accept", !.proof = h[1], !.at = now]
  <2>1. h \in Seq(Proofs)
    BY ProofsAssumption
  <2>2. /\ Len(h) = 1 /\ ProofChecks(h[1], site)
        /\ dreq' = [dreq EXCEPT ![r] = e]
    <3>1. ~ DPoPAnswer(r, "none") /\ ~ DPoPAnswer(r, "refused")
      BY <1>4
    <3>2. Len(h) \in Nat
      BY <2>1
    <3>3. ~ (Len(h) > 1)
      BY <3>1, Zenon DEF ValidateDPoPProof
    <3>4. Len(h) # 0
      <4>1. CASE site = "par"
        BY <3>1, <3>3, <4>1, Zenon DEF ValidateDPoPProof
      <4>2. CASE site # "par"
        BY <3>1, <3>3, <4>2, Zenon DEF ValidateDPoPProof
      <4> QED
        BY <4>1, <4>2
    <3>5. Len(h) = 1
      <4>1. \A n \in Nat : ~ (n > 1) /\ n # 0 => n = 1
        OBVIOUS
      <4> QED
        BY <3>2, <3>3, <3>4, <4>1, Zenon
    <3>6. IF ProofChecks(h[1], site) THEN dreq' = [dreq EXCEPT ![r] = e]
                                    ELSE DPoPAnswer(r, "refused")
      BY <3>3, <3>4, Zenon DEF ValidateDPoPProof
    <3> QED
      BY <3>1, <3>5, <3>6
  <2>3. h[1] \in Proofs
    BY <2>1, <2>2
  <2>4. h[1].iat \in Int /\ h[1].jti \in JTIs
    BY <2>2, <2>3, ProofFields DEF ProofChecks
  <2>5. Near(now, h[1].iat)
    <3>1. now - h[1].iat <= Window /\ now - h[1].iat >= -Window
      BY <2>2, Zenon DEF ProofChecks, IATInWindow
    <3> QED
      BY <1>2, <2>4, <3>1, StoreAssumption DEF Near
  <2>6. dreq[r].outcome # "accepted"
    BY <1>1, <1>2 DEF Accepted
  <2>7. /\ e \in DPoPRequest /\ e.outcome = dreq[r].outcome
        /\ e.proof = h[1] /\ e.at = now
    BY <1>2, <2>3 DEF DPoPRequest
  <2> HIDE DEF e
  <2> QED
    BY <1>1, <2>2, <2>3, <2>4, <2>5, <2>6, <2>7, OneRequest, Zenon
<1> QED
  BY <1>3, <1>4

-----------------------------------------------------------------------------
\* What eviction leaves room for.
LEMMA EvictionSize ==
  ASSUME NEW E \in Overflow, NEW jti, jti \notin set, IsFiniteSet(set),
         Cardinality(set) <= MaxSize
  PROVE  LET s == (set \ E) \cup {jti} IN
         /\ IsFiniteSet(s)
         /\ Cardinality(s) <= MaxSize
         /\ Cardinality(s) <= Cardinality(set) + 1
         /\ Cardinality(set) < MaxSize => E = {}
         /\ E \subseteq set
<1>1. Cardinality(set) \in Nat /\ MaxSize \in Nat \ {0} /\ EvictCount \in 1 .. MaxSize
  BY FS_CardinalityType, StoreAssumption
<1>2. CASE Cardinality(set) >= MaxSize
  <2>1. E \subseteq set /\ Cardinality(E) = EvictCount
    BY <1>2 DEF Overflow, Evictions
  <2>2. IsFiniteSet(set \ E) /\ Cardinality(set \ E) = Cardinality(set) - Cardinality(set \cap E)
    BY FS_Difference
  <2>3. set \cap E = E
    BY <2>1
  <2>4. /\ IsFiniteSet((set \ E) \cup {jti})
        /\ Cardinality((set \ E) \cup {jti}) = Cardinality(set \ E) + 1
    BY <2>2, FS_AddElement, Zenon
  <2>5. Cardinality(set \ E) = Cardinality(set) - EvictCount
    BY <2>1, <2>2, <2>3
  <2>6. /\ Cardinality((set \ E) \cup {jti}) <= MaxSize
        /\ Cardinality((set \ E) \cup {jti}) <= Cardinality(set) + 1
        /\ ~ (Cardinality(set) < MaxSize)
    BY <1>1, <1>2, <2>4, <2>5
  <2> QED
    BY <2>1, <2>4, <2>6
<1>3. CASE ~ Cardinality(set) >= MaxSize
  <2>1. E = {}
    BY <1>3 DEF Overflow
  <2>2. set \ E = set
    BY <2>1
  <2>3. /\ IsFiniteSet(set \cup {jti})
        /\ Cardinality(set \cup {jti}) = Cardinality(set) + 1
    BY FS_AddElement
  <2> QED
    BY <1>1, <1>3, <2>1, <2>2, <2>3
<1> QED
  BY <1>2, <1>3

\* JTIStore.Accept keeps the invariant, whatever it evicts.
LEMMA AcceptInv ==
  ASSUME DPoPInv, NEW r \in Requests, Accept(r)
  PROVE  DPoPInv'
<1> DEFINE p == dreq[r].proof
<1>1. /\ DPoPTypeOK /\ InHand /\ Accepted /\ FirstInWindow /\ StoreCounts
      /\ JTIStoreBounded /\ ReplayOnlyAfterEviction /\ NothingDroppedWithinCapacity
  BY DEF DPoPInv
<1>2. dreq[r].pc = "accept" /\ UNCHANGED now
  BY DEF Accept
<1>3. CASE Seen(p.jti)
  BY <1>2, <1>3, AnswerInv DEF Accept, dpopHistory
<1>4. ASSUME ~ Seen(p.jti), NEW E \in Overflow,
             set' = (set \ E) \cup {p.jti},
             accepts' = accepts \cup {r},
             dropped' = dropped \cup {q \in accepts : dreq[q].proof.jti \in E},
             firstAt' = IF firstAt[p] = -1
                          THEN [firstAt EXCEPT ![p] = dreq[r].at]
                          ELSE firstAt,
             DPoPAnswer(r, "accepted")
      PROVE  DPoPInv'
  <2> DEFINE e == [dreq[r] EXCEPT !.pc = "done", !.outcome = "accepted"]
  <2>1. /\ dreq \in [Requests -> DPoPRequest] /\ now \in Nat
        /\ accepts \subseteq Requests /\ dropped \subseteq accepts
        /\ firstAt \in [Proofs -> Nat \cup {-1}] /\ set \subseteq JTIs
    BY <1>1 DEF DPoPTypeOK
  <2>2. p \in Proofs /\ p.jti \in JTIs /\ Near(dreq[r].at, p.iat) /\ dreq[r].at \in Nat
    BY <1>1, <1>2, <2>1 DEF InHand, DPoPRequest
  <2>3. r \notin accepts
    BY <1>1, <1>2 DEF Accepted
  <2>4. /\ e \in DPoPRequest /\ e.pc = "done" /\ e.outcome = "accepted"
        /\ e.proof = p /\ e.at = dreq[r].at
        /\ dreq' = [dreq EXCEPT ![r] = e]
    BY <1>4, <2>1 DEF DPoPAnswer, DPoPRequest
  <2> HIDE DEF e
  <2>5. \A q \in Requests : dreq'[q] = IF q = r THEN e ELSE dreq[q]
    BY <2>1, <2>4
  <2>6. \A q \in accepts : dreq'[q] = dreq[q]
    BY <2>1, <2>3, <2>5
  <2>7. firstAt' \in [Proofs -> Nat \cup {-1}] /\ firstAt'[p] # -1
    BY <1>4, <2>1, <2>2
  <2>8. \A o \in Proofs : firstAt'[o] = firstAt[o] \/ (o = p /\ firstAt'[o] = dreq[r].at)
    BY <1>4, <2>1, <2>2
  <2>9. /\ IsFiniteSet(set') /\ Cardinality(set') <= MaxSize
        /\ Cardinality(set') <= Cardinality(set) + 1
        /\ Cardinality(set) < MaxSize => E = {}
        /\ p.jti \notin set
    BY <1>1, <1>4, EvictionSize, Zenon DEF StoreCounts, JTIStoreBounded, Seen
  <2>10. /\ Cardinality(accepts) \in Nat /\ Cardinality(accepts') = Cardinality(accepts) + 1
         /\ Cardinality(set) \in Nat /\ Cardinality(set') \in Nat
    BY <1>1, <1>4, <2>1, <2>3, <2>9, AcceptsFinite, FS_AddElement, FS_CardinalityType
       DEF StoreCounts
  <2>11. DPoPTypeOK'
    BY <1>2, <1>4, <2>1, <2>2, <2>4, <2>7 DEF DPoPTypeOK
  <2>12. InHand'
    BY <1>1, <2>2, <2>4, <2>5 DEF InHand, Near
  <2>13. Accepted'
    BY <1>1, <1>4, <2>1, <2>4, <2>5, <2>6 DEF Accepted
  <2>14. FirstInWindow'
    <3>1. ASSUME NEW o \in Proofs PROVE firstAt'[o] = -1 \/ Near(firstAt'[o], o.iat)
      BY <1>1, <2>2, <2>8 DEF FirstInWindow
    <3>2. ASSUME NEW q \in Requests, dreq'[q].outcome = "accepted"
          PROVE  firstAt'[dreq'[q].proof] # -1
      <4>1. CASE q = r
        BY <4>1, <2>4, <2>5, <2>7
      <4>2. CASE q # r
        <5>1. dreq[q].proof \in Proofs /\ firstAt[dreq[q].proof] # -1
          BY <1>1, <2>5, <3>2, <4>2 DEF InHand, FirstInWindow
        <5> QED
          BY <5>1, <2>5, <2>7, <2>8, <4>2
      <4> QED
        BY <4>1, <4>2
    <3> QED
      BY <3>1, <3>2 DEF FirstInWindow, Near
  <2>15. \A q \in accepts' \ dropped' :
            dreq'[q].proof.jti \in set' /\ (q # r => q \in accepts \ dropped /\ dreq'[q].proof.jti # p.jti)
    <3> SUFFICES ASSUME NEW q \in accepts' \ dropped'
                 PROVE  /\ dreq'[q].proof.jti \in set'
                        /\ q # r => q \in accepts \ dropped /\ dreq'[q].proof.jti # p.jti
      OBVIOUS
    <3>1. CASE q = r
      <4>1. dreq'[r].proof = p
        BY <2>4, <2>5, Zenon
      <4>2. p.jti \in set'
        BY <1>4, Zenon
      <4> QED
        BY <3>1, <4>1, <4>2, Zenon
    <3>2. CASE q # r
      <4>1. q \in accepts \ dropped /\ dreq[q].proof.jti \notin E
        BY <1>4, <3>2
      <4>2. dreq[q].proof.jti \in set
        BY <1>1, <4>1 DEF StoreCounts
      <4> QED
        BY <1>4, <2>6, <2>9, <4>1, <4>2
    <3> QED
      BY <3>1, <3>2
  <2>16. StoreCounts'
    BY <1>1, <2>9, <2>10, <2>15 DEF StoreCounts
  <2>17. ReplayOnlyAfterEviction'
    <3> SUFFICES ASSUME NEW q \in accepts' \ dropped', NEW o \in accepts' \ dropped',
                        dreq'[q].proof.jti = dreq'[o].proof.jti
                 PROVE  q = o
      BY DEF ReplayOnlyAfterEviction
    <3>1. dreq'[r].proof = p
      BY <2>4, <2>5
    <3> QED
      BY <1>1, <2>6, <2>15, <3>1 DEF ReplayOnlyAfterEviction
  <2>18. NothingDroppedWithinCapacity'
    <3> SUFFICES ASSUME Cardinality(accepts') <= MaxSize PROVE dropped' = {}
      BY DEF NothingDroppedWithinCapacity
    <3>1. Cardinality(set) < MaxSize /\ Cardinality(accepts) <= MaxSize
      BY <1>1, <2>10, StoreAssumption DEF StoreCounts
    <3> QED
      BY <1>1, <1>4, <2>9, <3>1 DEF NothingDroppedWithinCapacity
  <2>19. JTIStoreBounded'
    BY <2>9 DEF JTIStoreBounded
  <2> QED
    BY <2>11, <2>12, <2>13, <2>14, <2>16, <2>17, <2>18, <2>19 DEF DPoPInv
<1> QED
  BY <1>3, <1>4 DEF Accept

-----------------------------------------------------------------------------
\* A restart forgets the store and the history, and keeps the invariant.
LEMMA RestartInv ==
  ASSUME DPoPInv, DPoPRestart
  PROVE  DPoPInv'
<1>1. DPoPTypeOK /\ InHand /\ Accepted /\ FirstInWindow
  BY DEF DPoPInv
<1>2. /\ dreq \in [Requests -> DPoPRequest] /\ set' = {} /\ accepts' = {} /\ dropped' = {}
      /\ UNCHANGED <<now, firstAt>>
  BY <1>1 DEF DPoPTypeOK, DPoPRestart
<1>3. \A r \in Requests :
        /\ dreq'[r] \in DPoPRequest /\ dreq'[r].pc # "accept"
        /\ dreq'[r].proof = dreq[r].proof /\ dreq'[r].at = dreq[r].at
        /\ dreq'[r].outcome = dreq[r].outcome
        /\ dreq'[r].pc = dreq[r].pc \/ dreq'[r].pc = "done"
  BY <1>2 DEF DPoPRestart, DPoPRequest
<1>4. DPoPTypeOK'
  BY <1>1, <1>2, <1>3 DEF DPoPTypeOK, DPoPRestart
<1>5. InHand' /\ Accepted' /\ FirstInWindow'
  BY <1>1, <1>2, <1>3 DEF InHand, Accepted, FirstInWindow, Near
<1>6. /\ StoreCounts' /\ JTIStoreBounded' /\ ReplayOnlyAfterEviction'
      /\ NothingDroppedWithinCapacity'
  BY <1>2, FS_EmptySet, StoreAssumption
     DEF StoreCounts, JTIStoreBounded, ReplayOnlyAfterEviction, NothingDroppedWithinCapacity
<1> QED
  BY <1>4, <1>5, <1>6 DEF DPoPInv

\* The invariant does not depend on the clock, nor on anything outside
\* dpopVars.
LEMMA ClockInv ==
  ASSUME DPoPInv, now' \in Nat, UNCHANGED <<set, dreq, dpopHistory>>
  PROVE  DPoPInv'
BY DEF DPoPInv, DPoPTypeOK, InHand, Accepted, FirstInWindow, Near, StoreCounts,
       JTIStoreBounded, ReplayOnlyAfterEviction, NothingDroppedWithinCapacity, dpopHistory

\* DPoPInv is inductive, and so an invariant of the proof validation.
THEOREM DPoPInvariant == DPoPSpec => []DPoPInv
<1>1. ASSUME DPoPInv, [DPoPNext]_dpopVars
      PROVE  DPoPInv'
  <2>1. now \in Nat
    BY <1>1 DEF DPoPInv, DPoPTypeOK
  <2>2. CASE DPoPTick
    BY <1>1, <2>1, <2>2, ClockInv DEF DPoPTick
  <2>3. CASE UNCHANGED dpopVars
    BY <1>1, <2>1, <2>3, ClockInv DEF dpopVars
  <2> QED
    BY <1>1, <2>2, <2>3, ValidateInv, AcceptInv, RestartInv DEF DPoPNext
<1> QED
  BY <1>1, DPoPInitInv, PTL DEF DPoPSpec

-----------------------------------------------------------------------------
\* JTIStore.Accept never lets the store outgrow jtiStoreMaxSize.
THEOREM StoreBounded == DPoPSpec => []JTIStoreBounded
<1>1. DPoPInv => JTIStoreBounded
  BY DEF DPoPInv
<1> QED
  BY <1>1, DPoPInvariant, PTL

\* JTIStore.Accept refuses the replay of every jti it has not evicted,
\* however the requests overlap.
THEOREM ReplaysRecognised == DPoPSpec => []ReplayOnlyAfterEviction
<1>1. DPoPInv => ReplayOnlyAfterEviction
  BY DEF DPoPInv
<1> QED
  BY <1>1, DPoPInvariant, PTL

\* JTIStore.Accept forgets nothing until it has accepted more than
\* jtiStoreMaxSize proofs.
THEOREM NothingForgotten == DPoPSpec => []NothingDroppedWithinCapacity
<1>1. DPoPInv => NothingDroppedWithinCapacity
  BY DEF DPoPInv
<1> QED
  BY <1>1, DPoPInvariant, PTL

\* ValidateDPoPProof accepts one proof only in requests that arrive within
\* twice dpopIATWindow of each other, evictions and restarts included.
THEOREM HorizonKept == DPoPSpec => []ReplayHorizon
<1>1. ASSUME DPoPInv PROVE ReplayHorizon
  <2> SUFFICES ASSUME NEW r \in Requests, dreq[r].outcome = "accepted"
               PROVE  dreq[r].at - firstAt[dreq[r].proof] \in -Horizon .. Horizon
    BY DEF ReplayHorizon
  <2> DEFINE p == dreq[r].proof
  <2>1. p \in Proofs /\ Near(dreq[r].at, p.iat) /\ firstAt[p] # -1 /\ Near(firstAt[p], p.iat)
    BY <1>1 DEF DPoPInv, InHand, FirstInWindow
  <2>2. dreq[r].at \in Nat /\ firstAt[p] \in Nat /\ p.iat \in Int
    BY <1>1, <2>1, ProofFields DEF DPoPInv, DPoPTypeOK, DPoPRequest
  <2>3. PICK a \in Nat, f \in Nat, i \in Int : a = dreq[r].at /\ f = firstAt[p] /\ i = p.iat
    BY <2>2, Zenon
  <2>4. Near(a, i) /\ Near(f, i)
    BY <2>1, <2>3, Zenon
  <2>5. a - f \in -Horizon .. Horizon
    BY ONLY <2>3, <2>4, a \in Nat, f \in Nat, i \in Int, StoreAssumption DEF Near, Horizon
  <2> QED
    BY <2>3, <2>5, Zenon
<1> QED
  BY <1>1, DPoPInvariant, PTL

-----------------------------------------------------------------------------
\* The client attestation: what resolving a request's client needs of its PoP.

\* validateWiaAndPop refuses a PoP that another key signed than the one the
\* attestation confirms, by value or by thumbprint.
LEMMA OtherKeyRefused ==
  ASSUME NEW wia, NEW pop, NEW a, NEW aud, NEW t, NEW k,
         k # "", pop.signedBy # k,
         wia.cnf.jwk = k \/ (wia.cnf.jwk = "" /\ wia.cnf.jkt = k)
  PROVE  ValidateWiaAndPop(wia, pop, a, aud, t) = Invalid
<1>1. ResolveCnfKey(wia, pop) = k \/ ResolveCnfKey(wia, pop) = ""
  <2>1. CASE wia.cnf.jwk = k
    BY <2>1, Zenon DEF ResolveCnfKey
  <2>2. CASE wia.cnf.jwk = "" /\ wia.cnf.jkt = k
    BY <2>2, Zenon DEF ResolveCnfKey
  <2> QED
    BY <2>1, <2>2, Zenon
<1>2. ~ (ResolveCnfKey(wia, pop) # "" /\ pop.signedBy = ResolveCnfKey(wia, pop))
  BY <1>1, Zenon
<1> QED
  BY <1>2, Zenon DEF ValidateWiaAndPop

\* It refuses a dated PoP outside its window.
LEMMA OutOfWindowRefused ==
  ASSUME NEW wia, NEW pop, NEW a, NEW aud, NEW t,
         pop.iat.dated, t - pop.iat.at \notin - IATWindow .. IATWindow
  PROVE  ValidateWiaAndPop(wia, pop, a, aud, t) = Invalid
BY DEF ValidateWiaAndPop, InWindow

\* What it admits has a PoP that parses.
LEMMA AdmittedParses ==
  ASSUME NEW wia, NEW pop, NEW a, NEW aud, NEW t,
         ValidateWiaAndPop(wia, pop, a, aud, t) # Invalid
  PROVE  pop.parses
BY DEF ValidateWiaAndPop

\* Nothing is resolved but what was sent, and the answer is Resolve's.
AttestationInv ==
  /\ \E r \in AttestedRequests : headers = r[1] /\ form = r[2]
  /\ resolved = "none" \/ resolved = Resolve(headers, form, anchor, Audience, resolvedAt)

\* The answer is what Resolve makes of one of the requests, at every time.
THEOREM AttestationInvariant == AttestationSpec => []AttestationInv
<1>1. AttestationInit => AttestationInv
  BY DEF AttestationInit, AttestationInv
<1>2. AttestationInv /\ [ResolveOnce]_attestationVars => AttestationInv'
  BY DEF AttestationInv, ResolveOnce, attestationVars
<1> QED
  BY <1>1, <1>2, PTL DEF AttestationSpec

\* Of an admitted request, the pair that decided was sent, and its answer is
\* the one validateWiaAndPop gives to that pair.
LEMMA AttestedPair ==
  ASSUME AttestationInv, Attested
  PROVE  /\ ~ FromHeaders =>
              /\ ValidateHeaders(headers, anchor, Audience, resolvedAt) = ""
              /\ form.type = "jwt-client-attestation" /\ form.assertion.sent
              /\ form.assertion.parts = 2
         /\ ValidateWiaAndPop(Decided("wia"), Decided("pop"), anchor, Audience, resolvedAt)
              = resolved
<1>1. resolved = Resolve(headers, form, anchor, Audience, resolvedAt) /\ resolved # Invalid /\ resolved # ""
  BY DEF AttestationInv, Attested
<1>2. CASE FromHeaders
  BY <1>1, <1>2 DEF FromHeaders, Resolve, ValidateHeaders, Decided
<1>3. CASE ~ FromHeaders
  <2>1. ValidateHeaders(headers, anchor, Audience, resolvedAt) = ""
    BY <1>1, <1>3 DEF FromHeaders, Resolve, ValidateHeaders
  <2>2. resolved = ValidateForm(form, anchor, Audience, resolvedAt)
    BY <1>1, <2>1 DEF Resolve
  <2> QED
    BY <1>1, <1>3, <2>1, <2>2 DEF ValidateForm, Decided
<1> QED
  BY <1>2, <1>3

\* A proof of possession serves only the attestation of the key that signed
\* it, whatever requests, keys, anchors and times there are.
THEOREM PossessionProvedHolds == AttestationSpec => []PossessionProved
<1>1. ASSUME AttestationInv PROVE PossessionProved
  <2> SUFFICES ASSUME Attested,
                      NEW k \in WalletKeys, k # "", k # Decided("pop").signedBy,
                      NEW cnf \in {[jwk |-> k, jkt |-> ""], [jwk |-> "", jkt |-> k]}
               PROVE  WithCnf(cnf) = Invalid
    BY DEF PossessionProved
  <2>0. cnf.jwk = k \/ (cnf.jwk = "" /\ cnf.jkt = k)
    <3>1. CASE cnf = [jwk |-> k, jkt |-> ""]
      BY <3>1, Zenon
    <3>2. CASE cnf = [jwk |-> "", jkt |-> k]
      BY <3>2, Zenon
    <3> QED
      BY <3>1, <3>2, Zenon
  <2>1. PICK r \in AttestedRequests : headers = r[1] /\ form = r[2]
    BY <1>1 DEF AttestationInv
  <2>2. CASE FromHeaders
    <3> DEFINE h == [headers EXCEPT !.wia.cnf = cnf]
    <3>1. headers.wia.sent /\ headers.pop.sent
      BY <2>2 DEF FromHeaders
    <3>2. {"sent", "cnf"} \subseteq DOMAIN headers.wia /\ {"wia", "pop"} \subseteq DOMAIN headers
      BY <2>1, <3>1, AttestedAssumption DEF IsWIA
    <3>3. h.wia.sent /\ h.pop = headers.pop /\ h.wia.cnf = cnf
      BY <3>1, <3>2
    <3> HIDE DEF h
    <3>4. ValidateWiaAndPop(h.wia, h.pop, anchor, Audience, resolvedAt) = Invalid
      <4>1. h.pop.signedBy # k
        BY <2>2, <3>3, Zenon DEF Decided
      <4>2. h.wia.cnf.jwk = k \/ (h.wia.cnf.jwk = "" /\ h.wia.cnf.jkt = k)
        BY <2>0, <3>3, Zenon
      <4> QED
        BY <4>1, <4>2, OtherKeyRefused, Zenon
    <3>5. ValidateHeaders(h, anchor, Audience, resolvedAt) = Invalid
      BY <3>1, <3>3, <3>4 DEF ValidateHeaders
    <3>6. Resolve(h, form, anchor, Audience, resolvedAt) = Invalid
      BY <3>5 DEF Resolve, Invalid
    <3> QED
      BY <2>2, <3>6, Zenon DEF WithCnf, h
  <2>3. CASE ~ FromHeaders
    <3> DEFINE f == [form EXCEPT !.assertion.wia.cnf = cnf]
    <3>1. /\ ValidateHeaders(headers, anchor, Audience, resolvedAt) = ""
          /\ form.type = "jwt-client-attestation" /\ form.assertion.sent
          /\ form.assertion.parts = 2
      BY <1>1, <2>3, AttestedPair
    <3>2. /\ {"type", "assertion"} \subseteq DOMAIN form
          /\ {"sent", "parts", "wia", "pop"} \subseteq DOMAIN form.assertion
          /\ {"sent", "cnf"} \subseteq DOMAIN form.assertion.wia
      BY <2>1, <3>1, AttestedAssumption DEF IsWIA
    <3>3. /\ f.type = form.type /\ f.assertion.sent /\ f.assertion.parts = 2
          /\ f.assertion.pop = form.assertion.pop /\ f.assertion.wia.cnf = cnf
      BY <3>1, <3>2
    <3> HIDE DEF f
    <3>4. ValidateWiaAndPop(f.assertion.wia, f.assertion.pop, anchor, Audience, resolvedAt)
            = Invalid
      <4>1. f.assertion.pop.signedBy # k
        BY <2>3, <3>3, Zenon DEF Decided
      <4>2. \/ f.assertion.wia.cnf.jwk = k
            \/ f.assertion.wia.cnf.jwk = "" /\ f.assertion.wia.cnf.jkt = k
        BY <2>0, <3>3, Zenon
      <4> QED
        BY <4>1, <4>2, OtherKeyRefused, Zenon
    <3>5. ValidateForm(f, anchor, Audience, resolvedAt) = Invalid
      BY <3>1, <3>3, <3>4 DEF ValidateForm
    <3>6. Resolve(headers, f, anchor, Audience, resolvedAt) = Invalid
      BY <3>1, <3>5 DEF Resolve
    <3> QED
      BY <2>3, <3>6, Zenon DEF WithCnf, f
  <2> QED
    BY <2>2, <2>3
<1> QED
  BY <1>1, AttestationInvariant, PTL

\* A dated PoP stops working past its window, whatever requests, anchors and
\* times there are.
THEOREM PoPExpiresHolds == AttestationSpec => []PoPExpires
<1>1. ASSUME AttestationInv PROVE PoPExpires
  <2> SUFFICES ASSUME Attested, Decided("pop").iat.dated,
                      NEW d \in {- IATWindow - 1, IATWindow + 1}
               PROVE  Resolve(headers, form, anchor, Audience, Decided("pop").iat.at + d)
                        = Invalid
    BY DEF PoPExpires
  <2>1. PICK r \in AttestedRequests : headers = r[1] /\ form = r[2]
    BY <1>1 DEF AttestationInv
  <2>2. /\ ~ FromHeaders =>
             /\ ValidateHeaders(headers, anchor, Audience, resolvedAt) = ""
             /\ form.type = "jwt-client-attestation" /\ form.assertion.sent
             /\ form.assertion.parts = 2
        /\ Decided("pop").parses
    <3>1. ValidateWiaAndPop(Decided("wia"), Decided("pop"), anchor, Audience, resolvedAt)
            # Invalid
      BY <1>1, AttestedPair DEF Attested
    <3> QED
      BY <1>1, <3>1, AttestedPair, AdmittedParses
  <2>3. Decided("pop").iat.at \in Int
    BY <2>1, <2>2, AttestedAssumption DEF Decided, FromHeaders, IsPoP, Dated
  <2> DEFINE t == Decided("pop").iat.at + d
  <2>4. t - Decided("pop").iat.at \notin - IATWindow .. IATWindow
    BY <2>3, IATWindowAssumption
  <2>5. \A wia : ValidateWiaAndPop(wia, Decided("pop"), anchor, Audience, t) = Invalid
    <3> HIDE DEF t
    <3> QED
      BY <2>4, OutOfWindowRefused
  <2> HIDE DEF t
  <2>6. CASE FromHeaders
    <3>1. ValidateHeaders(headers, anchor, Audience, t) = Invalid
      BY <2>5, <2>6 DEF FromHeaders, ValidateHeaders, Decided
    <3> QED
      BY <3>1 DEF Resolve, Invalid, t
  <2>7. CASE ~ FromHeaders
    <3>1. ValidateForm(form, anchor, Audience, t) = Invalid
      BY <2>2, <2>5, <2>7 DEF ValidateForm, Decided
    <3>2. ValidateHeaders(headers, anchor, Audience, t) \in {"", Invalid}
      BY <2>2, <2>7 DEF ValidateHeaders, ValidateWiaAndPop, Invalid
    <3> QED
      BY <3>1, <3>2 DEF Resolve, Invalid, t
  <2> QED
    BY <2>6, <2>7
<1> QED
  BY <1>1, AttestationInvariant, PTL

-----------------------------------------------------------------------------
\* The identification page: NotAskedTwice, for every number of tabs, requests
\* and sessions and every choice of the lifetimes that satisfies
\* PageTimeAssumption.

\* An identification was made in session s, after its request was pushed: it is
\* no older than that, so it is live whenever the request_uri is.
Backed(s) ==
  /\ s \in PageSessions /\ owner[s] \in RequestURIs
  /\ identified[s] <= pushed[owner[s]]

\* The inductive invariant: the cookie in the jar, and every cookie on its way
\* to it, names such a session; a tab on the page shows a session that was
\* opened; a session that was not has no replay; and an answer leads somewhere.
JarBacked == jar.session # "" => Backed(jar.session)
CookiesBacked == \A t \in PageTabs : answer[t].cookie => Backed(shown[t])
ShownOpened == \A t \in PageTabs : shown[t] # "" => owner[shown[t]] # ""
PagesShown == \A t \in PageTabs : phase[t] \in OnPage => shown[t] # ""
FreshUntouched == \A s \in PageSessions : owner[s] = "" => replay[s] = NoReplay
AnswersLead == \A t \in PageTabs : answer[t] # NoAnswer => answer[t].to # ""

PageInv ==
  /\ PageTypeOK
  /\ JarBacked /\ CookiesBacked
  /\ ShownOpened /\ PagesShown
  /\ FreshUntouched /\ AnswersLead

AnswerType == [to : {"", "error", "authorize", "client"}, cookie : BOOLEAN]
ReplayType == [to : {"", "authorize", "client"}, age : 0 .. Ancient]
JarType == [session : PageSessions \cup {""}, age : 0 .. Ancient]

\* The ages, and the records the page is built from.
LEMMA PageRecords ==
  /\ 0 \in 0 .. Ancient /\ Ancient \in 0 .. Ancient /\ Ancient \in 0 .. Never
  /\ 0 \in 0 .. Never /\ Never \in 0 .. Never
  /\ NoAnswer \in AnswerType /\ NoAnswer.cookie = FALSE
  /\ Error \in AnswerType /\ Error.cookie = FALSE /\ Error.to # ""
  /\ NoReplay \in ReplayType
  /\ NoCookie \in JarType /\ NoCookie.session = ""
BY PageTimeAssumption DEF Ancient, Never, NoAnswer, Error, NoReplay, NoCookie, AnswerType,
     ReplayType, JarType

\* A cookie just set, and an age as a number.
LEMMA NewCookie ==
  ASSUME NEW s \in PageSessions
  PROVE  [session |-> s, age |-> 0] \in JarType /\ [session |-> s, age |-> 0].session = s
BY PageRecords DEF JarType

LEMMA AgesAreNumbers ==
  /\ \A n \in 0 .. Ancient : n \in Nat /\ 0 <= n
  /\ \A n \in 0 .. Never : n \in Nat
BY PageTimeAssumption DEF Ancient, Never

\* PageInv holds when the wallets have sent the browser to /authorize.
LEMMA PageInitInv == PageInit => PageInv
<1> SUFFICES ASSUME PageInit PROVE PageInv
  OBVIOUS
<1>1. PageTypeOK
  BY PageRecords, Zenon DEF PageInit, PageTypeOK, Phases, AnswerType, ReplayType, JarType
<1>2. JarBacked /\ CookiesBacked
  BY PageRecords, Zenon DEF PageInit, JarBacked, CookiesBacked
<1>3. ShownOpened /\ FreshUntouched /\ AnswersLead
  BY Zenon DEF PageInit, ShownOpened, FreshUntouched, AnswersLead
<1>4. "leaving" \notin OnPage
  BY DEF OnPage, Awaiting
<1>5. PagesShown
  BY <1>4, Zenon DEF PageInit, PagesShown
<1> QED
  BY <1>1, <1>2, <1>3, <1>5, Zenon DEF PageInv

\* What was identified stays so, as long as no session changes hands.
LEMMA BackedStays ==
  ASSUME PageTypeOK, pushed' = pushed,
         \A s \in PageSessions : owner[s] # "" => owner'[s] = owner[s],
         \A s \in PageSessions : identified'[s] = identified[s] \/ identified'[s] = 0,
         NEW s, Backed(s)
  PROVE  Backed(s)'
<1>1. PICK u \in RequestURIs : u = owner[s]
  BY Zenon DEF Backed
<1>2. s \in PageSessions /\ owner'[s] = u
  BY <1>1, PageNamesAssumption, Zenon DEF Backed
<1>3. 0 <= pushed[u]
  BY AgesAreNumbers, Zenon DEF PageTypeOK
<1>4. identified'[s] <= pushed[u]
  BY <1>1, <1>2, <1>3, Zenon DEF Backed
<1> QED
  BY <1>2, <1>4, Zenon DEF Backed

\* A step of the page in tab t that talks to nobody.
LEMMA PageStepsInv ==
  ASSUME PageInv, NEW t \in PageTabs,
         ClaimsArrive(t) \/ OpenForm(t) \/ BackToIdentify(t) \/ FailHere(t)
  PROVE  PageInv'
<1>1. UNCHANGED <<uri, shown, answer, jar, pushed, owner, pendingAuth, replay, identified,
                  decision, issued>>
  BY Zenon DEF ClaimsArrive, OpenForm, BackToIdentify, FailHere, server, history
<1>2. PageTypeOK /\ JarBacked /\ CookiesBacked /\ ShownOpened /\ PagesShown /\ FreshUntouched
      /\ AnswersLead
  BY Zenon DEF PageInv
<1>3. claims' \in [PageTabs -> BOOLEAN]
  BY <1>2, Zenon DEF ClaimsArrive, OpenForm, BackToIdentify, FailHere, PageTypeOK
<1>4. \/ phase' = phase
      \/ /\ phase[t] \in {"identify", "form", "error"}
         /\ \E p \in {"form", "identify", "error"} : phase' = [phase EXCEPT ![t] = p]
  BY Zenon DEF ClaimsArrive, OpenForm, BackToIdentify, FailHere, Show
<1>5. /\ phase' \in [PageTabs -> Phases]
      /\ \A o \in PageTabs : phase'[o] \in OnPage => phase[o] \in OnPage
      /\ \A o \in PageTabs : phase[o] \in Awaiting => phase'[o] \in Awaiting
  <2>1. phase \in [PageTabs -> Phases]
    BY <1>2, Zenon DEF PageTypeOK
  <2>2. CASE phase' = phase
    BY <2>1, <2>2, Zenon
  <2>3. ASSUME NEW p \in {"form", "identify", "error"}, phase' = [phase EXCEPT ![t] = p],
               phase[t] \in {"identify", "form", "error"}
        PROVE  <1>5!:
    <3>1. p \in Phases /\ phase[t] \in OnPage /\ phase[t] \notin Awaiting
      BY <2>3 DEF Phases, OnPage, Awaiting
    <3> QED
      BY <2>1, <2>3, <3>1, Zenon
  <2> QED
    BY <1>4, <2>2, <2>3, Zenon
<1>6. PageTypeOK'
  BY <1>1, <1>2, <1>3, <1>5, Zenon DEF PageTypeOK
<1>7. JarBacked' /\ CookiesBacked'
  BY <1>1, <1>2, Zenon DEF JarBacked, CookiesBacked, Backed
<1>8. ShownOpened' /\ FreshUntouched' /\ AnswersLead' /\ PagesShown'
  BY <1>1, <1>2, <1>5, Zenon DEF ShownOpened, FreshUntouched, AnswersLead, PagesShown
<1> QED
  BY <1>6, <1>7, <1>8, Zenon DEF PageInv

\* The cookie of an answer that lands in the jar is backed.
LEMMA JarWithBacked ==
  ASSUME PageInv, NEW t \in PageTabs
  PROVE  JarWith(t) \in JarType /\ (JarWith(t).session # "" => Backed(JarWith(t).session))
<1>1. CASE answer[t].cookie
  <2>1. PICK s : s = shown[t]
    OBVIOUS
  <2>2. Backed(s) /\ s \in PageSessions
    BY <1>1, <2>1, Zenon DEF PageInv, CookiesBacked, Backed
  <2>3. JarWith(t) = [session |-> s, age |-> 0]
    BY <1>1, <2>1, Zenon DEF JarWith
  <2>4. JarWith(t) \in JarType /\ JarWith(t).session = s
    BY <2>2, <2>3, NewCookie, Zenon
  <2> QED
    BY <2>2, <2>4, Zenon
<1>2. CASE ~ answer[t].cookie
  <2>1. JarWith(t) = jar
    BY <1>2, Zenon DEF JarWith
  <2> QED
    BY <2>1, Zenon DEF PageInv, PageTypeOK, JarBacked, JarType
<1> QED
  BY <1>1, <1>2

\* An answer to tab t ends, whether it arrives or is lost.
LEMMA AnswerEnds ==
  ASSUME PageInv, NEW t \in PageTabs, jar' \in {jar, JarWith(t)}, Answer(t, NoAnswer),
         NEW p \in Phases, Show(t, p), claims' \in [PageTabs -> BOOLEAN],
         uri' \in [PageTabs -> RequestURIs],
         shown' \in [PageTabs -> PageSessions \cup {""}],
         \A o \in PageTabs : o # t => shown'[o] = shown[o],
         shown'[t] # "" /\ owner[shown'[t]] # "",
         UNCHANGED <<server, history>>
  PROVE  PageInv'
<1>1. UNCHANGED <<pushed, owner, pendingAuth, replay, identified, decision, issued>>
  BY Zenon DEF server, history
<1>2. PageTypeOK /\ JarBacked /\ CookiesBacked /\ ShownOpened /\ PagesShown /\ FreshUntouched
      /\ AnswersLead
  BY Zenon DEF PageInv
<1>3. /\ answer' \in [PageTabs -> AnswerType] /\ answer'[t] = NoAnswer
      /\ \A o \in PageTabs : o # t => answer'[o] = answer[o]
  <2>1. answer \in [PageTabs -> AnswerType]
    BY <1>2, Zenon DEF PageTypeOK, AnswerType
  <2>2. answer' = [answer EXCEPT ![t] = NoAnswer] /\ NoAnswer \in AnswerType
    BY PageRecords, Zenon DEF Answer
  <2> QED
    BY <2>1, <2>2, Zenon
<1>4. /\ phase' \in [PageTabs -> Phases]
      /\ \A o \in PageTabs : o # t => phase'[o] = phase[o]
  <2>1. phase \in [PageTabs -> Phases]
    BY <1>2, Zenon DEF PageTypeOK
  <2> QED
    BY <2>1, Zenon DEF Show
<1>5. jar' \in JarType /\ (jar'.session # "" => Backed(jar'.session))
  <2>1. CASE jar' = jar
    BY <1>2, <2>1, Zenon DEF PageTypeOK, JarType, JarBacked
  <2>2. CASE jar' = JarWith(t)
    BY <2>2, JarWithBacked, Zenon
  <2> QED
    BY <2>1, <2>2, Zenon
<1>6. PageTypeOK'
  BY <1>1, <1>2, <1>3, <1>4, <1>5, Zenon DEF PageTypeOK, AnswerType, JarType
<1>7. JarBacked'
  BY <1>1, <1>5, Zenon DEF JarBacked, Backed
<1>8. CookiesBacked'
  BY <1>1, <1>2, <1>3, PageRecords, Zenon DEF CookiesBacked, Backed
<1>9. ShownOpened' /\ PagesShown'
  BY <1>1, <1>2, <1>4, Zenon DEF ShownOpened, PagesShown
<1>10. FreshUntouched' /\ AnswersLead'
  BY <1>1, <1>2, <1>3, Zenon DEF FreshUntouched, AnswersLead
<1> QED
  BY <1>6, <1>7, <1>8, <1>9, <1>10, Zenon DEF PageInv

\* The page shown again, in this tab or another, and answers that arrive or are
\* lost, preserve PageInv.
LEMMA AnswersInv ==
  ASSUME PageInv, NEW t \in PageTabs,
         AnswerArrives(t) \/ AnswerLost(t) \/ \E o \in PageTabs : ShowPage(t, o)
  PROVE  PageInv'
<1>1. PageTypeOK /\ ShownOpened /\ PagesShown /\ AnswersLead
  BY Zenon DEF PageInv
<1>2. {"success", "leaving", "rejected", "error", "identify"} \subseteq Phases
  BY DEF Phases, OnPage
<1>3. ASSUME answer[t] # NoAnswer
      PROVE  /\ phase[t] \in {"submitting", "denying"}
             /\ answer[t].to \in {"error", "authorize", "client"}
             /\ shown[t] # "" /\ owner[shown[t]] # ""
  <2>1. phase[t] \in Awaiting
    BY <1>1, <1>3, Zenon DEF PageTypeOK
  <2>2. phase[t] \in OnPage
    BY <2>1, Zenon DEF OnPage
  <2>3. answer[t] \in AnswerType /\ answer[t].to # ""
    BY <1>1, <1>3, Zenon DEF AnswersLead, PageTypeOK, AnswerType
  <2>4. answer[t].to \in {"error", "authorize", "client"}
    BY <2>3 DEF AnswerType
  <2>5. shown[t] # "" /\ owner[shown[t]] # ""
    BY <1>1, <2>2, Zenon DEF PagesShown, ShownOpened
  <2> QED
    BY <2>1, <2>4, <2>5, Zenon DEF Awaiting
<1>4. CASE AnswerArrives(t)
  <2>1. PICK p : /\ p = CASE answer[t].to = "authorize" /\ phase[t] = "submitting" -> "success"
                      [] answer[t].to = "authorize" /\ phase[t] = "denying" -> "leaving"
                      [] answer[t].to = "client" -> "rejected"
                      [] answer[t].to = "error" -> "error"
    OBVIOUS
  <2>2. Show(t, p)
    BY <1>4, <2>1 DEF AnswerArrives
  <2>3. /\ answer[t] # NoAnswer /\ jar' = JarWith(t) /\ Answer(t, NoAnswer)
        /\ UNCHANGED <<claims, uri, shown, server, history>>
    BY <1>4, Zenon DEF AnswerArrives
  <2>4. p \in {"success", "leaving", "rejected", "error"}
    BY <1>3, <2>1, <2>3
  <2> QED
    BY <1>1, <1>2, <1>3, <2>2, <2>3, <2>4, AnswerEnds, Zenon DEF PageTypeOK
<1>5. CASE AnswerLost(t)
  BY <1>1, <1>2, <1>3, <1>5, AnswerEnds, Zenon DEF AnswerLost, PageTypeOK
<1>6. ASSUME NEW o \in PageTabs, ShowPage(t, o) PROVE PageInv'
  <2>1. shown[o] # "" /\ shown[o] \in PageSessions \cup {""} /\ owner[shown[o]] # ""
    BY <1>1, <1>6, Zenon DEF ShowPage, ShownOpened, PageTypeOK
  <2>2. /\ shown' \in [PageTabs -> PageSessions \cup {""}] /\ shown'[t] = shown[o]
        /\ \A x \in PageTabs : x # t => shown'[x] = shown[x]
    <3>1. PICK v \in PageSessions \cup {""} : v = shown[o]
      BY <2>1, Zenon
    <3>2. shown' = [shown EXCEPT ![t] = v]
      BY <1>6, <3>1, Zenon DEF ShowPage
    <3>3. shown \in [PageTabs -> PageSessions \cup {""}]
      BY <1>1, Zenon DEF PageTypeOK
    <3> QED
      BY <3>1, <3>2, <3>3, Zenon
  <2>3. claims' \in [PageTabs -> BOOLEAN] /\ uri' \in [PageTabs -> RequestURIs]
    BY <1>1, <1>6, Zenon DEF ShowPage, PageTypeOK
  <2>4. /\ Show(t, "identify") /\ Answer(t, NoAnswer) /\ jar' \in {jar, JarWith(t)}
        /\ UNCHANGED <<server, history>>
    BY <1>6, Zenon DEF ShowPage, Answer
  <2> QED
    BY <1>2, <2>1, <2>2, <2>3, <2>4, AnswerEnds, Zenon
<1> QED
  BY <1>4, <1>5, <1>6, Zenon

-----------------------------------------------------------------------------
\* Tab t is answered, with a cookie only if s was identified now.
AnsweredFor(t, s) ==
  \E a \in AnswerType : Answer(t, a) /\ a.to # "" /\ (a.cookie => identified'[s] = 0)

\* What the two handlers leave behind for session s, and answer tab t.
LEMMA HandlerFacts ==
  ASSUME PageInv, NEW t \in PageTabs, NEW s \in PageSessions, owner[s] # "",
         Complete(t, s) \/ Reject(t, s)
  PROVE  /\ pendingAuth' \in [PageSessions -> BOOLEAN]
         /\ replay' \in [PageSessions -> ReplayType]
         /\ identified' \in [PageSessions -> 0 .. Never]
         /\ \A x \in PageSessions : identified'[x] = identified[x] \/ identified'[x] = 0
         /\ \A x \in PageSessions : pendingAuth'[x] => replay'[x] = NoReplay
         /\ \A x \in PageSessions : x # s => replay'[x] = replay[x]
         /\ AnsweredFor(t, s)
<1>1. PageTypeOK
  BY Zenon DEF PageInv
<1>2. /\ pendingAuth \in [PageSessions -> BOOLEAN] /\ replay \in [PageSessions -> ReplayType]
      /\ identified \in [PageSessions -> 0 .. Never]
      /\ \A x \in PageSessions : pendingAuth[x] => replay[x] = NoReplay
  BY <1>1, Zenon DEF PageTypeOK, ReplayType
<1>3. CASE Replay(t, s)
  <2>1. PICK r : r = replay[s].to
    OBVIOUS
  <2>2. r \in {"authorize", "client"}
    BY <1>2, <1>3, <2>1 DEF Replay, Replayed, ReplayType
  <2>3. Answer(t, [to |-> r, cookie |-> FALSE])
    BY <1>3, <2>1, Zenon DEF Replay
  <2>4. PICK a : a = [to |-> r, cookie |-> FALSE]
    OBVIOUS
  <2>5. a \in AnswerType /\ a.to # "" /\ a.cookie = FALSE
    BY <2>2, <2>4 DEF AnswerType
  <2>6. UNCHANGED <<pendingAuth, replay, identified>>
    BY <1>3, Zenon DEF Replay
  <2> QED
    BY <1>2, <2>3, <2>4, <2>5, <2>6, Zenon DEF AnsweredFor
<1>4. ASSUME Consume(s)
      PROVE  /\ pendingAuth' \in [PageSessions -> BOOLEAN]
             /\ \A x \in PageSessions : pendingAuth'[x] => x # s /\ pendingAuth[x]
  BY <1>2, <1>4, Zenon DEF Consume
<1>5. ASSUME NEW to \in {"authorize", "client"}, CacheRedirect(s, to)
      PROVE  /\ replay' \in [PageSessions -> ReplayType]
             /\ \A x \in PageSessions : x # s => replay'[x] = replay[x]
  <2>1. PICK r : r = [to |-> to, age |-> 0]
    OBVIOUS
  <2>2. r \in ReplayType
    BY <2>1, PageRecords DEF ReplayType
  <2> QED
    BY <1>2, <1>5, <2>1, <2>2, Zenon DEF CacheRedirect
<1>6. ASSUME NEW to \in {"authorize", "client"}, NEW c \in BOOLEAN,
             Answer(t, [to |-> to, cookie |-> c])
      PROVE  \E a \in AnswerType : Answer(t, a) /\ a.to # "" /\ a.cookie = c
  <2>1. PICK a : a = [to |-> to, cookie |-> c]
    OBVIOUS
  <2>2. a \in AnswerType /\ a.to # "" /\ a.cookie = c
    BY <2>1 DEF AnswerType
  <2> QED
    BY <1>6, <2>1, <2>2, Zenon
<1>7. CASE /\ Consume(s) /\ Answer(t, [to |-> "authorize", cookie |-> TRUE])
           /\ identified' = [identified EXCEPT ![s] = 0] /\ CacheRedirect(s, "authorize")
  <2>1. /\ identified' \in [PageSessions -> 0 .. Never] /\ identified'[s] = 0
        /\ \A x \in PageSessions : identified'[x] = identified[x] \/ identified'[x] = 0
    BY <1>2, <1>7, PageRecords, Zenon
  <2> QED
    BY <1>2, <1>4, <1>5, <1>6, <1>7, <2>1, Zenon DEF AnsweredFor
<1>8. CASE /\ Consume(s) /\ Answer(t, [to |-> "client", cookie |-> FALSE])
           /\ CacheRedirect(s, "client") /\ UNCHANGED identified
  BY <1>2, <1>4, <1>5, <1>6, <1>8, Zenon DEF AnsweredFor
<1>9. CASE /\ Consume(s) \/ UNCHANGED pendingAuth
           /\ Answer(t, Error) /\ UNCHANGED <<identified, replay>>
  BY <1>2, <1>4, <1>9, PageRecords, Zenon DEF AnsweredFor
<1> QED
  BY <1>3, <1>7, <1>8, <1>9, Zenon DEF Complete, Reject

\* Submitting the form, and denying, preserve PageInv: a cookie goes out only
\* with an identification made now.
LEMMA PostInv ==
  ASSUME PageInv, NEW t \in PageTabs, Submit(t) \/ Deny(t)
  PROVE  PageInv'
<1>1. PageTypeOK /\ JarBacked /\ CookiesBacked /\ ShownOpened /\ PagesShown /\ FreshUntouched
      /\ AnswersLead
  BY Zenon DEF PageInv
<1>2. PICK s : s = shown[t]
  OBVIOUS
<1>3. s \in PageSessions /\ owner[s] # ""
  <2>1. phase[t] \in OnPage
    BY DEF Submit, Deny, OnPage
  <2> QED
    BY <1>1, <1>2, <2>1, Zenon DEF PagesShown, ShownOpened, PageTypeOK
<1>4. UNCHANGED <<claims, uri, shown, jar, pushed, owner, issued>>
  BY Zenon DEF Submit, Deny
<1>5. Complete(t, s) \/ Reject(t, s)
  BY <1>2, Zenon DEF Submit, Deny
<1>6. /\ pendingAuth' \in [PageSessions -> BOOLEAN]
      /\ replay' \in [PageSessions -> ReplayType]
      /\ identified' \in [PageSessions -> 0 .. Never]
      /\ \A x \in PageSessions : identified'[x] = identified[x] \/ identified'[x] = 0
      /\ \A x \in PageSessions : pendingAuth'[x] => replay'[x] = NoReplay
      /\ \A x \in PageSessions : x # s => replay'[x] = replay[x]
  BY <1>3, <1>5, HandlerFacts, Zenon
<1>7. PICK a \in AnswerType : Answer(t, a) /\ a.to # "" /\ (a.cookie => identified'[s] = 0)
  <2>1. AnsweredFor(t, s)
    BY <1>3, <1>5, HandlerFacts, Zenon
  <2> QED
    BY <2>1, Zenon DEF AnsweredFor
<1>8. /\ answer' \in [PageTabs -> AnswerType] /\ answer'[t] = a
      /\ \A o \in PageTabs : o # t => answer'[o] = answer[o]
  <2>1. answer \in [PageTabs -> AnswerType]
    BY <1>1, Zenon DEF PageTypeOK, AnswerType
  <2>2. answer' = [answer EXCEPT ![t] = a]
    BY <1>7, Zenon DEF Answer
  <2> QED
    BY <2>1, <2>2, Zenon
<1>9. /\ phase' \in [PageTabs -> Phases] /\ phase'[t] \in Awaiting
      /\ \A o \in PageTabs : o # t => phase'[o] = phase[o]
  <2>1. PICK p \in Awaiting : Show(t, p)
    BY Zenon DEF Submit, Deny, Awaiting
  <2>2. p \in Phases
    BY <2>1, Zenon DEF Phases, OnPage
  <2> QED
    BY <1>1, <2>1, <2>2, Zenon DEF Show, PageTypeOK
<1>10. decision' \in [PageSessions -> {"", "submitted", "denied"}]
  <2>1. PICK d \in {"submitted", "denied"} :
          decision' = decision \/ decision' = [decision EXCEPT ![s] = d]
    BY <1>2, Zenon DEF Submit, Deny, Decide
  <2> QED
    BY <1>1, <2>1, Zenon DEF PageTypeOK
<1>11. PageTypeOK'
  BY <1>1, <1>4, <1>6, <1>8, <1>9, <1>10, Zenon DEF PageTypeOK, AnswerType, ReplayType
<1>12. \A x : Backed(x) => Backed(x)'
  BY <1>1, <1>4, <1>6, BackedStays, Zenon
<1>13. JarBacked'
  BY <1>1, <1>4, <1>12, Zenon DEF JarBacked
<1>14. CookiesBacked'
  <2>1. ASSUME a.cookie PROVE Backed(shown[t])'
    <3>1. PICK u \in RequestURIs : u = owner[s]
      BY <1>1, <1>3, Zenon DEF PageTypeOK
    <3>2. 0 <= pushed[u]
      BY <1>1, AgesAreNumbers, Zenon DEF PageTypeOK
    <3>3. identified'[s] <= pushed[u]
      BY <1>7, <2>1, <3>2, Zenon
    <3> QED
      BY <1>2, <1>3, <1>4, <3>1, <3>3, Zenon DEF Backed
  <2> QED
    BY <1>1, <1>4, <1>8, <1>12, <2>1, Zenon DEF CookiesBacked
<1>15. ShownOpened' /\ PagesShown'
  BY <1>1, <1>2, <1>3, <1>4, <1>9, PageNamesAssumption, Zenon DEF ShownOpened, PagesShown
<1>16. FreshUntouched' /\ AnswersLead'
  BY <1>1, <1>3, <1>4, <1>6, <1>7, <1>8, Zenon DEF FreshUntouched, AnswersLead
<1> QED
  BY <1>11, <1>13, <1>14, <1>15, <1>16, Zenon DEF PageInv

\* A visit to /authorize preserves PageInv: a session it opens is fresh.
LEMMA VisitAuthorizeInv ==
  ASSUME PageInv, NEW t \in PageTabs, VisitAuthorize(t)
  PROVE  PageInv'
<1>1. PageTypeOK /\ JarBacked /\ CookiesBacked /\ ShownOpened /\ PagesShown /\ FreshUntouched
      /\ AnswersLead
  BY Zenon DEF PageInv
<1>2. UNCHANGED <<uri, answer, jar, pushed, replay, decision, identified>>
  BY Zenon DEF VisitAuthorize, IdentifiedAfter
<1>3. PICK p \in {"refused", "completed", "identify"} : Show(t, p)
  BY Zenon DEF VisitAuthorize
<1>4. /\ phase' \in [PageTabs -> Phases] /\ phase'[t] = p
      /\ \A o \in PageTabs : o # t => phase'[o] = phase[o]
  <2>1. p \in Phases
    BY <1>3 DEF Phases, OnPage
  <2> QED
    BY <1>1, <1>3, <2>1, Zenon DEF Show, PageTypeOK
<1>5. answer[t] = NoAnswer
  <2>1. phase[t] \notin Awaiting
    BY DEF VisitAuthorize, Awaiting
  <2> QED
    BY <1>1, <2>1, Zenon DEF PageTypeOK
<1>6. claims' \in [PageTabs -> BOOLEAN]
  BY <1>1, Zenon DEF VisitAuthorize, PageTypeOK
<1>7. issued' \in [PageSessions -> {"", "submitted", "denied"}]
  <2>1. \/ issued' = issued
        \/ /\ jar.session # ""
           /\ issued' = [issued EXCEPT ![jar.session] = decision[jar.session]]
    BY Zenon DEF VisitAuthorize, CheckIdentified
  <2>2. jar.session # "" => jar.session \in PageSessions
    BY <1>1, Zenon DEF JarBacked, Backed
  <2>3. CASE issued' = issued
    BY <1>1, <2>3, Zenon DEF PageTypeOK
  <2>4. ASSUME NEW i \in PageSessions, issued' = [issued EXCEPT ![i] = decision[i]]
        PROVE  issued' \in [PageSessions -> {"", "submitted", "denied"}]
    <3>1. decision[i] \in {"", "submitted", "denied"}
      BY <1>1, Zenon DEF PageTypeOK
    <3> QED
      BY <1>1, <2>4, <3>1, Zenon DEF PageTypeOK
  <2> QED
    BY <2>1, <2>2, <2>3, <2>4, Zenon
<1>8. \/ p # "identify" /\ UNCHANGED <<shown, owner, pendingAuth>>
      \/ \E s \in PageSessions :
           /\ owner[s] = ""
           /\ owner' = [owner EXCEPT ![s] = uri[t]]
           /\ pendingAuth' = [pendingAuth EXCEPT ![s] = TRUE]
           /\ shown' = [shown EXCEPT ![t] = s]
  <2>1. phase'[t] \in {"refused", "completed"} \/ phase'[t] = "identify"
    BY <1>3, <1>4, Zenon
  <2>2. "refused" # "identify" /\ "completed" # "identify"
    OBVIOUS
  <2>3. ASSUME NEW q \in {"refused", "completed"}, Show(t, q) PROVE p # "identify"
    BY <1>1, <1>4, <2>2, <2>3, Zenon DEF Show, PageTypeOK
  <2> QED
    BY <2>3, Zenon DEF VisitAuthorize
<1>9. CASE p # "identify" /\ UNCHANGED <<shown, owner, pendingAuth>>
  <2>1. PageTypeOK'
    BY <1>1, <1>2, <1>4, <1>5, <1>6, <1>7, <1>9, Zenon DEF PageTypeOK
  <2>2. JarBacked' /\ CookiesBacked'
    BY <1>1, <1>2, <1>9, Zenon DEF JarBacked, CookiesBacked, Backed
  <2>3. p \notin OnPage
    BY <1>3, <1>9 DEF OnPage, Awaiting
  <2>4. ShownOpened' /\ PagesShown' /\ FreshUntouched' /\ AnswersLead'
    BY <1>1, <1>2, <1>4, <1>9, <2>3, Zenon
       DEF ShownOpened, PagesShown, FreshUntouched, AnswersLead
  <2> QED
    BY <2>1, <2>2, <2>4, Zenon DEF PageInv
<1>10. ASSUME NEW s \in PageSessions, owner[s] = "", owner' = [owner EXCEPT ![s] = uri[t]],
              pendingAuth' = [pendingAuth EXCEPT ![s] = TRUE],
              shown' = [shown EXCEPT ![t] = s]
       PROVE  PageInv'
  <2>1. uri[t] \in RequestURIs /\ uri[t] # ""
    <3>1. uri[t] \in RequestURIs
      BY <1>1, Zenon DEF PageTypeOK
    <3> QED
      BY <3>1, PageNamesAssumption, Zenon
  <2>2. /\ owner' \in [PageSessions -> RequestURIs \cup {""}] /\ owner'[s] = uri[t]
        /\ \A x \in PageSessions : x # s => owner'[x] = owner[x]
    BY <1>1, <1>10, <2>1, Zenon DEF PageTypeOK
  <2>3. /\ shown' \in [PageTabs -> PageSessions \cup {""}] /\ shown'[t] = s
        /\ \A o \in PageTabs : o # t => shown'[o] = shown[o]
    BY <1>1, <1>10, Zenon DEF PageTypeOK
  <2>4. /\ pendingAuth' \in [PageSessions -> BOOLEAN]
        /\ \A x \in PageSessions : pendingAuth'[x] => replay[x] = NoReplay
    BY <1>1, <1>10, Zenon DEF PageTypeOK, FreshUntouched
  <2>5. PageTypeOK'
    BY <1>1, <1>2, <1>4, <1>5, <1>6, <1>7, <2>2, <2>3, <2>4, Zenon DEF PageTypeOK
  <2>6. \A x : Backed(x) => Backed(x)'
    BY <1>1, <1>2, <1>10, <2>2, BackedStays, Zenon
  <2>7. JarBacked' /\ CookiesBacked'
    <3>1. ~ answer[t].cookie
      BY <1>5, PageRecords, Zenon
    <3> QED
      BY <1>1, <1>2, <2>3, <2>6, <3>1, Zenon DEF JarBacked, CookiesBacked
  <2>8. ShownOpened'
    <3>1. ASSUME NEW o \in PageTabs, shown'[o] # "" PROVE owner'[shown'[o]] # ""
      <4>1. CASE shown'[o] = s
        BY <2>1, <2>2, <4>1, Zenon
      <4>2. CASE shown'[o] # s
        <5>1. shown'[o] = shown[o] /\ shown'[o] \in PageSessions
          BY <2>3, <3>1, <4>2, Zenon
        <5> QED
          BY <1>1, <2>2, <3>1, <4>2, <5>1, Zenon DEF ShownOpened
      <4> QED
        BY <4>1, <4>2
    <3> QED
      BY <3>1, Zenon DEF ShownOpened
  <2>9. PagesShown'
    BY <1>1, <1>4, <2>3, PageNamesAssumption, Zenon DEF PagesShown
  <2>10. FreshUntouched' /\ AnswersLead'
    BY <1>1, <1>2, <2>1, <2>2, Zenon DEF FreshUntouched, AnswersLead
  <2> QED
    BY <2>5, <2>7, <2>8, <2>9, <2>10, Zenon DEF PageInv
<1> QED
  BY <1>8, <1>9, <1>10, Zenon

\* Growing old keeps ages ages, and in order; Never stays Never.
LEMMA GrowOldFacts ==
  /\ \A n \in 0 .. Ancient : GrowOld(n) \in 0 .. Ancient
  /\ \A n \in 0 .. Never : GrowOld(n) \in 0 .. Never
  /\ \A m \in 0 .. Never, n \in 0 .. Ancient : m <= n => GrowOld(m) <= GrowOld(n)
BY PageTimeAssumption DEF GrowOld, Ancient, Never

\* Time and a restart preserve PageInv.
LEMMA PageTimeInv ==
  ASSUME PageInv, PageTick \/ PageRestart
  PROVE  PageInv'
<1>1. PageTypeOK /\ JarBacked /\ CookiesBacked /\ ShownOpened /\ PagesShown /\ FreshUntouched
      /\ AnswersLead
  BY Zenon DEF PageInv
<1>2. UNCHANGED <<phase, claims, uri, shown, answer, owner, decision, issued>>
  BY Zenon DEF PageTick, PageRestart, history
<1>3. /\ jar \in JarType /\ pushed \in [RequestURIs -> 0 .. Ancient]
      /\ replay \in [PageSessions -> ReplayType] /\ identified \in [PageSessions -> 0 .. Never]
      /\ pendingAuth \in [PageSessions -> BOOLEAN]
  BY <1>1, Zenon DEF PageTypeOK, JarType, ReplayType
<1>4. jar' \in JarType /\ jar'.session = jar.session
  <2>1. CASE jar' = jar
    BY <1>3, <2>1, Zenon
  <2>2. CASE jar' = [jar EXCEPT !.age = GrowOld(jar.age)]
    <3>1. jar.age \in 0 .. Ancient
      BY <1>3, Zenon DEF JarType
    <3>2. PICK g \in 0 .. Ancient : g = GrowOld(jar.age)
      BY <3>1, GrowOldFacts, Zenon
    <3> QED
      BY <1>3, <2>2, <3>2, Zenon DEF JarType
  <2> QED
    BY <2>1, <2>2, Zenon DEF PageTick, PageRestart
<1>5. pushed' \in [RequestURIs -> 0 .. Ancient] /\ identified' \in [PageSessions -> 0 .. Never]
  <2>1. CASE PageTick
    <3>1. /\ \A u \in RequestURIs : GrowOld(pushed[u]) \in 0 .. Ancient
          /\ \A s \in PageSessions : GrowOld(identified[s]) \in 0 .. Never
      BY <1>3, GrowOldFacts, Zenon
    <3> QED
      BY <2>1, <3>1, Zenon DEF PageTick
  <2>2. CASE PageRestart
    BY <2>2, PageRecords, Zenon DEF PageRestart
  <2> QED
    BY <2>1, <2>2, Zenon
<1>6. /\ replay' \in [PageSessions -> ReplayType]
      /\ \A s \in PageSessions : replay[s] = NoReplay => replay'[s] = NoReplay
  <2>1. ASSUME NEW s \in PageSessions
        PROVE  replay'[s] \in ReplayType /\ (replay[s] = NoReplay => replay'[s] = NoReplay)
    <3>1. CASE replay'[s] = NoReplay
      BY <3>1, PageRecords, Zenon
    <3>2. CASE /\ replay[s] # NoReplay
               /\ replay'[s] = [replay[s] EXCEPT !.age = GrowOld(replay[s].age)]
      <4>1. replay[s] \in ReplayType
        BY <1>3, Zenon
      <4>2. replay[s].age \in 0 .. Ancient
        BY <4>1, Zenon DEF ReplayType
      <4>3. PICK g \in 0 .. Ancient : g = GrowOld(replay[s].age)
        BY <4>2, GrowOldFacts, Zenon
      <4> QED
        BY <3>2, <4>1, <4>3, Zenon DEF ReplayType
    <3> QED
      BY <3>1, <3>2, Zenon DEF PageTick, PageRestart
  <2>2. replay' = [s \in PageSessions |-> replay'[s]]
    BY Zenon DEF PageTick, PageRestart
  <2> QED
    BY <2>1, <2>2, Zenon
<1>7. /\ pendingAuth' \in [PageSessions -> BOOLEAN]
      /\ \A s \in PageSessions : pendingAuth'[s] => pendingAuth[s]
  BY <1>3, Zenon DEF PageTick, PageRestart
<1>8. PageTypeOK'
  BY <1>1, <1>2, <1>4, <1>5, <1>6, <1>7, Zenon DEF PageTypeOK, JarType, ReplayType
<1>9. ASSUME NEW s, Backed(s) PROVE Backed(s)'
  <2>1. PICK u \in RequestURIs : u = owner[s] /\ s \in PageSessions /\ identified[s] <= pushed[u]
    BY <1>9, Zenon DEF Backed
  <2>2. identified[s] \in 0 .. Never /\ pushed[u] \in 0 .. Ancient
    BY <1>3, <2>1, Zenon
  <2>3. identified'[s] <= pushed'[u]
    <3>1. CASE PageTick
      <4>1. identified'[s] = GrowOld(identified[s]) /\ pushed'[u] = GrowOld(pushed[u])
        BY <2>1, <3>1, Zenon DEF PageTick
      <4> QED
        BY <2>1, <2>2, <4>1, GrowOldFacts, Zenon
    <3>2. CASE PageRestart
      <4>1. identified[s] # Never
        BY <2>1, <2>2, PageTimeAssumption DEF Ancient, Never
      <4>2. identified'[s] = Ancient /\ pushed'[u] = Ancient
        BY <2>1, <3>2, <4>1, Zenon DEF PageRestart
      <4> QED
        BY <4>2, PageTimeAssumption DEF Ancient
    <3> QED
      BY <3>1, <3>2
  <2> QED
    BY <1>2, <2>1, <2>3, Zenon DEF Backed
<1>10. JarBacked' /\ CookiesBacked'
  BY <1>1, <1>2, <1>4, <1>9, Zenon DEF JarBacked, CookiesBacked
<1>11. ShownOpened' /\ PagesShown' /\ FreshUntouched' /\ AnswersLead'
  BY <1>1, <1>2, <1>6, Zenon DEF ShownOpened, PagesShown, FreshUntouched, AnswersLead
<1> QED
  BY <1>8, <1>10, <1>11, Zenon DEF PageInv

\* PageInv is an invariant of the identification page.
THEOREM PageInvariant == PageSpec => []PageInv
<1>1. PageInit => PageInv
  BY PageInitInv
<1>2. PageInv /\ [PageNext]_pageVars => PageInv'
  <2> SUFFICES ASSUME PageInv, [PageNext]_pageVars PROVE PageInv'
    OBVIOUS
  <2>1. CASE PageNext
    BY <2>1, PageStepsInv, AnswersInv, PostInv, VisitAuthorizeInv, PageTimeInv, Zenon
       DEF PageNext, PageStep
  <2>2. CASE UNCHANGED pageVars
    BY <2>2, Zenon DEF pageVars, PageInv, PageTypeOK, JarBacked, CookiesBacked, ShownOpened,
         PagesShown, FreshUntouched, AnswersLead, Backed
  <2> QED
    BY <2>1, <2>2
<1> QED
  BY <1>1, <1>2, PTL DEF PageSpec

\* The page is well typed, answers travel only to a page that waits, and a
\* pending session has no cached redirect.
THEOREM PageTypeCorrect == PageSpec => []PageTypeOK
<1>1. PageInv => PageTypeOK
  BY Zenon DEF PageInv
<1> QED
  BY <1>1, PageInvariant, PTL

\* HandleAuthorize never sends a browser to the form that carries the cookie of
\* an identification for the same request_uri: the identification was made
\* after the request was pushed and lives at least as long, so it is live when
\* the request_uri is, however the visit is delayed or repeated.
THEOREM NotAskedTwiceHolds == PageSpec => NotAskedTwice
<1>1. PageInv /\ [PageNext]_pageVars =>
        [\A s \in PageSessions : owner[s] = "" /\ owner'[s] # "" => ~ Carries(owner'[s])]_pageVars
  <2> SUFFICES ASSUME PageInv, PageNext, NEW s \in PageSessions, owner[s] = "",
                      owner'[s] # "", Carries(owner'[s])
               PROVE  FALSE
    BY Zenon
  <2>1. PageTypeOK /\ JarBacked
    BY Zenon DEF PageInv
  <2>2. owner' # owner
    BY Zenon
  <2>3. PICK t \in PageTabs : VisitAuthorize(t)
    BY <2>2, Zenon DEF PageNext, PageStep, PageTick, PageRestart, ClaimsArrive, OpenForm,
         BackToIdentify, FailHere, ShowPage, Submit, Deny, AnswerArrives, AnswerLost, server
  <2> DEFINE u == uri[t]
  <2>4. PICK x \in PageSessions : /\ pushed[u] <= RequestURITTL /\ ~ CheckIdentified(u)
                                  /\ owner' = [owner EXCEPT ![x] = u]
    BY <2>2, <2>3, Zenon DEF VisitAuthorize
  <2> HIDE DEF u
  <2>5. owner'[s] = u
    BY <2>1, <2>4, Zenon DEF PageTypeOK
  <2>6. PICK i : i = jar.session
    OBVIOUS
  <2>7. Backed(i) /\ owner[i] = u /\ ~ (identified[i] <= IdentTTL)
    BY <2>1, <2>4, <2>5, <2>6, Zenon DEF Carries, CheckIdentified, JarBacked
  <2>8. u \in RequestURIs /\ i \in PageSessions /\ identified[i] <= pushed[u]
    BY <2>7, Zenon DEF Backed
  <2>9. identified[i] \in Nat /\ pushed[u] \in Nat
    BY <2>1, <2>8, AgesAreNumbers, Zenon DEF PageTypeOK
  <2>10. PICK m \in Nat, n \in Nat : m = identified[i] /\ n = pushed[u]
    BY <2>9, Zenon
  <2>11. m <= n /\ n <= RequestURITTL /\ ~ (m <= IdentTTL)
    BY <2>4, <2>7, <2>8, <2>10, Zenon
  <2> QED
    BY ONLY <2>11, m \in Nat, n \in Nat, PageTimeAssumption
<1> QED
  BY <1>1, PageInvariant, PTL DEF PageSpec, NotAskedTwice

=============================================================================
