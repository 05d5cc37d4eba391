---------------------------- MODULE ChecksProofs ----------------------------
(***************************************************************************)
(* What the verdict on a wallet's response promises, for every session,    *)
(* vp_token, time and status list; that a status list entry is read as its *)
(* bits say; and that containsScope finds the words of a scope string.     *)
(***************************************************************************)
EXTENDS StatusLookup, Judging, Registering,
        FiniteSetTheorems, WellFoundedInduction, TLAPS

-----------------------------------------------------------------------------
\* Status lists.

\* The bits of a byte that an entry of this width covers from this offset.
ZeroBits(b, off, w) == \A j \in 0 .. w - 1 : (b \div 2 ^ (off + j)) % 2 = 0

\* A shifted and masked byte is zero when each of the bits it keeps is.
LEMMA OneBit ==
  ASSUME NEW b \in 0 .. 255, NEW off \in 0 .. 7
  PROVE  (b \div 2 ^ off) % 2 = 0 <=> ZeroBits(b, off, 1)
BY DEF ZeroBits

\* The same for entries of two bits, which begin at even offsets.
LEMMA TwoBits ==
  ASSUME NEW b \in 0 .. 255, NEW off \in {0, 2, 4, 6}
  PROVE  (b \div 2 ^ off) % 4 = 0 <=> ZeroBits(b, off, 2)
<1>1. ZeroBits(b, off, 2)
        <=> (b \div 2 ^ (off + 0)) % 2 = 0 /\ (b \div 2 ^ (off + 1)) % 2 = 0
  BY DEF ZeroBits
<1>2. CASE off = 0
  BY <1>1, <1>2
<1>3. CASE off = 2
  BY <1>1, <1>3
<1>4. CASE off = 4
  BY <1>1, <1>4
<1>5. CASE off = 6
  BY <1>1, <1>5
<1> QED
  BY <1>2, <1>3, <1>4, <1>5

\* The same for entries of half a byte.
LEMMA FourBits ==
  ASSUME NEW b \in 0 .. 255, NEW off \in {0, 4}
  PROVE  (b \div 2 ^ off) % 16 = 0 <=> ZeroBits(b, off, 4)
<1>1. ZeroBits(b, off, 4)
        <=> /\ (b \div 2 ^ (off + 0)) % 2 = 0 /\ (b \div 2 ^ (off + 1)) % 2 = 0
            /\ (b \div 2 ^ (off + 2)) % 2 = 0 /\ (b \div 2 ^ (off + 3)) % 2 = 0
  BY DEF ZeroBits
<1>2. CASE off = 0
  BY <1>1, <1>2
<1>3. CASE off = 4
  BY <1>1, <1>3
<1> QED
  BY <1>2, <1>3

\* The same for entries of a whole byte.
LEMMA EightBits ==
  ASSUME NEW b \in 0 .. 255
  PROVE  (b \div 2 ^ 0) % 256 = 0 <=> ZeroBits(b, 0, 8)
<1>1. ZeroBits(b, 0, 8)
        <=> /\ (b \div 2 ^ 0) % 2 = 0 /\ (b \div 2 ^ 1) % 2 = 0
            /\ (b \div 2 ^ 2) % 2 = 0 /\ (b \div 2 ^ 3) % 2 = 0
            /\ (b \div 2 ^ 4) % 2 = 0 /\ (b \div 2 ^ 5) % 2 = 0
            /\ (b \div 2 ^ 6) % 2 = 0 /\ (b \div 2 ^ 7) % 2 = 0
  BY DEF ZeroBits
<1> QED
  BY <1>1

\* Where the entries of a width begin in their byte.
Offsets(w) == CASE w = 1 -> 0 .. 7 [] w = 2 -> {0, 2, 4, 6} [] w = 4 -> {0, 4} [] OTHER -> {0}

\* An entry lies in one byte, from its offset on, and is inside the list when
\* that byte is.
LEMMA Position ==
  ASSUME NEW i \in Nat, NEW w \in {1, 2, 4, 8}, NEW n \in Nat
  PROVE  /\ (i * w) \div 8 \in Nat
         /\ (i * w) % 8 \in Offsets(w)
         /\ GoDiv(i * w, 8) = (i * w) \div 8
         /\ GoRem(i * w, 8) = (i * w) % 8
         /\ (i * w) \div 8 < n <=> (i + 1) * w <= 8 * n
         /\ \A j \in 0 .. w - 1 : /\ (i * w + j) \div 8 = (i * w) \div 8
                                  /\ (i * w + j) % 8 = ((i * w) % 8) + j
<1>1. CASE w = 1
  BY <1>1 DEF GoDiv, GoRem, Offsets
<1>2. CASE w = 2
  BY <1>2 DEF GoDiv, GoRem, Offsets
<1>3. CASE w = 4
  BY <1>3 DEF GoDiv, GoRem, Offsets
<1>4. CASE w = 8
  BY <1>4 DEF GoDiv, GoRem, Offsets
<1> QED
  BY <1>1, <1>2, <1>3, <1>4

\* Shifting and masking a byte leaves zero when the entry's bits are zero.
LEMMA Masked ==
  ASSUME NEW w \in {1, 2, 4, 8}, NEW b \in 0 .. 255, NEW off \in Offsets(w)
  PROVE  ShiftRight(b, off) % MaskModulus(w) = 0 <=> ZeroBits(b, off, w)
<1>1. CASE w = 1
  <2>1. off \in 0 .. 7 /\ MaskModulus(w) = 2
    BY <1>1 DEF Offsets, MaskModulus
  <2> QED
    BY <1>1, <2>1, OneBit DEF ShiftRight
<1>2. CASE w = 2
  <2>1. off \in {0, 2, 4, 6} /\ off \in 0 .. 7 /\ MaskModulus(w) = 4
    BY <1>2 DEF Offsets, MaskModulus
  <2> QED
    BY <1>2, <2>1, TwoBits DEF ShiftRight
<1>3. CASE w = 4
  <2>1. off \in {0, 4} /\ off \in 0 .. 7 /\ MaskModulus(w) = 16
    BY <1>3 DEF Offsets, MaskModulus
  <2> QED
    BY <1>3, <2>1, FourBits DEF ShiftRight
<1>4. CASE w = 8
  <2>1. off = 0 /\ MaskModulus(w) = 256
    BY <1>4 DEF Offsets, MaskModulus
  <2> QED
    BY <1>4, <2>1, EightBits DEF ShiftRight
<1> QED
  BY <1>1, <1>2, <1>3, <1>4

\* An element of a sequence.
LEMMA ElementOfSeq ==
  ASSUME NEW S, NEW seq \in Seq(S), NEW k \in 1 .. Len(seq)
  PROVE  seq[k] \in S
OBVIOUS

\* Entry i of a list is inside it, and all its bits are zero.
ZeroEntry(l, i, w) ==
  /\ (i + 1) * w <= 8 * Len(l.raw)
  /\ \A j \in 0 .. w - 1 :
       (l.raw[((i * w + j) \div 8) + 1] \div (2 ^ ((i * w + j) % 8))) % 2 = 0

\* statusAt returns VALID for exactly the entries that are in the list and
\* whose bits are all zero.
LEMMA StatusAtZero ==
  ASSUME NEW l, l.raw \in Seq(0 .. 255), NEW i \in Nat, NEW w \in {1, 2, 4, 8},
         EntryWidth(l) = w
  PROVE  StatusAt(l, i) = StatusValid <=> ZeroEntry(l, i, w)
<1> DEFINE q == (i * w) \div 8
           off == (i * w) % 8
           n == Len(l.raw)
           zero == \A j \in 0 .. w - 1 :
                     (l.raw[((i * w + j) \div 8) + 1] \div (2 ^ ((i * w + j) % 8))) % 2 = 0
<1>1. n \in Nat
  OBVIOUS
<1>2. /\ q \in Nat /\ off \in Offsets(w)
      /\ GoDiv(i * w, 8) = q /\ GoRem(i * w, 8) = off
      /\ q < n <=> (i + 1) * w <= 8 * n
      /\ \A j \in 0 .. w - 1 : (i * w + j) \div 8 = q /\ (i * w + j) % 8 = off + j
  <2> HIDE DEF n
  <2>1. q \in Nat /\ off \in Offsets(w)
    BY ONLY i \in Nat, w \in {1, 2, 4, 8}, <1>1, Position
  <2>2. GoDiv(i * w, 8) = q /\ GoRem(i * w, 8) = off
    BY ONLY i \in Nat, w \in {1, 2, 4, 8}, <1>1, Position
  <2>3. q < n <=> (i + 1) * w <= 8 * n
    BY ONLY i \in Nat, w \in {1, 2, 4, 8}, <1>1, Position
  <2>4. \A j \in 0 .. w - 1 : (i * w + j) \div 8 = q /\ (i * w + j) % 8 = off + j
    BY ONLY i \in Nat, w \in {1, 2, 4, 8}, <1>1, Position
  <2> QED
    BY <2>1, <2>2, <2>3, <2>4
<1>3. zero <=> ZeroBits(l.raw[q + 1], off, w)
  <2>1. ASSUME NEW j \in 0 .. w - 1
        PROVE  (l.raw[((i * w + j) \div 8) + 1] \div (2 ^ ((i * w + j) % 8))) % 2
                 = (l.raw[q + 1] \div 2 ^ (off + j)) % 2
    BY <1>2, Zenon
  <2> QED
    BY <2>1, Zenon DEF ZeroBits
<1>4. StatusAt(l, i) = IF q < 0 \/ q >= n THEN StatusError
                       ELSE ShiftRight(l.raw[q + 1], off) % MaskModulus(w)
  BY <1>2, Zenon DEF StatusAt
<1> HIDE DEF q, off, n, zero
<1>5. CASE q < n
  <2>1. ~ (q < 0 \/ q >= n)
    BY <1>1, <1>2, <1>5
  <2>2. l.raw[q + 1] \in 0 .. 255
    <3>1. q + 1 \in 1 .. n
      BY <1>1, <1>2, <1>5
    <3> QED
      BY <3>1, ElementOfSeq DEF n
  <2>3. ShiftRight(l.raw[q + 1], off) % MaskModulus(w) = 0 <=> ZeroBits(l.raw[q + 1], off, w)
    BY <1>2, <2>2, Masked
  <2> QED
    BY <1>2, <1>3, <1>4, <1>5, <2>1, <2>3, Zenon DEF StatusValid, n, zero, ZeroEntry
<1>6. CASE ~ (q < n)
  <2>1. q >= n
    BY <1>1, <1>2, <1>6
  <2>2. StatusError # StatusValid
    BY DEF StatusError, StatusValid
  <2> QED
    BY <1>2, <1>4, <1>6, <2>1, <2>2, Zenon DEF n, ZeroEntry
<1> QED
  BY <1>5, <1>6

\* The answer is CheckValid's on one of the lists.
LookupInv ==
  /\ statusList \in StatusLists
  /\ entry \in Indexes
  /\ lookup \in {"valid", "refused"} =>
       (lookup = "valid" <=> FetchStatus(statusList, entry) = StatusValid)

\* For every index that is not negative, every list and every width the draft
\* allows, CheckValid passes exactly the entries that are VALID.  Below zero
\* it does not hold: OutOfRangeRefused is violated there.
THEOREM ValidIsEntryZeroHolds ==
  ASSUME Indexes \subseteq Nat
  PROVE  LookupSpec => []ValidIsEntryZero
<1>1. LookupInit => LookupInv
  BY DEF LookupInit, LookupInv
<1>2. LookupInv /\ [LookupOnce]_lookupVars => LookupInv'
  <2> SUFFICES ASSUME LookupInv, [LookupOnce]_lookupVars PROVE LookupInv'
    OBVIOUS
  <2>1. CASE LookupOnce
    <3>1. CheckValid([ref |-> TRUE, idx |-> entry, uri |-> "u"], [u \in {"u"} |-> statusList])
            <=> FetchStatus(statusList, entry) = StatusValid
      BY DEF CheckValid
    <3>2. statusList' = statusList /\ entry' = entry
      BY <2>1 DEF LookupOnce
    <3>3. lookup' = IF FetchStatus(statusList, entry) = StatusValid THEN "valid" ELSE "refused"
      BY <2>1, <3>1, Zenon DEF LookupOnce
    <3>4. lookup' = "valid" <=> FetchStatus(statusList, entry) = StatusValid
      BY <3>3
    <3>5. (FetchStatus(statusList, entry) = StatusValid)'
            <=> FetchStatus(statusList, entry) = StatusValid
      BY <3>2, Zenon
    <3> QED
      BY <3>2, <3>4, <3>5, Zenon DEF LookupInv
  <2>2. CASE UNCHANGED lookupVars
    <3>1. statusList' = statusList /\ entry' = entry /\ lookup' = lookup
      BY <2>2 DEF lookupVars
    <3> QED
      BY <3>1, Zenon DEF LookupInv
  <2> QED
    BY <2>1, <2>2
<1>3. ASSUME LookupInv PROVE ValidIsEntryZero
  <2> SUFFICES ASSUME lookup \in {"valid", "refused"},
                      EntryWidth(statusList) \in {1, 2, 4, 8}
               PROVE  lookup = "valid" <=>
                        /\ statusList.reachable /\ statusList.token
                        /\ InRange(entry, EntryWidth(statusList))
                        /\ EntryIsZero(entry, EntryWidth(statusList))
    BY Zenon DEF ValidIsEntryZero
  <2> DEFINE w == EntryWidth(statusList)
  <2>1. entry \in Nat /\ statusList.raw \in Seq(0 .. 255)
    BY <1>3, StatusListsAssumption DEF LookupInv
  <2>2. lookup = "valid" <=> FetchStatus(statusList, entry) = StatusValid
    BY <1>3 DEF LookupInv
  <2>3. StatusAt(statusList, entry) = StatusValid
          <=> InRange(entry, w) /\ EntryIsZero(entry, w)
    <3> HIDE DEF w
    <3>1. w \in {1, 2, 4, 8} /\ EntryWidth(statusList) = w
      BY DEF w
    <3>2. StatusAt(statusList, entry) = StatusValid <=>
            /\ (entry + 1) * w <= 8 * Len(statusList.raw)
            /\ \A j \in 0 .. w - 1 : Bit(entry * w + j) = 0
      <4>1. StatusAt(statusList, entry) = StatusValid <=> ZeroEntry(statusList, entry, w)
        BY <2>1, <3>1, StatusAtZero, Zenon
      <4> QED
        BY <4>1, Zenon DEF ZeroEntry, Bit
    <3>3. entry >= 0
      BY <2>1
    <3> QED
      BY <3>2, <3>3, Zenon DEF InRange, EntryIsZero
  <2>4. StatusError # StatusValid
    BY DEF StatusError, StatusValid
  <2>5. FetchStatus(statusList, entry) = StatusValid <=>
          /\ statusList.reachable /\ statusList.token
          /\ StatusAt(statusList, entry) = StatusValid
    BY <2>4, Zenon DEF FetchStatus
  <2> QED
    BY <2>2, <2>3, <2>5, Zenon
<1> QED
  BY <1>1, <1>2, <1>3, PTL DEF LookupSpec

-----------------------------------------------------------------------------
\* The verdict on a response.

\* The indexes of a sequence.
LEMMA SequenceDomain ==
  ASSUME NEW seq, IsSequence(seq)
  PROVE  Len(seq) \in Nat /\ DOMAIN seq = 1 .. Len(seq)
BY DEF IsSequence

\* The results of the presentations received, by position, and the holder
\* keys among them.
Results(s, tokens, t, lists) ==
  [i \in {j \in DOMAIN s.query : s.query[j].id \in DOMAIN tokens} |->
     VerifyPresentation(s, s.query[i], tokens[s.query[i].id], t, lists)]

HolderKeys(n, r) == {r[i].holder : i \in 1 .. n} \ {NoKey}

\* verifyPresentations succeeds only when every credential was received and
\* verified, and then returns their holder keys and claims.
LEMMA AllTogetherOK ==
  ASSUME NEW n, NEW r, AllTogether(n, r).ok
  PROVE  /\ \A i \in 1 .. n : i \in DOMAIN r /\ r[i].ok
         /\ n > 1 => Cardinality(HolderKeys(n, r)) <= 1
         /\ AllTogether(n, r).keys = HolderKeys(n, r)
         /\ AllTogether(n, r).claims = [i \in 1 .. n |-> r[i].claims]
<1> DEFINE good == {j \in 1 .. n : j \in DOMAIN r /\ r[j].ok}
           keys == {r[i].holder : i \in good} \ {NoKey}
           ok == /\ \A i \in 1 .. n : i \in DOMAIN r /\ r[i].ok
                 /\ n > 1 => BoundTogether(keys)
<1>1. AllTogether(n, r).ok = ok
  BY Zenon DEF AllTogether
<1>2. ok
  BY <1>1, Zenon
<1>3. good = 1 .. n
  BY <1>2, Zenon
<1>4. keys = HolderKeys(n, r)
  BY <1>3, Zenon DEF HolderKeys
<1>5. /\ AllTogether(n, r).keys = (IF ok THEN keys ELSE {})
      /\ AllTogether(n, r).claims = (IF ok THEN [i \in 1 .. n |-> r[i].claims] ELSE <<>>)
  BY Zenon DEF AllTogether
<1> HIDE DEF ok, keys
<1>6. /\ AllTogether(n, r).keys = HolderKeys(n, r)
      /\ AllTogether(n, r).claims = [i \in 1 .. n |-> r[i].claims]
  BY <1>2, <1>4, <1>5, Zenon
<1> QED
  BY <1>2, <1>4, <1>6, Zenon DEF ok, BoundTogether

\* HandleResponse's verdict on the result of verifyPresentations.
LEMMA JudgementFields ==
  ASSUME NEW a
  PROVE  /\ Judgement(a).ok = (a.ok /\ a.keys # {})
         /\ a.ok /\ a.keys # {} =>
              /\ Judgement(a).subject = SubjectID(CHOOSE k \in a.keys : TRUE)
              /\ Judgement(a).claims = MergeClaims(a.claims)
<1> DEFINE ok == a.ok /\ a.keys # {}
           claims == IF ok THEN MergeClaims(a.claims) ELSE {}
           subject == IF ok THEN SubjectID(CHOOSE k \in a.keys : TRUE) ELSE NoSubject
<1>1. Judgement(a)
        = [ok |-> ok, claims |-> claims, subject |-> subject, fetched |-> a.fetched]
  BY Zenon DEF Judgement
<1> DEFINE j == Judgement(a)
           fetched == a.fetched
<1> HIDE DEF ok, claims, subject, j, fetched
<1>2. j.ok = ok /\ j.claims = claims /\ j.subject = subject
  <2>1. j = [ok |-> ok, claims |-> claims, subject |-> subject, fetched |-> fetched]
    BY <1>1 DEF j, fetched
  <2> QED
    BY ONLY <2>1, Zenon
<1>3. ok => /\ claims = MergeClaims(a.claims)
            /\ subject = SubjectID(CHOOSE k \in a.keys : TRUE)
  BY Zenon DEF claims, subject
<1>4. ok => /\ Judgement(a).claims = MergeClaims(a.claims)
            /\ Judgement(a).subject = SubjectID(CHOOSE k \in a.keys : TRUE)
  BY <1>2, <1>3, Zenon DEF j
<1> QED
  BY <1>2, <1>4, Zenon DEF ok, j

\* A response verifies only when all its presentations do, some of them with
\* a holder key; the subject is made from one of these.
LEMMA JudgeOK ==
  ASSUME NEW s, NEW tokens, NEW t, NEW lists,
         Judge(s, tokens, t, lists).ok
  PROVE  LET n == Len(s.query)
             r == Results(s, tokens, t, lists)
             j == Judge(s, tokens, t, lists)
         IN /\ \A i \in 1 .. n : i \in DOMAIN r /\ r[i].ok
            /\ n > 1 => Cardinality(HolderKeys(n, r)) <= 1
            /\ HolderKeys(n, r) # {}
            /\ j.subject = SubjectID(CHOOSE k \in HolderKeys(n, r) : TRUE)
            /\ j.claims = MergeClaims([i \in 1 .. n |-> r[i].claims])
<1> DEFINE n == Len(s.query)
           r == Results(s, tokens, t, lists)
           a == AllTogether(n, r)
<1>1. Judge(s, tokens, t, lists) = Judgement(a)
  BY Zenon DEF Judge, VerifyPresentations, Results
<1> HIDE DEF a
<1>2. Judge(s, tokens, t, lists).ok = (a.ok /\ a.keys # {})
  BY <1>1, JudgementFields, Zenon
<1>3. a.ok /\ a.keys # {}
  BY <1>2, Zenon
<1>4. /\ Judge(s, tokens, t, lists).subject = SubjectID(CHOOSE k \in a.keys : TRUE)
      /\ Judge(s, tokens, t, lists).claims = MergeClaims(a.claims)
  BY <1>1, <1>3, JudgementFields, Zenon
<1> HIDE DEF n, r
<1>5. AllTogether(n, r).ok
  BY <1>3, Zenon DEF a
<1>6. /\ \A i \in 1 .. n : i \in DOMAIN r /\ r[i].ok
      /\ n > 1 => Cardinality(HolderKeys(n, r)) <= 1
      /\ AllTogether(n, r).keys = HolderKeys(n, r)
      /\ AllTogether(n, r).claims = [i \in 1 .. n |-> r[i].claims]
  BY ONLY <1>5, AllTogetherOK
<1>7. /\ HolderKeys(n, r) # {}
      /\ Judge(s, tokens, t, lists).subject = SubjectID(CHOOSE k \in HolderKeys(n, r) : TRUE)
      /\ Judge(s, tokens, t, lists).claims = MergeClaims([i \in 1 .. n |-> r[i].claims])
  BY <1>3, <1>4, <1>6, Zenon DEF a
<1> QED
  BY <1>6, <1>7, Zenon DEF n, r

\* What is then known of the presentation for each credential: the wallet sent
\* one, and its result is VerifyPresentation's.
ResultOf(s, tokens, t, lists, i) ==
  LET v == VerifyPresentation(s, s.query[i], tokens[s.query[i].id], t, lists) IN
  /\ i \in 1 .. Len(s.query)
  /\ s.query[i].id \in DOMAIN tokens
  /\ v.ok
  /\ Results(s, tokens, t, lists)[i] = v

\* Every presentation of a verified response verified.
LEMMA EachVerified ==
  ASSUME NEW s, NEW tokens, NEW t, NEW lists, IsSequence(s.query),
         Judge(s, tokens, t, lists).ok,
         NEW i \in DOMAIN s.query
  PROVE  ResultOf(s, tokens, t, lists, i)
<1>1. i \in 1 .. Len(s.query)
  BY SequenceDomain, Zenon
<1>2. /\ i \in DOMAIN Results(s, tokens, t, lists)
      /\ Results(s, tokens, t, lists)[i].ok
  BY <1>1, JudgeOK
<1>3. s.query[i].id \in DOMAIN tokens
  BY <1>2, Zenon DEF Results
<1>4. Results(s, tokens, t, lists)[i]
        = VerifyPresentation(s, s.query[i], tokens[s.query[i].id], t, lists)
  BY <1>3, Zenon DEF Results
<1> QED
  BY <1>1, <1>2, <1>3, <1>4, Zenon DEF ResultOf

-----------------------------------------------------------------------------
\* An SD-JWT VC that verifies: what each check of it established.
LEMMA SdJwtOK ==
  ASSUME NEW p, NEW aud, NEW nonce, NEW t, VerifyWithStatus(p, aud, nonce, t).ok
  PROVE  /\ ParseSdJwt(p) /\ VerifyIssuerSignature(p.issuer)
         /\ VerifyDisclosureDigests(p) /\ VerifyKeyBinding(p, aud, nonce, t)
         /\ VerifyWithStatus(p, aud, nonce, t).claims = DisclosedClaims(p)
         /\ VerifyWithStatus(p, aud, nonce, t).holder = p.issuer.cnf
<1> DEFINE ok == /\ ParseSdJwt(p)
                 /\ VerifyIssuerSignature(p.issuer)
                 /\ VerifyDisclosureDigests(p)
                 /\ VerifyKeyBinding(p, aud, nonce, t)
           r == VerifyWithStatus(p, aud, nonce, t)
<1>1. r = SdJwtResult(p, ok)
  BY Zenon DEF VerifyWithStatus
<1> HIDE DEF ok, r
<1>2. /\ r.ok = ok
      /\ r.claims = IF ok THEN DisclosedClaims(p) ELSE <<>>
      /\ r.holder = IF ok THEN p.issuer.cnf ELSE NoKey
  BY <1>1, Zenon DEF SdJwtResult
<1>3. r.ok
  BY Zenon DEF r
<1>4. ok
  BY <1>2, <1>3, Zenon
<1>5. r.claims = DisclosedClaims(p) /\ r.holder = p.issuer.cnf
  BY <1>2, <1>4, Zenon
<1> QED
  BY <1>4, <1>5, Zenon DEF ok, r

\* A credential requested as an SD-JWT VC, verified.
LEMMA SDVerified ==
  ASSUME NEW s, NEW cred, NEW p, NEW t, NEW lists,
         cred.format # FormatMsoMdoc,
         VerifyPresentation(s, cred, p, t, lists).ok
  PROVE  LET r == VerifyWithStatus(p, ClientID, s.nonce, t) IN
         /\ p.format = FormatSDJWTVC
         /\ r.ok
         /\ Fetches(r) => CheckValid(r.status, lists)
         /\ VerifyPresentation(s, cred, p, t, lists).claims = {r.claims}
         /\ VerifyPresentation(s, cred, p, t, lists).holder = r.holder
<1> DEFINE r == VerifyWithStatus(p, ClientID, s.nonce, t)
           bad == [ok |-> FALSE, claims |-> {}, holder |-> NoKey, fetched |-> FALSE]
<1>1. VerifyPresentation(s, cred, p, t, lists)
        = IF p.format # FormatSDJWTVC THEN bad ELSE WithStatusChecked(r, lists)
  BY Zenon DEF VerifyPresentation
<1> HIDE DEF r
<1>2. ~ bad.ok
  BY Zenon
<1> HIDE DEF bad
<1>3. p.format = FormatSDJWTVC /\ VerifyPresentation(s, cred, p, t, lists) = WithStatusChecked(r, lists)
  BY <1>1, <1>2, Zenon
<1>4. /\ WithStatusChecked(r, lists).ok = (r.ok /\ (Fetches(r) => CheckValid(r.status, lists)))
      /\ WithStatusChecked(r, lists).claims = {r.claims}
      /\ WithStatusChecked(r, lists).holder = r.holder
  BY Zenon DEF WithStatusChecked
<1>5. WithStatusChecked(r, lists).ok
  BY <1>3, Zenon
<1>6. r.ok /\ (Fetches(r) => CheckValid(r.status, lists))
  BY <1>4, <1>5, Zenon
<1> QED
  BY <1>3, <1>4, <1>6, Zenon DEF r

\* A credential requested as an mdoc, verified.
LEMMA MdocVerified ==
  ASSUME NEW s, NEW cred, NEW p, NEW t, NEW lists,
         cred.format = FormatMsoMdoc
  PROVE  /\ VerifyPresentation(s, cred, p, t, lists).ok =>
              /\ p.format = FormatMsoMdoc
              /\ VerifyMdoc(p, cred.type, ClientID, s.nonce, s.key, NoCert, t)
              /\ VerifyPresentation(s, cred, p, t, lists).claims
                   = CollectedClaims(p.documents[1])
         /\ VerifyPresentation(s, cred, p, t, lists).holder = NoKey
<1> DEFINE r == VerifyPresentation(s, cred, p, t, lists)
           ok == /\ p.format = FormatMsoMdoc
                 /\ VerifyMdoc(p, cred.type, ClientID, s.nonce, s.key, NoCert, t)
           claims == IF p.format = FormatMsoMdoc /\ p.documents # <<>>
                       THEN CollectedClaims(p.documents[1]) ELSE {}
<1>1. r = [ok |-> ok, claims |-> claims, holder |-> NoKey, fetched |-> FALSE]
  BY Zenon DEF VerifyPresentation
<1> HIDE DEF r, ok, claims
<1>2. r.ok = ok /\ r.claims = claims /\ r.holder = NoKey
  BY <1>1, Zenon
<1>3. ok => claims = CollectedClaims(p.documents[1])
  BY Zenon DEF ok, claims, VerifyMdoc, ParseSingleDocument
<1> QED
  BY <1>2, <1>3, Zenon DEF r, ok

-----------------------------------------------------------------------------
\* A verified response holds an SD-JWT VC: only these have a holder key.
LEMMA SomeSD ==
  ASSUME NEW s, NEW tokens, NEW t, NEW lists, IsSequence(s.query),
         Judge(s, tokens, t, lists).ok
  PROVE  \E i \in DOMAIN s.query : s.query[i].format # FormatMsoMdoc
<1>1. PICK i \in 1 .. Len(s.query) : Results(s, tokens, t, lists)[i].holder # NoKey
  <2>1. HolderKeys(Len(s.query), Results(s, tokens, t, lists)) # {}
    BY JudgeOK
  <2> QED
    BY <2>1, Zenon DEF HolderKeys
<1>2. i \in DOMAIN s.query
  BY SequenceDomain, Zenon
<1>3. VerifyPresentation(s, s.query[i], tokens[s.query[i].id], t, lists).holder # NoKey
  <2>1. ResultOf(s, tokens, t, lists, i)
    BY <1>2, EachVerified, Zenon
  <2> QED
    BY <1>1, <2>1, Zenon DEF ResultOf
<1> QED
  BY <1>2, <1>3, MdocVerified

\* What is known of the presentation for a credential requested as an SD-JWT
\* VC, or as an mdoc, in a verified response.
SDFacts(s, tokens, t, lists, i) ==
  LET p == tokens[s.query[i].id]
      r == VerifyWithStatus(p, ClientID, s.nonce, t)
  IN /\ p.format = FormatSDJWTVC
     /\ VerifyIssuerSignature(p.issuer)
     /\ VerifyDisclosureDigests(p)
     /\ ParseSdJwt(p)
     /\ VerifyKeyBinding(p, ClientID, s.nonce, t)
     /\ Fetches(r) => CheckValid(r.status, lists)
     /\ Results(s, tokens, t, lists)[i].claims = {DisclosedClaims(p)}
     /\ Results(s, tokens, t, lists)[i].holder = p.issuer.cnf

MdocFacts(s, tokens, t, lists, i) ==
  LET p == tokens[s.query[i].id] IN
  /\ VerifyMdoc(p, s.query[i].type, ClientID, s.nonce, s.key, NoCert, t)
  /\ Results(s, tokens, t, lists)[i].claims = CollectedClaims(p.documents[1])

\* Every SD-JWT VC of a verified response passed all its checks.
LEMMA EachSD ==
  ASSUME NEW s, NEW tokens, NEW t, NEW lists, IsSequence(s.query),
         Judge(s, tokens, t, lists).ok,
         NEW i \in DOMAIN s.query, s.query[i].format # FormatMsoMdoc
  PROVE  SDFacts(s, tokens, t, lists, i)
<1> DEFINE cred == s.query[i]
           p == tokens[cred.id]
           r == VerifyWithStatus(p, ClientID, s.nonce, t)
           v == VerifyPresentation(s, cred, p, t, lists)
<1>1. cred.format # FormatMsoMdoc /\ v.ok /\ Results(s, tokens, t, lists)[i] = v
  <2>1. ResultOf(s, tokens, t, lists, i)
    BY EachVerified, Zenon
  <2> QED
    BY <2>1, Zenon DEF ResultOf
<1> HIDE DEF cred, p
<1>2. /\ p.format = FormatSDJWTVC /\ r.ok
      /\ Fetches(r) => CheckValid(r.status, lists)
      /\ v.claims = {r.claims} /\ v.holder = r.holder
  BY ONLY <1>1, SDVerified
<1>3. /\ ParseSdJwt(p) /\ VerifyIssuerSignature(p.issuer)
      /\ VerifyDisclosureDigests(p) /\ VerifyKeyBinding(p, ClientID, s.nonce, t)
      /\ r.claims = DisclosedClaims(p)
      /\ r.holder = p.issuer.cnf
  BY ONLY <1>2, SdJwtOK
<1> HIDE DEF r, v
<1>4. /\ Results(s, tokens, t, lists)[i].claims = {DisclosedClaims(p)}
      /\ Results(s, tokens, t, lists)[i].holder = p.issuer.cnf
  BY <1>1, <1>2, <1>3, Zenon
<1> QED
  BY <1>2, <1>3, <1>4, Zenon DEF cred, p, r, SDFacts

\* Every mdoc of a verified response passed all its checks.
LEMMA EachMdoc ==
  ASSUME NEW s, NEW tokens, NEW t, NEW lists, IsSequence(s.query),
         Judge(s, tokens, t, lists).ok,
         NEW i \in DOMAIN s.query, s.query[i].format = FormatMsoMdoc
  PROVE  MdocFacts(s, tokens, t, lists, i)
<1> DEFINE cred == s.query[i]
           p == tokens[cred.id]
           v == VerifyPresentation(s, cred, p, t, lists)
<1>1. cred.format = FormatMsoMdoc /\ v.ok /\ Results(s, tokens, t, lists)[i] = v
  <2>1. ResultOf(s, tokens, t, lists, i)
    BY EachVerified, Zenon
  <2> QED
    BY <2>1, Zenon DEF ResultOf
<1> HIDE DEF cred, p
<1>2. /\ VerifyMdoc(p, cred.type, ClientID, s.nonce, s.key, NoCert, t)
      /\ v.claims = CollectedClaims(p.documents[1])
  BY ONLY <1>1, MdocVerified
<1> HIDE DEF v
<1> QED
  BY <1>1, <1>2, Zenon DEF cred, p, MdocFacts

\* No vp_token verifies in two sessions with the same query and different
\* nonces, whenever they are judged and whatever the status lists answer.
THEOREM NonceBinds ==
  ASSUME NEW s, NEW w, NEW tokens, NEW t, NEW u, NEW lists, NEW lists2,
         IsSequence(s.query), w.query = s.query, w.nonce # s.nonce,
         Judge(s, tokens, t, lists).ok
  PROVE  ~ Judge(w, tokens, u, lists2).ok
<1> SUFFICES ASSUME Judge(w, tokens, u, lists2).ok PROVE FALSE
  OBVIOUS
<1>1. PICK i \in DOMAIN s.query : s.query[i].format # FormatMsoMdoc
  BY SomeSD
<1> DEFINE p == tokens[s.query[i].id]
<1>2. VerifyKeyBinding(p, ClientID, s.nonce, t)
  <2>1. SDFacts(s, tokens, t, lists, i)
    BY <1>1, EachSD, Zenon
  <2> QED
    BY <2>1, Zenon DEF SDFacts
<1>3. VerifyKeyBinding(p, ClientID, w.nonce, u)
  <2>1. IsSequence(w.query) /\ i \in DOMAIN w.query /\ w.query[i].format # FormatMsoMdoc
    BY <1>1, Zenon
  <2>2. SDFacts(w, tokens, u, lists2, i)
    BY <2>1, EachSD, Zenon
  <2> QED
    BY <2>2, Zenon DEF SDFacts
<1> QED
  BY <1>2, <1>3, Zenon DEF VerifyKeyBinding

\* A vp_token with an mdoc verifies under one encryption key only.
THEOREM KeyBinds ==
  ASSUME NEW s, NEW w, NEW tokens, NEW t, NEW u, NEW lists, NEW lists2,
         IsSequence(s.query), w.query = s.query, w.key # s.key,
         NEW i \in DOMAIN s.query, s.query[i].format = FormatMsoMdoc,
         Judge(s, tokens, t, lists).ok
  PROVE  ~ Judge(w, tokens, u, lists2).ok
<1> SUFFICES ASSUME Judge(w, tokens, u, lists2).ok PROVE FALSE
  OBVIOUS
<1> DEFINE d == tokens[s.query[i].id].documents[1]
           DA(x) == DeviceAuthentication(ClientID, x.nonce, x.key, d.docType, d.deviceNameSpaces)
<1>1. d.deviceSignature.over = DA(s)
  <2>1. MdocFacts(s, tokens, t, lists, i)
    BY EachMdoc, Zenon
  <2> QED
    BY <2>1, Zenon DEF MdocFacts, VerifyMdoc, VerifyDeviceSignature, VerifyCoseSign1
<1>2. d.deviceSignature.over = DA(w)
  <2>1. IsSequence(w.query) /\ i \in DOMAIN w.query /\ w.query[i].format = FormatMsoMdoc
    BY Zenon
  <2>2. MdocFacts(w, tokens, u, lists2, i)
    BY <2>1, EachMdoc, Zenon
  <2>3. w.query[i].id = s.query[i].id
    BY Zenon
  <2> QED
    BY <2>2, <2>3, Zenon DEF MdocFacts, VerifyMdoc, VerifyDeviceSignature, VerifyCoseSign1
<1>3. DA(s).transcript[3] = s.key /\ DA(w).transcript[3] = w.key
  BY DEF DeviceAuthentication
<1> QED
  BY <1>1, <1>2, <1>3, Zenon

\* No other selection of disclosures verifies under the same KB-JWT.
THEOREM DisclosuresSealed ==
  ASSUME NEW p, NEW aud, NEW nonce, NEW t, NEW u, NEW ds,
         ds # p.disclosures,
         VerifyKeyBinding(p, aud, nonce, t)
  PROVE  ~ VerifyWithStatus(WithDisclosures(p, ds), aud, nonce, u).ok
<1> SUFFICES ASSUME VerifyWithStatus(WithDisclosures(p, ds), aud, nonce, u).ok PROVE FALSE
  OBVIOUS
<1> DEFINE q == WithDisclosures(p, ds)
<1>1. q.kb = p.kb /\ q.issuer = p.issuer /\ q.disclosures = ds
  BY DEF WithDisclosures
<1>2. p.kb.sdHash = ComputeSdHash(p)
  BY Zenon DEF VerifyKeyBinding
<1>3. q.kb.sdHash = ComputeSdHash(q)
  BY SdJwtOK DEF VerifyKeyBinding
<1> HIDE DEF q
<1>4. ComputeSdHash(p).disclosures = p.disclosures /\ ComputeSdHash(q).disclosures = ds
  BY <1>1, Zenon DEF ComputeSdHash
<1> QED
  BY <1>1, <1>2, <1>3, <1>4, Zenon

-----------------------------------------------------------------------------
\* The holder keys are finitely many.
LEMMA HolderKeysFinite ==
  ASSUME NEW n \in Nat, NEW r
  PROVE  IsFiniteSet(HolderKeys(n, r))
<1> DEFINE T == {r[i].holder : i \in 1 .. n}
           f == [i \in 1 .. n |-> r[i].holder]
<1>1. IsFiniteSet(1 .. n)
  BY FS_Interval
<1>2. f \in Surjection(1 .. n, T)
  BY Zenon DEF Surjection
<1>3. IsFiniteSet(T)
  BY <1>1, <1>2, FS_Surjection
<1> QED
  BY <1>3, FS_Difference DEF HolderKeys

\* A finite set of at most one element has no two.
LEMMA AtMostOne ==
  ASSUME NEW S, IsFiniteSet(S), Cardinality(S) <= 1, NEW a \in S, NEW b \in S
  PROVE  a = b
<1>1. Cardinality(S) \in Nat /\ Cardinality(S) # 0
  BY FS_CardinalityType, FS_EmptySet
<1>2. Cardinality(S) = 1
  BY <1>1
<1>3. PICK x : S = {x}
  BY <1>2, FS_Singleton
<1> QED
  BY <1>3

\* The subject of a verified response is the holder of each of its SD-JWT VCs.
THEOREM SubjectIsHolder ==
  ASSUME NEW s, NEW tokens, NEW t, NEW lists, IsSequence(s.query),
         Judge(s, tokens, t, lists).ok,
         NEW i \in DOMAIN s.query, s.query[i].format # FormatMsoMdoc
  PROVE  Judge(s, tokens, t, lists).subject = SubjectID(tokens[s.query[i].id].issuer.cnf)
<1> DEFINE n == Len(s.query)
           r == Results(s, tokens, t, lists)
           K == HolderKeys(n, r)
           cnf == tokens[s.query[i].id].issuer.cnf
<1>1. n \in Nat /\ i \in 1 .. n
  BY SequenceDomain, Zenon
<1>2. r[i].holder = cnf /\ cnf # NoKey
  <2>1. SDFacts(s, tokens, t, lists, i)
    BY EachSD, Zenon
  <2> QED
    BY <2>1, Zenon DEF SDFacts, VerifyKeyBinding
<1>3. /\ n > 1 => Cardinality(K) <= 1
      /\ Judge(s, tokens, t, lists).subject = SubjectID(CHOOSE k \in K : TRUE)
  BY JudgeOK
<1> HIDE DEF n, r, cnf
<1>4. cnf \in K
  BY <1>1, <1>2, Zenon DEF HolderKeys
<1>5. (CHOOSE k \in K : TRUE) \in K
  BY <1>4, Zenon
<1>6. \A a, b \in K : a = b
  <2>1. CASE n > 1
    BY <1>1, <1>3, <2>1, HolderKeysFinite, AtMostOne
  <2>2. CASE ~ (n > 1)
    <3>1. 1 .. n = {i}
      BY <1>1, <2>2
    <3> QED
      BY <3>1, Zenon DEF HolderKeys
  <2> QED
    BY <2>1, <2>2
<1> HIDE DEF K
<1>7. (CHOOSE k \in K : TRUE) = cnf
  BY <1>4, <1>5, <1>6, Zenon
<1> QED
  BY <1>3, <1>7, Zenon DEF cnf

-----------------------------------------------------------------------------
\* A set of indexes that is not empty has a greatest one.
LEMMA GreatestIndex ==
  ASSUME NEW n \in Nat, NEW I, I \subseteq 1 .. n, I # {}
  PROVE  \E m \in I : \A j \in I : j <= m
<1> DEFINE Above(m) == {j \in I : j > m}
           T == {Above(m) : m \in I}
           R == StrictSubsetOrdering(I)
<1>1. \A m \in I : IsFiniteSet(Above(m))
  <2>1. IsFiniteSet(1 .. n)
    BY FS_Interval
  <2>2. \A m \in I : Above(m) \in SUBSET (1 .. n)
    BY Zenon
  <2> HIDE DEF Above
  <2> QED
    BY <2>1, <2>2, FS_Subset
<1>2. T \subseteq FiniteSubsetsOf(I) /\ T # {}
  BY <1>1, Zenon DEF FiniteSubsetsOf
<1>3. PICK A \in T : \A B \in T : ~ (<<B, A>> \in R)
  <2> HIDE DEF T
  <2>1. IsWellFoundedOn(R, FiniteSubsetsOf(I))
    BY FS_StrictSubsetOrderingWellFounded
  <2> QED
    BY <1>2, <2>1, WFMin
<1>4. PICK m \in I : A = Above(m)
  BY <1>3, Zenon
<1>5. ASSUME NEW j \in I, j > m PROVE FALSE
  <2>1. Above(j) \subseteq A /\ j \in A /\ j \notin Above(j)
    <3>1. \A k \in I : k \in Int
      OBVIOUS
    <3>2. m \in Int /\ j \in Int /\ j > m
      BY <1>4, <1>5, <3>1
    <3>3. (\A k \in Int : k > j => k > m) /\ ~ (j > j)
      BY <3>2
    <3> QED
      BY <1>4, <1>5, <3>1, <3>3, Zenon
  <2>2. Above(j) \in T /\ Above(j) \subseteq I /\ A \subseteq I
    BY <1>4, <1>5, Zenon
  <2>3. <<Above(j), A>> \in R
    BY <2>1, <2>2 DEF StrictSubsetOrdering
  <2> QED
    BY <1>3, <2>2, <2>3, Zenon
<1> QED
  BY <1>5

\* A claim disclosed by an SD-JWT VC that verifies is in its issuer's _sd.
LEMMA DisclosedCommitted ==
  ASSUME NEW p, IsSequence(p.disclosures), VerifyDisclosureDigests(p),
         NEW name \in DOMAIN DisclosedClaims(p)
  PROVE  \E d \in p.issuer.sd : d.name = name /\ d.value = DisclosedClaims(p)[name]
<1> DEFINE ds == p.disclosures
           I == {i \in DOMAIN ds : ds[i].name = name}
           Last(i) == /\ ds[i].name = name
                      /\ \A j \in DOMAIN ds : ds[j].name = name => j <= i
           last == CHOOSE i \in DOMAIN ds : Last(i)
<1>1. name \in {ds[i].name : i \in DOMAIN ds}
  BY Zenon DEF DisclosedClaims
<1>2. Len(ds) \in Nat /\ DOMAIN ds = 1 .. Len(ds)
  BY SequenceDomain, Zenon
<1>3. \E m \in I : \A j \in I : j <= m
  <2>1. I # {}
    BY <1>1, Zenon
  <2>2. I \subseteq 1 .. Len(ds)
    BY <1>2, Zenon
  <2> HIDE DEF I, ds
  <2> QED
    BY <1>2, <2>1, <2>2, GreatestIndex
<1>4. \E i \in DOMAIN ds : Last(i)
  BY <1>3, Zenon
<1>5. last \in DOMAIN ds /\ Last(last)
  BY <1>4, Zenon
<1>6. DisclosedClaims(p)[name] = ds[last].value
  BY <1>1, Zenon DEF DisclosedClaims
<1> HIDE DEF last
<1>7. ds[last] \in p.issuer.sd
  BY <1>5, Zenon DEF VerifyDisclosureDigests, Digest
<1> QED
  BY <1>5, <1>6, <1>7, Zenon

\* A claim collected from an mdoc whose digests verify is in its MSO.
LEMMA CollectedCommitted ==
  ASSUME NEW d, VerifyDigests(d), NEW c \in CollectedClaims(d), NEW name \in DOMAIN c
  PROVE  \E ns \in DOMAIN d.mso.valueDigests : \E id \in DOMAIN d.mso.valueDigests[ns] :
           /\ d.mso.valueDigests[ns][id].name = name
           /\ d.mso.valueDigests[ns][id].value = c[name]
<1> DEFINE items == UNION {d.nameSpaces[ns] : ns \in DOMAIN d.nameSpaces}
           names == {item.name : item \in items}
<1>1. /\ c \in [names -> {item.value : item \in items}]
      /\ \A n \in names : \E item \in items : item.name = n /\ item.value = c[n]
  BY Zenon DEF CollectedClaims
<1>2. name \in names
  BY <1>1, Zenon
<1>3. PICK item \in items : item.name = name /\ item.value = c[name]
  BY <1>1, <1>2, Zenon
<1>4. PICK ns \in DOMAIN d.nameSpaces : item \in d.nameSpaces[ns]
  BY Zenon
<1>5. /\ ns \in DOMAIN d.mso.valueDigests
      /\ item.digestID \in DOMAIN d.mso.valueDigests[ns]
      /\ d.mso.valueDigests[ns][item.digestID] = item
  BY <1>4, Zenon DEF VerifyDigests
<1> QED
  BY <1>3, <1>5, Zenon

\* A merged claim comes from the claims of one credential.
LEMMA MergedFrom ==
  ASSUME NEW per, NEW c \in MergeClaims(per), NEW name \in DOMAIN c
  PROVE  \E i \in DOMAIN per : \E d \in per[i] : name \in DOMAIN d /\ c[name] = d[name]
<1> DEFINE Names(i) == UNION {DOMAIN e : e \in per[i]}
           names == UNION {Names(i) : i \in DOMAIN per}
           Values(n) == UNION {{e[n] : e \in {d \in per[i] : n \in DOMAIN d}} :
                                 i \in DOMAIN per}
<1>1. /\ c \in [names -> UNION {Values(n) : n \in names}]
      /\ \A n \in names : c[n] \in Values(n)
  BY Zenon DEF MergeClaims
<1>2. name \in names
  BY <1>1, Zenon
<1>3. c[name] \in Values(name)
  BY <1>1, <1>2, Zenon
<1> QED
  BY <1>3, Zenon

\* The issuer of the presentation for a credential committed to a claim.
Vouched(cred, tokens, name, value) ==
  LET p == tokens[cred.id]
      vd == p.documents[1].mso.valueDigests
  IN /\ cred.id \in DOMAIN tokens
     /\ IF cred.format # FormatMsoMdoc
          THEN \E d \in p.issuer.sd : d.name = name /\ d.value = value
          ELSE \E ns \in DOMAIN vd : \E id \in DOMAIN vd[ns] :
                 vd[ns][id].name = name /\ vd[ns][id].value = value

\* Every claim of a verified response is one that the issuer of one of its
\* credentials committed to.
LEMMA ClaimCommitted ==
  ASSUME NEW s, NEW tokens, NEW t, NEW lists, IsSequence(s.query),
         Judge(s, tokens, t, lists).ok,
         \A id \in DOMAIN tokens :
           tokens[id].format = FormatSDJWTVC => IsSequence(tokens[id].disclosures),
         NEW c \in Judge(s, tokens, t, lists).claims, NEW name \in DOMAIN c
  PROVE  \E i \in DOMAIN s.query : Vouched(s.query[i], tokens, name, c[name])
<1> DEFINE r == Results(s, tokens, t, lists)
           per == [i \in 1 .. Len(s.query) |-> r[i].claims]
<1>1. c \in MergeClaims(per)
  BY JudgeOK
<1> HIDE DEF per
<1>2. PICK i \in DOMAIN per : \E e \in per[i] : name \in DOMAIN e /\ c[name] = e[name]
  BY <1>1, MergedFrom
<1>3. PICK e \in per[i] : name \in DOMAIN e /\ c[name] = e[name]
  BY <1>2, Zenon
<1>4. i \in DOMAIN s.query /\ e \in r[i].claims
  <2>1. i \in 1 .. Len(s.query) /\ e \in r[i].claims
    BY <1>2, <1>3, Zenon DEF per
  <2>2. DOMAIN s.query = 1 .. Len(s.query)
    BY SequenceDomain, Zenon
  <2> QED
    BY <2>1, <2>2, Zenon
<1> DEFINE id == s.query[i].id
           p == tokens[id]
<1>5. id \in DOMAIN tokens
  <2>1. ResultOf(s, tokens, t, lists, i)
    BY <1>4, EachVerified, Zenon
  <2> QED
    BY <2>1, Zenon DEF ResultOf
<1>6. CASE s.query[i].format # FormatMsoMdoc
  <2>1. /\ p.format = FormatSDJWTVC /\ VerifyDisclosureDigests(p)
        /\ r[i].claims = {DisclosedClaims(p)}
    <3>1. SDFacts(s, tokens, t, lists, i)
      BY <1>4, <1>6, EachSD, Zenon
    <3> QED
      BY <3>1, Zenon DEF SDFacts
  <2>2. e = DisclosedClaims(p) /\ IsSequence(p.disclosures)
    BY <1>4, <1>5, <2>1, Zenon
  <2> HIDE DEF p
  <2>3. \E d \in p.issuer.sd : d.name = name /\ d.value = DisclosedClaims(p)[name]
    BY <1>3, <2>1, <2>2, DisclosedCommitted
  <2>4. \E d \in p.issuer.sd : d.name = name /\ d.value = c[name]
    BY <1>3, <2>2, <2>3, Zenon
  <2> QED
    BY <1>4, <1>5, <1>6, <2>4, Zenon DEF p, Vouched
<1>7. CASE s.query[i].format = FormatMsoMdoc
  <2> DEFINE d == p.documents[1]
             vd == d.mso.valueDigests
  <2>1. /\ VerifyMdoc(p, s.query[i].type, ClientID, s.nonce, s.key, NoCert, t)
        /\ r[i].claims = CollectedClaims(d)
    <3>1. MdocFacts(s, tokens, t, lists, i)
      BY <1>4, <1>7, EachMdoc, Zenon
    <3> QED
      BY <3>1, Zenon DEF MdocFacts
  <2>2. VerifyDigests(d) /\ e \in CollectedClaims(d)
    BY <1>4, <2>1, Zenon DEF VerifyMdoc
  <2> HIDE DEF d
  <2>3. \E ns \in DOMAIN vd : \E x \in DOMAIN vd[ns] :
          vd[ns][x].name = name /\ vd[ns][x].value = e[name]
    BY <1>3, <2>2, CollectedCommitted
  <2>4. \E ns \in DOMAIN vd : \E x \in DOMAIN vd[ns] :
          vd[ns][x].name = name /\ vd[ns][x].value = c[name]
    BY <1>3, <2>3, Zenon
  <2> QED
    BY <1>4, <1>5, <1>7, <2>4, Zenon DEF d, Vouched
<1> QED
  BY <1>6, <1>7, Zenon

-----------------------------------------------------------------------------
\* The verdict is Judge's on one of the responses.
JudgeInv ==
  /\ \E c \in Responses : judged = c[1] /\ vpToken = c[2]
  /\ verdict \in {"none", "verified", "failed"}
  /\ verdict = "verified" => Judge(judged, Tokens, judgedAt, answers).ok

\* At every time the verdict is none or the one of HandleResponse.
THEOREM JudgeInvariant == JudgeSpec => []JudgeInv
<1>1. JudgeInit => JudgeInv
  BY DEF JudgeInit, JudgeInv
<1>2. JudgeInv /\ [JudgeOnce]_judgeVars => JudgeInv'
  <2> SUFFICES ASSUME JudgeInv, [JudgeOnce]_judgeVars PROVE JudgeInv'
    OBVIOUS
  <2>1. CASE JudgeOnce
    <3>1. Judge(judged, Tokens, judgedAt, answers)'
            = Judge(judged, Tokens, judgedAt, answers)
      BY <2>1, Zenon DEF JudgeOnce, Tokens
    <3>2. /\ verdict' = (IF Judge(judged, Tokens, judgedAt, answers).ok
                           THEN "verified" ELSE "failed")
          /\ judged' = judged /\ vpToken' = vpToken
      BY <2>1, Zenon DEF JudgeOnce
    <3>3. /\ verdict' \in {"none", "verified", "failed"}
          /\ verdict' = "verified" => Judge(judged, Tokens, judgedAt, answers).ok
      BY <3>2
    <3> QED
      BY <3>1, <3>2, <3>3, Zenon DEF JudgeInv
  <2>2. CASE UNCHANGED judgeVars
    <3>1. UNCHANGED <<judged, vpToken, judgedAt, answers, verdict>>
      BY <2>2 DEF judgeVars
    <3>2. Judge(judged, Tokens, judgedAt, answers)'
            = Judge(judged, Tokens, judgedAt, answers)
      BY <3>1, Zenon DEF Tokens
    <3> QED
      BY <3>1, <3>2, Zenon DEF JudgeInv
  <2> QED
    BY <2>1, <2>2
<1> QED
  BY <1>1, <1>2, PTL DEF JudgeSpec

\* What a verified response is: sequences where the code has them.
LEMMA JudgedWell ==
  ASSUME JudgeInv
  PROVE  /\ IsSequence(judged.query)
         /\ \A id \in DOMAIN Tokens :
              Tokens[id].format = FormatSDJWTVC => IsSequence(Tokens[id].disclosures)
BY ResponsesAssumption, Zenon DEF JudgeInv, Tokens

\* A presentation verified in one session is refused in every session with
\* another nonce, for all responses, times and status lists.
THEOREM NotTransferableHolds == JudgeSpec => []NotTransferable
<1>1. ASSUME JudgeInv PROVE NotTransferable
  <2> SUFFICES ASSUME verdict = "verified", NEW nonce \in Nonces, nonce # judged.nonce
               PROVE  ~ Judge(WithNonce(judged, nonce), Tokens, judgedAt, answers).ok
    BY Zenon DEF NotTransferable
  <2> DEFINE w == WithNonce(judged, nonce)
  <2>1. w.query = judged.query /\ w.nonce = nonce
    BY Zenon DEF WithNonce
  <2>2. IsSequence(judged.query) /\ Judge(judged, Tokens, judgedAt, answers).ok
    BY <1>1, JudgedWell, Zenon DEF JudgeInv
  <2> HIDE DEF w
  <2>3. ~ Judge(w, Tokens, judgedAt, answers).ok
    BY <2>1, <2>2, NonceBinds
  <2> QED
    BY <2>3, Zenon DEF w
<1> QED
  BY <1>1, JudgeInvariant, PTL

\* A response with an mdoc is bound to the session's own encryption key, for
\* all responses, times and status lists.
THEOREM BoundToResponseKeyHolds == JudgeSpec => []BoundToResponseKey
<1>1. ASSUME JudgeInv PROVE BoundToResponseKey
  <2> SUFFICES ASSUME verdict = "verified", NEW i \in Received, ~ IsSD(i),
                      NEW key \in ResponseKeys, key # judged.key
               PROVE  ~ Judge(WithKey(judged, key), Tokens, judgedAt, answers).ok
    BY Zenon DEF BoundToResponseKey
  <2> DEFINE w == WithKey(judged, key)
  <2>1. w.query = judged.query /\ w.key = key
    BY Zenon DEF WithKey
  <2>2. IsSequence(judged.query) /\ Judge(judged, Tokens, judgedAt, answers).ok
    BY <1>1, JudgedWell, Zenon DEF JudgeInv
  <2>3. i \in DOMAIN judged.query /\ judged.query[i].format = FormatMsoMdoc
    BY Zenon DEF Received, IsSD
  <2> HIDE DEF w
  <2>4. ~ Judge(w, Tokens, judgedAt, answers).ok
    BY <2>1, <2>2, <2>3, KeyBinds
  <2> QED
    BY <2>4, Zenon DEF w
<1> QED
  BY <1>1, JudgeInvariant, PTL

\* Every claim of a verified result was committed to by an issuer, for all
\* responses, times and status lists.
THEOREM ClaimsAreCommittedHolds == JudgeSpec => []ClaimsAreCommitted
<1>1. ASSUME JudgeInv PROVE ClaimsAreCommitted
  <2> SUFFICES ASSUME verdict = "verified",
                      NEW c \in Judge(judged, Tokens, judgedAt, answers).claims,
                      NEW name \in DOMAIN c
               PROVE  \E i \in Received : <<name, c[name]>> \in Committed(i)
    BY Zenon DEF ClaimsAreCommitted
  <2>1. Judge(judged, Tokens, judgedAt, answers).ok
    BY <1>1, Zenon DEF JudgeInv
  <2>2. /\ IsSequence(judged.query)
        /\ \A id \in DOMAIN Tokens :
             Tokens[id].format = FormatSDJWTVC => IsSequence(Tokens[id].disclosures)
    BY <1>1, JudgedWell, Zenon
  <2>3. PICK i \in DOMAIN judged.query : Vouched(judged.query[i], Tokens, name, c[name])
    BY <2>1, <2>2, ClaimCommitted
  <2>4. i \in Received
    BY <2>3, Zenon DEF Received, Vouched
  <2>5. CASE IsSD(i)
    <3>1. PICK d \in TokenOf(i).issuer.sd : d.name = name /\ d.value = c[name]
      BY <2>3, <2>5, Zenon DEF IsSD, TokenOf, Vouched
    <3>2. <<name, c[name]>> = <<d.name, d.value>>
      BY <3>1, Zenon
    <3>3. Committed(i) = {<<x.name, x.value>> : x \in TokenOf(i).issuer.sd}
      BY <2>5, Zenon DEF Committed
    <3> QED
      BY <2>4, <3>1, <3>2, <3>3, Zenon
  <2>6. CASE ~ IsSD(i)
    <3> DEFINE vd == TokenOf(i).documents[1].mso.valueDigests
    <3>1. \E ns \in DOMAIN vd : \E id \in DOMAIN vd[ns] :
            vd[ns][id].name = name /\ vd[ns][id].value = c[name]
      BY <2>3, <2>6, Zenon DEF IsSD, TokenOf, Vouched
    <3> DEFINE In(ns) == {<<vd[ns][id].name, vd[ns][id].value>> : id \in DOMAIN vd[ns]}
    <3>2. Committed(i) = UNION {In(ns) : ns \in DOMAIN vd}
      BY <2>6, Zenon DEF Committed
    <3>3. PICK ns \in DOMAIN vd : \E id \in DOMAIN vd[ns] :
            vd[ns][id].name = name /\ vd[ns][id].value = c[name]
      BY <3>1, Zenon
    <3>4. PICK id \in DOMAIN vd[ns] : vd[ns][id].name = name /\ vd[ns][id].value = c[name]
      BY <3>3, Zenon
    <3>5. <<vd[ns][id].name, vd[ns][id].value>> \in In(ns)
      BY <3>4, Zenon
    <3>6. <<name, c[name]>> \in Committed(i)
      <4>1. <<name, c[name]>> \in In(ns)
        BY <3>4, <3>5, Zenon
      <4> HIDE DEF In
      <4> QED
        BY <3>2, <3>3, <4>1, Zenon
    <3> QED
      BY <2>4, <3>6, Zenon
  <2> QED
    BY <2>5, <2>6
<1> QED
  BY <1>1, JudgeInvariant, PTL

\* No copy of a verified presentation with other disclosures verifies, for all
\* responses, times and status lists.
THEOREM DisclosuresAreSealedHolds == JudgeSpec => []DisclosuresAreSealed
<1>1. ASSUME JudgeInv PROVE DisclosuresAreSealed
  <2> SUFFICES ASSUME verdict = "verified", NEW i \in Received, IsSD(i),
                      NEW ds \in Selections, ds # TokenOf(i).disclosures
               PROVE  ~ VerifyWithStatus(WithDisclosures(TokenOf(i), ds),
                                         ClientID, judged.nonce, judgedAt).ok
    BY Zenon DEF DisclosuresAreSealed
  <2>1. IsSequence(judged.query) /\ Judge(judged, Tokens, judgedAt, answers).ok
    BY <1>1, JudgedWell, Zenon DEF JudgeInv
  <2>2. i \in DOMAIN judged.query /\ judged.query[i].format # FormatMsoMdoc
    BY Zenon DEF Received, IsSD
  <2>3. VerifyKeyBinding(TokenOf(i), ClientID, judged.nonce, judgedAt)
    <3>1. SDFacts(judged, Tokens, judgedAt, answers, i)
      BY <2>1, <2>2, EachSD, Zenon
    <3> QED
      BY <3>1, Zenon DEF SDFacts, TokenOf
  <2> QED
    BY <2>3, DisclosuresSealed
<1> QED
  BY <1>1, JudgeInvariant, PTL

\* The subject of a verified response is the one holder of all its SD-JWT VCs,
\* for all responses, times and status lists.
THEOREM OneHolderHolds == JudgeSpec => []OneHolder
<1>1. ASSUME JudgeInv PROVE OneHolder
  <2> SUFFICES ASSUME verdict = "verified"
               PROVE  /\ \E i \in Received : IsSD(i)
                      /\ \A i \in Received : IsSD(i) =>
                           Judge(judged, Tokens, judgedAt, answers).subject
                             = SubjectID(TokenOf(i).issuer.cnf)
    BY Zenon DEF OneHolder
  <2>1. IsSequence(judged.query) /\ Judge(judged, Tokens, judgedAt, answers).ok
    BY <1>1, JudgedWell, Zenon DEF JudgeInv
  <2>2. \E i \in Received : IsSD(i)
    <3>1. PICK i \in DOMAIN judged.query : judged.query[i].format # FormatMsoMdoc
      BY <2>1, SomeSD
    <3>2. judged.query[i].id \in DOMAIN Tokens
      <4>1. ResultOf(judged, Tokens, judgedAt, answers, i)
        BY <2>1, EachVerified, Zenon
      <4> QED
        BY <4>1, Zenon DEF ResultOf
    <3> QED
      BY <3>1, <3>2, Zenon DEF Received, IsSD
  <2>3. ASSUME NEW i \in Received, IsSD(i)
        PROVE  Judge(judged, Tokens, judgedAt, answers).subject
                 = SubjectID(TokenOf(i).issuer.cnf)
    <3>1. i \in DOMAIN judged.query /\ judged.query[i].format # FormatMsoMdoc
      BY <2>3, Zenon DEF Received, IsSD
    <3> QED
      BY <2>1, <3>1, SubjectIsHolder DEF TokenOf
  <2> QED
    BY <2>2, <2>3, Zenon
<1> QED
  BY <1>1, JudgeInvariant, PTL

-----------------------------------------------------------------------------
\* The reference that VerifyWithStatus returns is the one in the JWT as soon as
\* presentation and JWT parse, whatever else is wrong with them.
LEMMA StatusRead ==
  ASSUME NEW p, NEW aud, NEW nonce, NEW t, ParseSdJwt(p), p.issuer.parses
  PROVE  VerifyWithStatus(p, aud, nonce, t).status = p.issuer.status
BY Zenon DEF VerifyWithStatus, SdJwtResult, UnverifiedStatusClaim

\* CheckValid passes only an entry of a list that was fetched and is VALID.
LEMMA ValidMeansFetched ==
  ASSUME NEW status, NEW lists, CheckValid(status, lists)
  PROVE  LET list == lists[status.uri] IN
         list.reachable /\ list.token /\ StatusAt(list, status.idx) = StatusValid
<1>1. StatusError # StatusValid
  BY DEF StatusError, StatusValid
<1> QED
  BY <1>1, Zenon DEF CheckValid, FetchStatus

\* What the loop over the credentials has fetched.
LEMMA FetchedFields ==
  ASSUME NEW s, NEW tokens, NEW t, NEW lists
  PROVE  Judge(s, tokens, t, lists).fetched
           = AllTogether(Len(s.query), Results(s, tokens, t, lists)).fetched
<1> DEFINE a == AllTogether(Len(s.query), Results(s, tokens, t, lists))
<1>1. Judge(s, tokens, t, lists) = Judgement(a)
  BY Zenon DEF Judge, VerifyPresentations, Results
<1> HIDE DEF a
<1>2. Judgement(a).fetched = a.fetched
  BY Zenon DEF Judgement
<1> QED
  BY <1>1, <1>2, Zenon DEF a

\* The first credential's result decides whether its list is fetched.
LEMMA FirstFetched ==
  ASSUME NEW n \in Nat, n >= 1, NEW r, 1 \in DOMAIN r, r[1].fetched
  PROVE  1 \in AllTogether(n, r).fetched
<1> DEFINE Good(i) == i \in DOMAIN r /\ r[i].ok
           reached == {i \in 1 .. n : \A j \in 1 .. i - 1 : Good(j)}
<1>1. AllTogether(n, r).fetched = {i \in reached \cap DOMAIN r : r[i].fetched}
  BY Zenon DEF AllTogether
<1>2. 1 \in 1 .. n /\ 1 .. 1 - 1 = {}
  OBVIOUS
<1>3. 1 \in reached
  BY <1>2, Zenon
<1> QED
  BY <1>1, <1>3, Zenon

\* The status list named by a presentation is asked as soon as it parses.
LEMMA SDFetched ==
  ASSUME NEW s, NEW cred, NEW p, NEW t, NEW lists,
         cred.format # FormatMsoMdoc, p.format = FormatSDJWTVC,
         ParseSdJwt(p), p.issuer.parses, ParseRef(p.issuer.status)
  PROVE  VerifyPresentation(s, cred, p, t, lists).fetched
<1> DEFINE r == VerifyWithStatus(p, ClientID, s.nonce, t)
<1>1. VerifyPresentation(s, cred, p, t, lists) = WithStatusChecked(r, lists)
  BY Zenon DEF VerifyPresentation
<1>2. Fetches(r)
  BY StatusRead, Zenon DEF Fetches
<1> HIDE DEF r
<1>3. WithStatusChecked(r, lists).fetched = Fetches(r)
  BY Zenon DEF WithStatusChecked
<1> QED
  BY <1>1, <1>2, <1>3, Zenon

\* Only a fetched and VALID status ends in "verified", and a single
\* credential's list is asked whatever its signatures are, for all responses,
\* times and status lists.
THEOREM StatusDecidesHolds == JudgeSpec => []StatusDecides
<1>1. ASSUME JudgeInv PROVE StatusDecides
  <2> SUFFICES ASSUME verdict \in {"verified", "failed"},
                      NEW i \in Received, IsSD(i), TokenOf(i).format = FormatSDJWTVC,
                      TokenOf(i).issuer.parses, ParseRef(TokenOf(i).issuer.status)
               PROVE  LET ref == TokenOf(i).issuer.status
                          list == answers[ref.uri]
                      IN /\ verdict = "verified" =>
                              /\ list.reachable /\ list.token
                              /\ StatusAt(list, ref.idx) = StatusValid
                         /\ Len(judged.query) = 1 /\ ParseSdJwt(TokenOf(i)) =>
                              i \in Judge(judged, Tokens, judgedAt, answers).fetched
    BY Zenon DEF StatusDecides
  <2> DEFINE p == TokenOf(i)
             ref == p.issuer.status
             list == answers[ref.uri]
  <2>1. IsSequence(judged.query)
    BY <1>1, JudgedWell, Zenon
  <2>2. /\ i \in DOMAIN judged.query /\ judged.query[i].format # FormatMsoMdoc
        /\ judged.query[i].id \in DOMAIN Tokens
    BY Zenon DEF Received, IsSD
  <2>3. ASSUME verdict = "verified"
        PROVE  list.reachable /\ list.token /\ StatusAt(list, ref.idx) = StatusValid
    <3> DEFINE r == VerifyWithStatus(p, ClientID, judged.nonce, judgedAt)
    <3>1. Judge(judged, Tokens, judgedAt, answers).ok
      BY <1>1, <2>3, Zenon DEF JudgeInv
    <3>2. ParseSdJwt(p) /\ (Fetches(r) => CheckValid(r.status, answers))
      <4>1. SDFacts(judged, Tokens, judgedAt, answers, i)
        BY <2>1, <2>2, <3>1, EachSD, Zenon
      <4> QED
        BY <4>1, Zenon DEF SDFacts, TokenOf
    <3>3. r.status = ref
      BY <3>2, StatusRead, Zenon
    <3> HIDE DEF r, p
    <3>4. CheckValid(ref, answers)
      BY <3>2, <3>3, Zenon DEF Fetches, p
    <3> HIDE DEF ref
    <3> QED
      BY <3>4, ValidMeansFetched
  <2>4. ASSUME Len(judged.query) = 1, ParseSdJwt(p)
        PROVE  i \in Judge(judged, Tokens, judgedAt, answers).fetched
    <3> DEFINE r == Results(judged, Tokens, judgedAt, answers)
    <3>1. i = 1
      <4>1. i \in 1 .. 1
        BY <2>1, <2>2, <2>4, SequenceDomain, Zenon
      <4> QED
        BY ONLY <4>1
    <3>2. VerifyPresentation(judged, judged.query[i], p, judgedAt, answers).fetched
      BY <2>2, <2>4, SDFetched
    <3>3. i \in DOMAIN r /\ r[i] = VerifyPresentation(judged, judged.query[i], p, judgedAt, answers)
      BY <2>2, Zenon DEF Results, TokenOf
    <3> HIDE DEF r, p
    <3>4. 1 \in DOMAIN r /\ r[1].fetched
      BY <3>1, <3>2, <3>3, Zenon
    <3>5. 1 \in AllTogether(1, r).fetched
      BY <3>4, FirstFetched
    <3>6. Judge(judged, Tokens, judgedAt, answers).fetched = AllTogether(Len(judged.query), r).fetched
      BY FetchedFields, Zenon DEF r
    <3> QED
      BY <2>4, <3>1, <3>5, <3>6, Zenon
  <2> QED
    BY <2>3, <2>4, Zenon
<1> QED
  BY <1>1, JudgeInvariant, PTL

-----------------------------------------------------------------------------
\* The registry.

\* One step of the pass of containsScope.
ScanStep(s, want, f, i) ==
  IF i = 1 THEN <<FALSE, 1>>
  ELSE IF s[i - 1] = Blank
    THEN <<f[i - 1][1] \/ SubSeq(s, f[i - 1][2], i - 2) = want, i>>
    ELSE f[i - 1]

ScanRule(s, want, f) == [i \in 1 .. Len(s) + 1 |-> ScanStep(s, want, f, i)]

\* If there is a function that takes these steps, the pass is one.
LEMMA ScanDef ==
  ASSUME NEW s, NEW want, NEW g, g = ScanRule(s, want, g)
  PROVE  Scan(s, want) = ScanRule(s, want, Scan(s, want))
<1> DEFINE P(f) == f = ScanRule(s, want, f)
<1>1. P(g)
  OBVIOUS
<1>2. Scan(s, want) = CHOOSE f : P(f)
  BY Zenon DEF Scan, ScanRule, ScanStep
<1> HIDE DEF P
<1>3. P(CHOOSE f : P(f))
  BY <1>1, Zenon
<1> QED
  BY <1>2, <1>3, Zenon DEF P

\* x is where the word begins that is not cut yet before character i.
IsStart(s, i, x) ==
  /\ x \in 1 .. i
  /\ x > 1 => s[x - 1] = Blank
  /\ \A k \in x .. i - 1 : s[k] # Blank

StartOf(s, i) == CHOOSE x : IsStart(s, i, x)

\* There is one such place, after the last blank.
LEMMA StartExists ==
  ASSUME NEW s, NEW i \in Nat \ {0}
  PROVE  IsStart(s, i, StartOf(s, i))
<1> DEFINE B == {x \in 1 .. i : x > 1 => s[x - 1] = Blank}
<1>1. 1 \in B /\ B \subseteq 1 .. i
  OBVIOUS
<1>2. PICK m \in B : \A j \in B : j <= m
  <2> HIDE DEF B
  <2> QED
    BY <1>1, GreatestIndex
<1>3. ASSUME NEW k \in m .. i - 1, s[k] = Blank PROVE FALSE
  <2>1. k \in Int /\ m \in Int /\ m <= k /\ k + 1 \in 1 .. i /\ (k + 1) - 1 = k
    BY <1>2
  <2>2. k + 1 \in B
    BY <1>3, <2>1
  <2> QED
    BY <1>2, <2>1, <2>2
<1>4. IsStart(s, i, m)
  BY <1>2, <1>3 DEF IsStart
<1> QED
  BY <1>4, Zenon DEF StartOf

\* And only one.
LEMMA StartUnique ==
  ASSUME NEW s, NEW i \in Nat, NEW x, NEW z, IsStart(s, i, x), IsStart(s, i, z)
  PROVE  x = z
<1>1. x \in Int /\ z \in Int
  BY DEF IsStart
<1>2. ASSUME x < z PROVE FALSE
  <2>1. z > 1 /\ z - 1 \in x .. i - 1
    BY <1>1, <1>2 DEF IsStart
  <2> QED
    BY <2>1, Zenon DEF IsStart
<1>3. ASSUME z < x PROVE FALSE
  <2>1. x > 1 /\ x - 1 \in z .. i - 1
    BY <1>1, <1>3 DEF IsStart
  <2> QED
    BY <2>1, Zenon DEF IsStart
<1> QED
  BY <1>1, <1>2, <1>3

\* A word that ends before a blank that was read is the one wanted.
CutBefore(s, want, i) ==
  \E x \in 1 .. Len(s) + 1 : \E y \in 0 .. Len(s) :
    IsWord(s, x, y) /\ y + 1 < i /\ SubSeq(s, x, y) = want

\* The word that a blank, or the end, cuts.
LEMMA CutWord ==
  ASSUME NEW s, Len(s) \in Nat, NEW y \in 0 .. Len(s), NEW x,
         y < Len(s) => s[y + 1] = Blank
  PROVE  x \in 1 .. Len(s) + 1 /\ IsWord(s, x, y) <=> IsStart(s, y + 1, x)
<1>1. (y + 1) - 1 = y
  OBVIOUS
<1>2. x \in 1 .. Len(s) + 1 /\ x <= y + 1 <=> x \in 1 .. y + 1
  OBVIOUS
<1> QED
  BY <1>1, <1>2, Zenon DEF IsWord, IsStart

\* What one more character does to CutBefore and StartOf: a blank cuts the word
\* in hand, any other character belongs to it.
LEMMA AtBlank ==
  ASSUME NEW s, NEW want, Len(s) \in Nat, NEW i \in 2 .. Len(s) + 1, s[i - 1] = Blank
  PROVE  /\ StartOf(s, i) = i
         /\ CutBefore(s, want, i) <=>
              \/ CutBefore(s, want, i - 1)
              \/ SubSeq(s, StartOf(s, i - 1), i - 2) = want
<1>1. /\ i \in Nat \ {0} /\ i - 1 \in Nat \ {0} /\ i - 2 \in 0 .. Len(s)
      /\ (i - 2) + 1 = i - 1 /\ i - 2 < Len(s) /\ (i - 2) + 1 < i
  OBVIOUS
<1>2. StartOf(s, i) = i
  <2>1. IsStart(s, i, i)
    BY <1>1 DEF IsStart
  <2> QED
    BY <1>1, <2>1, StartExists, StartUnique
<1> DEFINE z == StartOf(s, i - 1)
<1>3. IsStart(s, i - 1, z)
  BY <1>1, StartExists
<1> HIDE DEF z
<1>4. \A x : x \in 1 .. Len(s) + 1 /\ IsWord(s, x, i - 2) <=> IsStart(s, i - 1, x)
  <2> TAKE x
  <2> QED
    BY <1>1, CutWord
<1>5. ASSUME CutBefore(s, want, i), ~ CutBefore(s, want, i - 1)
      PROVE  SubSeq(s, z, i - 2) = want
  <2>1. PICK x \in 1 .. Len(s) + 1, y \in 0 .. Len(s) :
          IsWord(s, x, y) /\ y + 1 < i /\ SubSeq(s, x, y) = want
    BY <1>5, Zenon DEF CutBefore
  <2>2. ~ (y + 1 < i - 1)
    BY <1>5, <2>1, Zenon DEF CutBefore
  <2>3. y = i - 2
    BY <1>1, <2>1, <2>2
  <2>4. x = z
    <3>1. IsStart(s, i - 1, x)
      BY <1>4, <2>1, <2>3, Zenon
    <3>2. i - 1 \in Nat
      BY <1>1
    <3> QED
      BY <1>3, <3>1, <3>2, StartUnique, Zenon
  <2> QED
    BY <2>1, <2>3, <2>4, Zenon
<1>6. ASSUME CutBefore(s, want, i - 1) PROVE CutBefore(s, want, i)
  <2>1. PICK x \in 1 .. Len(s) + 1, y \in 0 .. Len(s) :
          IsWord(s, x, y) /\ y + 1 < i - 1 /\ SubSeq(s, x, y) = want
    BY <1>6, Zenon DEF CutBefore
  <2>2. y + 1 < i
    BY <2>1
  <2> QED
    BY <2>1, <2>2, Zenon DEF CutBefore
<1>7. ASSUME SubSeq(s, z, i - 2) = want PROVE CutBefore(s, want, i)
  <2>1. z \in 1 .. Len(s) + 1 /\ IsWord(s, z, i - 2)
    BY <1>3, <1>4, Zenon
  <2> QED
    BY <1>1, <1>7, <2>1, Zenon DEF CutBefore
<1> QED
  BY <1>2, <1>5, <1>6, <1>7, Zenon DEF z

\* Any other character.
LEMMA AtCharacter ==
  ASSUME NEW s, NEW want, Len(s) \in Nat, NEW i \in 2 .. Len(s) + 1, s[i - 1] # Blank
  PROVE  /\ StartOf(s, i) = StartOf(s, i - 1)
         /\ CutBefore(s, want, i) <=> CutBefore(s, want, i - 1)
<1>1. i \in Nat \ {0} /\ i - 1 \in Nat \ {0}
  OBVIOUS
<1> DEFINE z == StartOf(s, i - 1)
<1>2. IsStart(s, i - 1, z)
  BY <1>1, StartExists
<1> HIDE DEF z
<1>3. IsStart(s, i, z)
  <2>1. z \in 1 .. i
    BY <1>2 DEF IsStart
  <2>2. ASSUME NEW k \in z .. i - 1 PROVE s[k] # Blank
    <3>1. k \in z .. (i - 1) - 1 \/ k = i - 1
      BY <2>1
    <3> QED
      BY <1>2, <3>1, Zenon DEF IsStart
  <2> QED
    BY <1>2, <2>1, <2>2, Zenon DEF IsStart
<1>4. StartOf(s, i) = z
  BY <1>1, <1>3, StartExists, StartUnique
<1>5. \A x, y : y \in 0 .. Len(s) /\ IsWord(s, x, y) => (y + 1 < i <=> y + 1 < i - 1)
  <2> SUFFICES ASSUME NEW x, NEW y \in 0 .. Len(s), IsWord(s, x, y)
               PROVE  y + 1 < i <=> y + 1 < i - 1
    BY Zenon
  <2>1. y + 1 # i - 1
    <3>1. y + 1 = i - 1 => y < Len(s)
      OBVIOUS
    <3> QED
      BY <3>1, Zenon DEF IsWord
  <2> QED
    BY <2>1
<1> QED
  BY <1>4, <1>5, Zenon DEF z, CutBefore

\* The parts of a pair.
LEMMA PairParts ==
  ASSUME NEW a, NEW b, NEW p, p = <<a, b>>
  PROVE  p[1] = a /\ p[2] = b
OBVIOUS

\* Truth values that imply each other are equal.
LEMMA SameBoolean ==
  ASSUME NEW a \in BOOLEAN, NEW b \in BOOLEAN, a <=> b
  PROVE  a = b
OBVIOUS

\* The pass in closed form.
Pass(s, want) == [i \in 1 .. Len(s) + 1 |-> <<CutBefore(s, want, i), StartOf(s, i)>>]

\* It takes the steps of the pass.
LEMMA PassSteps ==
  ASSUME NEW s, NEW want, Len(s) \in Nat, NEW i \in 1 .. Len(s) + 1
  PROVE  Pass(s, want)[i] = ScanStep(s, want, Pass(s, want), i)
<1> DEFINE g == Pass(s, want)
<1>1. g[i] = <<CutBefore(s, want, i), StartOf(s, i)>>
  BY Zenon DEF Pass
<1>2. CASE i = 1
  <2>1. CutBefore(s, want, 1) = FALSE
    <3>1. \A y \in 0 .. Len(s) : ~ (y + 1 < 1)
      OBVIOUS
    <3> QED
      BY <3>1, Zenon DEF CutBefore
  <2>2. StartOf(s, 1) = 1
    <3>1. IsStart(s, 1, 1)
      BY DEF IsStart
    <3> QED
      BY <3>1, StartExists, StartUnique
  <2> QED
    BY <1>1, <1>2, <2>1, <2>2, Zenon DEF ScanStep
<1>3. CASE i # 1
  <2>1. i \in 2 .. Len(s) + 1 /\ i - 1 \in 1 .. Len(s) + 1
    BY <1>3
  <2>2. g[i - 1] = <<CutBefore(s, want, i - 1), StartOf(s, i - 1)>>
    BY <2>1, Zenon DEF Pass
  <2>3. g[i - 1][1] = CutBefore(s, want, i - 1) /\ g[i - 1][2] = StartOf(s, i - 1)
    <3>1. PICK p, a, b : p = g[i - 1] /\ a = CutBefore(s, want, i - 1) /\ b = StartOf(s, i - 1)
      OBVIOUS
    <3>2. p = <<a, b>>
      BY <2>2, <3>1, Zenon
    <3>3. p[1] = a /\ p[2] = b
      BY ONLY <3>2, PairParts
    <3> QED
      BY <3>1, <3>3, Zenon
  <2> HIDE DEF g
  <2>4. CASE s[i - 1] = Blank
    <3>1. /\ StartOf(s, i) = i
          /\ CutBefore(s, want, i) = (g[i - 1][1] \/ SubSeq(s, g[i - 1][2], i - 2) = want)
      <4>1. /\ StartOf(s, i) = i
            /\ CutBefore(s, want, i) <=>
                 CutBefore(s, want, i - 1) \/ SubSeq(s, StartOf(s, i - 1), i - 2) = want
        BY <2>1, <2>4, AtBlank
      <4>2. CutBefore(s, want, i) \in BOOLEAN /\ CutBefore(s, want, i - 1) \in BOOLEAN
        BY Zenon DEF CutBefore
      <4>3. CutBefore(s, want, i) =
              (CutBefore(s, want, i - 1) \/ SubSeq(s, StartOf(s, i - 1), i - 2) = want)
        BY <4>1, <4>2, SameBoolean, Zenon
      <4> QED
        BY <2>3, <4>1, <4>3, Zenon
    <3> QED
      BY <1>1, <1>3, <2>4, <3>1, Zenon DEF ScanStep, g
  <2>5. CASE s[i - 1] # Blank
    <3>1. StartOf(s, i) = StartOf(s, i - 1) /\ CutBefore(s, want, i) = CutBefore(s, want, i - 1)
      <4>1. /\ StartOf(s, i) = StartOf(s, i - 1)
            /\ CutBefore(s, want, i) <=> CutBefore(s, want, i - 1)
        BY <2>1, <2>5, AtCharacter
      <4>2. CutBefore(s, want, i) \in BOOLEAN /\ CutBefore(s, want, i - 1) \in BOOLEAN
        BY Zenon DEF CutBefore
      <4> QED
        BY <4>1, <4>2, SameBoolean, Zenon
    <3> QED
      BY <1>1, <1>3, <2>2, <2>5, <3>1, Zenon DEF ScanStep, g
  <2> QED
    BY <2>4, <2>5
<1> QED
  BY <1>2, <1>3

\* So the pass is its closed form, up to and including the end of the string.
LEMMA ScanIsPass ==
  ASSUME NEW s, NEW want, Len(s) \in Nat
  PROVE  Scan(s, want)[Len(s) + 1] = Pass(s, want)[Len(s) + 1]
<1> DEFINE f == Scan(s, want)
           g == Pass(s, want)
           A == {i \in 1 .. Len(s) + 1 : \A j \in 1 .. i : f[j] = g[j]}
<1>1. g = ScanRule(s, want, g)
  BY PassSteps, Zenon DEF ScanRule, Pass
<1>2. f = ScanRule(s, want, f)
  BY <1>1, ScanDef, Zenon
<1>3. \A i \in 1 .. Len(s) + 1 :
        f[i] = ScanStep(s, want, f, i) /\ g[i] = ScanStep(s, want, g, i)
  BY <1>1, <1>2, Zenon DEF ScanRule
<1> HIDE DEF f, g
<1>4. 1 \in A
  <2>1. 1 \in 1 .. Len(s) + 1 /\ \A j \in 1 .. 1 : j = 1
    OBVIOUS
  <2>2. f[1] = g[1]
    BY <1>3, <2>1, Zenon DEF ScanStep
  <2> QED
    BY <2>1, <2>2, Zenon
<1>5. PICK m \in A : \A j \in A : j <= m
  <2>1. A \subseteq 1 .. Len(s) + 1 /\ Len(s) + 1 \in Nat
    BY Zenon, SMT
  <2> HIDE DEF A
  <2> QED
    BY <1>4, <2>1, GreatestIndex
<1>6. m = Len(s) + 1
  <2> SUFFICES ASSUME m # Len(s) + 1 PROVE FALSE
    OBVIOUS
  <2>1. m \in 1 .. Len(s) + 1 /\ f[m] = g[m] /\ \A j \in 1 .. m : f[j] = g[j]
    BY <1>5
  <2>2. /\ m + 1 \in 1 .. Len(s) + 1 /\ m + 1 # 1 /\ (m + 1) - 1 = m
        /\ \A j \in 1 .. m + 1 : j \in 1 .. m \/ j = m + 1
        /\ ~ (m + 1 <= m)
    BY <2>1
  <2>3. f[m + 1] = g[m + 1]
    <3>1. f[(m + 1) - 1] = g[(m + 1) - 1]
      BY <2>1, <2>2, Zenon
    <3>2. ScanStep(s, want, f, m + 1) = ScanStep(s, want, g, m + 1)
      BY <2>2, <3>1, Zenon DEF ScanStep
    <3> QED
      BY <1>3, <2>2, <3>2, Zenon
  <2>4. m + 1 \in A
    BY <2>1, <2>2, <2>3, Zenon
  <2> QED
    BY <1>5, <2>2, <2>4, Zenon
<1>7. m \in 1 .. m
  BY <1>5
<1> QED
  BY <1>5, <1>6, <1>7, Zenon DEF f, g

\* containsScope finds exactly the words of a scope string.
THEOREM ContainsScopeFindsWords ==
  ASSUME NEW s, NEW want, Len(s) \in Nat
  PROVE  ContainsScope(s, want) <=> HasWord(s, want)
<1> DEFINE n == Len(s)
           z == StartOf(s, n + 1)
<1>1. n + 1 \in Nat \ {0} /\ n \in 0 .. n /\ ~ (n < n) /\ n + 1 \in 1 .. n + 1
  OBVIOUS
<1>2. Scan(s, want)[n + 1] = <<CutBefore(s, want, n + 1), z>>
  BY <1>1, ScanIsPass, Zenon DEF Pass
<1>3. ContainsScope(s, want) <=> CutBefore(s, want, n + 1) \/ SubSeq(s, z, n) = want
  <2>1. Scan(s, want)[n + 1][1] = CutBefore(s, want, n + 1) /\ Scan(s, want)[n + 1][2] = z
    <3>1. PICK p, a : p = Scan(s, want)[n + 1] /\ a = CutBefore(s, want, n + 1)
      OBVIOUS
    <3>2. p = <<a, z>>
      BY <1>2, <3>1, Zenon
    <3> HIDE DEF z
    <3>3. p[1] = a /\ p[2] = z
      BY ONLY <3>2, PairParts
    <3> QED
      BY <3>1, <3>3, Zenon
  <2> QED
    BY <2>1, Zenon DEF ContainsScope
<1>4. IsStart(s, n + 1, z)
  BY <1>1, StartExists
<1> HIDE DEF z
<1>5. \A x : x \in 1 .. n + 1 /\ IsWord(s, x, n) <=> IsStart(s, n + 1, x)
  <2> TAKE x
  <2> QED
    BY <1>1, CutWord
<1>6. ASSUME SubSeq(s, z, n) = want PROVE HasWord(s, want)
  <2>1. z \in 1 .. n + 1 /\ IsWord(s, z, n)
    BY <1>4, <1>5, Zenon
  <2> QED
    BY <1>1, <1>6, <2>1, Zenon DEF HasWord
<1>7. ASSUME CutBefore(s, want, n + 1) PROVE HasWord(s, want)
  BY <1>7, Zenon DEF CutBefore, HasWord
<1>8. ASSUME HasWord(s, want), ~ CutBefore(s, want, n + 1)
      PROVE  SubSeq(s, z, n) = want
  <2>1. PICK x \in 1 .. n + 1, y \in 0 .. n : IsWord(s, x, y) /\ SubSeq(s, x, y) = want
    BY <1>8, Zenon DEF HasWord
  <2>2. ~ (y + 1 < n + 1)
    BY <1>8, <2>1, Zenon DEF CutBefore
  <2>3. y = n
    BY <2>1, <2>2
  <2>4. x = z
    <3>1. IsStart(s, n + 1, x)
      BY <1>5, <2>1, <2>3, Zenon
    <3>2. n + 1 \in Nat
      BY <1>1
    <3> QED
      BY <1>4, <3>1, <3>2, StartUnique, Zenon
  <2> QED
    BY <2>1, <2>3, <2>4, Zenon
<1> QED
  BY <1>3, <1>6, <1>7, <1>8, Zenon

\* When Load accepts a file.
Accepted(d, openid) ==
  /\ d.readable
  /\ \A i \in DOMAIN d.clients : ValidClient(d.clients[i], openid)
  /\ NoDuplicates(ClientIDs(d))
  /\ \A i \in DOMAIN d.scopes : ValidCredentialScope(d.scopes[i])
  /\ NoDuplicates(ScopeNames(d))

\* Load accepts these files and no others.
LEMMA LoadedWhen ==
  ASSUME NEW d, NEW openid
  PROVE  Load(d, openid).loaded <=> Accepted(d, openid)
<1>1. CASE Accepted(d, openid)
  <2>1. PICK c, cs : c = Keyed(d.clients, ClientIDs(d)) /\ cs = Keyed(d.scopes, ScopeNames(d))
    OBVIOUS
  <2>2. Load(d, openid) = [loaded |-> TRUE, clients |-> c, credentialScopes |-> cs]
    BY <1>1, <2>1, Zenon DEF Load, Accepted
  <2>3. [loaded |-> TRUE, clients |-> c, credentialScopes |-> cs].loaded = TRUE
    BY Zenon
  <2> QED
    BY <1>1, <2>2, <2>3, Zenon
<1>2. CASE ~ Accepted(d, openid)
  <2>1. Load(d, openid) = Rejected
    BY <1>2, Zenon DEF Load, Accepted
  <2>2. Rejected.loaded = FALSE
    BY Zenon DEF Rejected
  <2> QED
    BY <1>2, <2>1, <2>2, Zenon
<1> QED
  BY <1>1, <1>2, Zenon

\* What New returned tells whether Load accepted the file.
LEMMA ServerTells ==
  ASSUME NEW p, NEW v, NEW d, NEW openid
  PROVE  /\ NewServer(p, v, d, openid) = "mounted" => Accepted(d, openid)
         /\ NewServer(p, v, d, openid) = "fails" => ~ v \/ ~ Accepted(d, openid)
         /\ NewServer(p, v, d, openid) # "starting"
<1>1. CASE p = ""
  BY <1>1, Zenon DEF NewServer
<1>2. CASE p # "" /\ (~ v \/ ~ Load(d, openid).loaded)
  BY <1>2, LoadedWhen, Zenon DEF NewServer
<1>3. CASE p # "" /\ ~ (~ v \/ ~ Load(d, openid).loaded)
  BY <1>3, LoadedWhen, Zenon DEF NewServer
<1> QED
  BY <1>1, <1>2, <1>3, Zenon

\* The server is what New made of the file.
RegistryInv ==
  /\ doc \in Docs
  /\ server = "starting" \/ server = NewServer(path, verifier, doc, OpenID)

\* RegistryInv is an invariant.
THEOREM RegistryInvariant == RegistrySpec => []RegistryInv
<1>1. RegistryInit => RegistryInv
  BY Zenon DEF RegistryInit, RegistryInv
<1>2. RegistryInv /\ [Start \/ Login]_registryVars => RegistryInv'
  <2> SUFFICES ASSUME RegistryInv, [Start \/ Login]_registryVars PROVE RegistryInv'
    OBVIOUS
  <2>1. doc' = doc /\ path' = path /\ verifier' = verifier
    BY Zenon DEF Start, Login, registryVars
  <2>2. server' = server \/ server' = NewServer(path, verifier, doc, OpenID)
    BY Zenon DEF Start, Login, registryVars
  <2> QED
    BY <2>1, <2>2, Zenon DEF RegistryInv
<1> QED
  BY <1>1, <1>2, PTL DEF RegistrySpec

\* Load accepts a client exactly when openid is a word of its scope and its
\* other fields are right, for scope strings of any length.
THEOREM OpenIDIsAWordHolds == RegistrySpec => []OpenIDIsAWord
<1>1. ASSUME RegistryInv PROVE OpenIDIsAWord
  <2>1. ASSUME NEW i \in DOMAIN doc.clients
        PROVE  ContainsScope(doc.clients[i].scope, OpenID)
                 <=> HasWord(doc.clients[i].scope, OpenID)
    <3>1. doc.clients[i].scope \in Seq(Characters)
      BY <1>1, DocsAssumption, Zenon DEF RegistryInv
    <3>2. Len(doc.clients[i].scope) \in Nat
      BY <3>1
    <3> QED
      BY <3>2, ContainsScopeFindsWords, Zenon
  <2>2. server = "mounted" => Accepted(doc, OpenID)
    BY <1>1, ServerTells, Zenon DEF RegistryInv
  <2>3. server = "fails" => ~ verifier \/ ~ Accepted(doc, OpenID)
    BY <1>1, ServerTells, Zenon DEF RegistryInv
  <2>4. ASSUME server = "mounted", NEW i \in DOMAIN doc.clients
        PROVE  HasWord(doc.clients[i].scope, OpenID)
    BY <2>1, <2>2, <2>4, Zenon DEF Accepted, ValidClient
  <2>5. ASSUME server = "fails", verifier, doc.readable,
               NoDuplicates(ClientIDs(doc)), NoDuplicates(ScopeNames(doc)),
               \A i \in DOMAIN doc.scopes : ValidCredentialScope(doc.scopes[i]),
               \A i \in DOMAIN doc.clients : OtherwiseValid(doc.clients[i])
        PROVE  \E i \in DOMAIN doc.clients : ~ HasWord(doc.clients[i].scope, OpenID)
    <3>1. PICK i \in DOMAIN doc.clients : ~ ValidClient(doc.clients[i], OpenID)
      BY <2>3, <2>5, Zenon DEF Accepted
    <3> QED
      BY <2>1, <2>5, <3>1, Zenon DEF ValidClient, OtherwiseValid
  <2> QED
    BY <2>4, <2>5, Zenon DEF OpenIDIsAWord
<1> QED
  BY <1>1, RegistryInvariant, PTL

=============================================================================
