---------------------------- MODULE GoMapsProofs ----------------------------
(***************************************************************************)
(* What the map operations of GoMaps do, for every map: the facts the      *)
(* proofs about the stores cite instead of expanding the definitions.      *)
(***************************************************************************)
EXTENDS GoMaps, TLAPS

\* m[k] = v adds the key k, maps it to v and leaves every other key alone.
LEMMA PutFacts ==
  ASSUME NEW m, NEW k, NEW v
  PROVE  /\ DOMAIN Put(m, k, v) = DOMAIN m \cup {k}
         /\ Put(m, k, v)[k] = v
         /\ \A x \in DOMAIN m : x # k => Put(m, k, v)[x] = m[x]
BY DEF Put

\* m[k] = v keeps a map well typed.
LEMMA PutIsMap ==
  ASSUME NEW K, NEW V, NEW m, IsMap(m, K, V), NEW k \in K, NEW v \in V
  PROVE  IsMap(Put(m, k, v), K, V)
BY DEF Put, IsMap

\* delete(m, k) removes the key k and leaves every other key alone.
LEMMA DeleteFacts ==
  ASSUME NEW m, NEW k
  PROVE  /\ DOMAIN Delete(m, k) = DOMAIN m \ {k}
         /\ \A x \in DOMAIN m : x # k => Delete(m, k)[x] = m[x]
BY DEF Delete, Restrict

\* delete(m, k) keeps a map well typed.
LEMMA DeleteIsMap ==
  ASSUME NEW K, NEW V, NEW m, IsMap(m, K, V), NEW k
  PROVE  IsMap(Delete(m, k), K, V)
BY DEF Delete, Restrict, IsMap

\* Dropping all the keys outside S, as a sweep over a map does, leaves the
\* keys in S alone and keeps the map well typed.
LEMMA RestrictFacts ==
  ASSUME NEW K, NEW V, NEW m, IsMap(m, K, V), NEW S \in SUBSET DOMAIN m
  PROVE  /\ DOMAIN Restrict(m, S) = S
         /\ \A x \in S : Restrict(m, S)[x] = m[x]
         /\ IsMap(Restrict(m, S), K, V)
BY DEF Restrict, IsMap

\* make(map[K]V) has no keys and is well typed.
LEMMA EmptyFacts ==
  ASSUME NEW K, NEW V
  PROVE  DOMAIN EmptyMap = {} /\ IsMap(EmptyMap, K, V)
BY DEF EmptyMap, IsMap

=============================================================================
