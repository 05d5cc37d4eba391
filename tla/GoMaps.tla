------------------------------- MODULE GoMaps -------------------------------
(***************************************************************************)
(* The Go maps the in-memory stores are made of, as functions whose domain *)
(* grows and shrinks.                                                      *)
(***************************************************************************)
EXTENDS Functions

\* make(map[K]V)
EmptyMap == [x \in {} |-> x]

\* m[k] = v
Put(m, k, v) == [x \in DOMAIN m \cup {k} |-> IF x = k THEN v ELSE m[x]]

\* delete(m, k): a no-op when k is not a key of m
Delete(m, k) == Restrict(m, DOMAIN m \ {k})

\* m is a map with keys in K and values in V
IsMap(m, K, V) ==
  /\ m = [x \in DOMAIN m |-> m[x]]
  /\ DOMAIN m \subseteq K
  /\ \A x \in DOMAIN m : m[x] \in V

=============================================================================
