------------------------- MODULE VerificationOutcome -------------------------
(***************************************************************************)
(* What the Verifier promises of a verification session, whatever requests *)
(* race on it: it is open once, an outcome is recorded only while it is    *)
(* open and names only a holder who proved possession of their key in this *)
(* very session, and a closed session shows nothing and never reopens.     *)
(***************************************************************************)
CONSTANTS Sessions, Subjects, None, Failed

VARIABLES
  phase,    \* session -> "new", "open" or "closed"
  proved,   \* session -> holders who presented for it
  outcome   \* session -> None, Failed or a holder

outcomeVars == <<phase, proved, outcome>>

OutcomeInit ==
  /\ phase = [s \in Sessions |-> "new"]
  /\ proved = [s \in Sessions |-> {}]
  /\ outcome = [s \in Sessions |-> None]

Open(s) ==
  /\ phase[s] = "new"
  /\ phase' = [phase EXCEPT ![s] = "open"]
  /\ UNCHANGED <<proved, outcome>>

Prove(s, x) ==
  /\ phase[s] # "new"
  /\ proved' = [proved EXCEPT ![s] = @ \cup {x}]
  /\ UNCHANGED <<phase, outcome>>

Decide(s, o) ==
  /\ phase[s] = "open"
  /\ o \in proved[s] \cup {Failed}
  /\ outcome' = [outcome EXCEPT ![s] = o]
  /\ UNCHANGED <<phase, proved>>

\* Any number of sessions close at once when the process stops.
Close(S) ==
  /\ \A s \in S : phase[s] = "open"
  /\ phase' = [s \in Sessions |-> IF s \in S THEN "closed" ELSE phase[s]]
  /\ outcome' = [s \in Sessions |-> IF s \in S THEN None ELSE outcome[s]]
  /\ UNCHANGED proved

OutcomeNext ==
  \/ \E s \in Sessions : Open(s)
  \/ \E s \in Sessions, x \in Subjects : Prove(s, x)
  \/ \E s \in Sessions, o \in Subjects \cup {Failed} : Decide(s, o)
  \/ \E S \in SUBSET Sessions : Close(S)

OutcomeSpec == OutcomeInit /\ [][OutcomeNext]_outcomeVars

=============================================================================
