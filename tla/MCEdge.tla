------------------------------- MODULE MCEdge -------------------------------
(***************************************************************************)
(* What a request meets first: the checks that keep no state, or a DPoP    *)
(* proof and the jti store.  A behaviour explores one of the two, and the  *)
(* other stays as it began.                                                *)
(***************************************************************************)
EXTENDS MCChecks, MCDPoP

VARIABLE explored

EdgeInit ==
  /\ DPoPInit
  /\ \/ explored = "dpop" /\ LookupOff /\ JudgeOff /\ AttestationOff /\ RegistryOff
     \/ explored = "checks" /\ ChecksInit

EdgeNext ==
  \/ explored = "dpop" /\ DPoPNext /\ UNCHANGED <<checksVars, explored>>
  \/ explored = "checks" /\ ChecksNext /\ UNCHANGED <<dpopVars, explored>>

EdgeSpec == EdgeInit /\ [][EdgeNext]_<<checksVars, dpopVars, explored>>

=============================================================================
