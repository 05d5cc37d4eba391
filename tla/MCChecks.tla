------------------------------ MODULE MCChecks ------------------------------
(***************************************************************************)
(* The checks that keep no state: a status looked up, a presentation       *)
(* judged, a client attestation resolved, a registry loaded and asked.     *)
(* Each behaviour makes one of them, on one of its inputs.                 *)
(***************************************************************************)
EXTENDS MCStatusList, MCPresentation, MCClientAttestation, MCRegistry

checksVars == <<lookupVars, judgeVars, attestationVars, registryVars>>

ChecksInit ==
  \/ LookupInit /\ JudgeOff /\ AttestationOff /\ RegistryOff
  \/ LookupOff /\ JudgeInit /\ AttestationOff /\ RegistryOff
  \/ LookupOff /\ JudgeOff /\ AttestationInit /\ RegistryOff
  \/ LookupOff /\ JudgeOff /\ AttestationOff /\ RegistryInit

ChecksNext ==
  \/ LookupOnce /\ UNCHANGED <<judgeVars, attestationVars, registryVars>>
  \/ JudgeOnce /\ UNCHANGED <<lookupVars, attestationVars, registryVars>>
  \/ ResolveOnce /\ UNCHANGED <<lookupVars, judgeVars, registryVars>>
  \/ Start /\ UNCHANGED <<lookupVars, judgeVars, attestationVars>>
  \/ Login /\ UNCHANGED <<lookupVars, judgeVars, attestationVars>>

ChecksSpec == ChecksInit /\ [][ChecksNext]_checksVars

=============================================================================
