---------------------------- MODULE MCIdentifyPage ----------------------------
(***************************************************************************)
(* Small instances of IdentifyPage.                                        *)
(***************************************************************************)
EXTENDS IdentifyPage, TLC

PageNames ==
  Permutations(PageTabs) \cup Permutations(RequestURIs) \cup Permutations(PageSessions)

=============================================================================
