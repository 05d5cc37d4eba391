---------------------------- MODULE MCStatusList ----------------------------
(***************************************************************************)
(* Every entry of every small status list, looked up once.                 *)
(***************************************************************************)
EXTENDS StatusLookup, TLC

CONSTANTS
  Bytes,      \* values of a byte of the list
  MaxBytes,   \* bound on its length
  Widths      \* numbers in the bits claim, doubled

\* Indexes around the first byte
MCEdge == -9 .. 4

MCLists == [reachable : BOOLEAN, token : BOOLEAN, bits : Widths,
            raw : UNION {[1 .. n -> Bytes] : n \in 1 .. MaxBytes}]

\* Another check has its turn.
LookupOff == statusList = <<>> /\ entry = 0 /\ lookup = "off"

=============================================================================
