----------------------------- MODULE StatusList -----------------------------
(***************************************************************************)
(* Reading one entry of a Token Status List: internal/statuslistcheck.     *)
(*                                                                         *)
(* A fetched list is a record: reachable, the request succeeded; token, it *)
(* is a JWT with a status_list that inflates; bits, twice the number in    *)
(* its bits claim (0 for none, 1 for a half); raw, the bytes.  Products of *)
(* index and width are assumed to fit 64 bits.                             *)
(***************************************************************************)
EXTENDS Integers, Sequences

StatusValid == 0
BitsPerEntry == 2

\* What statusAt returns instead of a status.
StatusError == -1

\* Go's / and % on signed integers round towards zero.
GoDiv(a, b) == IF a >= 0 THEN a \div b ELSE -((-a) \div b)
GoRem(a, b) == a - b * GoDiv(a, b)

\* The bits claim is taken when it is a positive number, its fraction cut.
EntryWidth(list) == IF list.bits > 0 THEN list.bits \div 2 ELSE BitsPerEntry

\* uint8((1 << bits) - 1), as the modulus it masks with
MaskModulus(bits) == IF bits >= 8 THEN 256 ELSE 2 ^ bits

\* byte >> uint(offset): converted to unsigned, a negative offset is huge
ShiftRight(byte, offset) ==
  IF offset \in 0 .. 7 THEN byte \div (2 ^ offset) ELSE 0

\* Mutant: entries are counted from the most significant bit.
StatusAtMSB(list, idx) ==
  LET bits == EntryWidth(list)
      byteIndex == GoDiv(idx * bits, 8)
      bitOffset == 8 - bits - GoRem(idx * bits, 8)
  IN IF byteIndex < 0 \/ byteIndex >= Len(list.raw)
       THEN StatusError
       ELSE ShiftRight(list.raw[byteIndex + 1], bitOffset) % MaskModulus(bits)

\* statusAt
StatusAt(list, idx) ==
  LET bits == EntryWidth(list)
      byteIndex == GoDiv(idx * bits, 8)
      bitOffset == GoRem(idx * bits, 8)
  IN IF byteIndex < 0 \/ byteIndex >= Len(list.raw)
       THEN StatusError
       ELSE ShiftRight(list.raw[byteIndex + 1], bitOffset) % MaskModulus(bits)

\* Fetch
FetchStatus(list, idx) ==
  IF list.reachable /\ list.token THEN StatusAt(list, idx) ELSE StatusError

\* ParseRef: a status_list member with a number and a non-empty uri
ParseRef(status) == status.ref /\ status.uri # ""

\* CheckValid
CheckValid(status, lists) ==
  FetchStatus(lists[status.uri], status.idx) = StatusValid

=============================================================================
