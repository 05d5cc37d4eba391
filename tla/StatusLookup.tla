---------------------------- MODULE StatusLookup ----------------------------
(***************************************************************************)
(* One entry of one status list, looked up once: CheckValid of             *)
(* internal/statuslistcheck, on any list and index, with what it promises. *)
(***************************************************************************)
EXTENDS StatusList

CONSTANTS
  StatusLists,   \* the lists fetched
  Indexes        \* the idx of a credential's reference

ASSUME StatusListsAssumption ==
  /\ StatusLists \subseteq [reachable : BOOLEAN, token : BOOLEAN, bits : Int,
                            raw : Seq(0 .. 255)]
  /\ Indexes \subseteq Int

VARIABLES
  statusList,   \* what the fetch returned
  entry,        \* the index asked for
  lookup        \* what CheckValid makes of it

lookupVars == <<statusList, entry, lookup>>

LookupInit ==
  /\ statusList \in StatusLists
  /\ entry \in Indexes
  /\ lookup = "none"

\* CheckValid, at the one list the reference names.
LookupOnce ==
  /\ lookup = "none"
  /\ lookup' = IF CheckValid([ref |-> TRUE, idx |-> entry, uri |-> "u"],
                             [u \in {"u"} |-> statusList])
                 THEN "valid" ELSE "refused"
  /\ UNCHANGED <<statusList, entry>>

LookupSpec == LookupInit /\ [][LookupOnce]_lookupVars

-----------------------------------------------------------------------------
\* The list as the draft defines it: a string of bits, least significant bit
\* of each byte first, in which an entry is the bits of its own position.
Bit(k) == (statusList.raw[(k \div 8) + 1] \div (2 ^ (k % 8))) % 2

EntryIsZero(i, width) == \A j \in 0 .. width - 1 : Bit(i * width + j) = 0

InRange(i, width) == i >= 0 /\ (i + 1) * width <= 8 * Len(statusList.raw)

\* For the widths the draft allows, CheckValid passes a credential exactly
\* when the list was fetched and the entry asked for, read bit by bit, is VALID:
\* no neighbouring entry and no byte past the end plays a part.
ValidIsEntryZero ==
  lookup \in {"valid", "refused"} =>
  LET width == EntryWidth(statusList) IN
  width \in {1, 2, 4, 8} =>
    (lookup = "valid" <=>
       /\ statusList.reachable /\ statusList.token
       /\ InRange(entry, width)
       /\ EntryIsZero(entry, width))

\* What the error of statusAt says, "idx %d out of range": an index that is
\* no entry of the list is refused.
OutOfRangeRefused ==
  lookup = "valid" => InRange(entry, EntryWidth(statusList))

=============================================================================
