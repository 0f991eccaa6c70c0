------------------------------ MODULE UidSets -------------------------------
(***************************************************************************)
(* UID sets as the server writes them and as the commands return them.  An *)
(* element is a pair <<a, b>>: the range a:b, in whichever order the       *)
(* server put its ends, or the single UID a when a = b.                    *)
(***************************************************************************)
EXTENDS Naturals, Sequences, FiniteSets, SequencesExt

Lower(e) == IF e[1] <= e[2] THEN e[1] ELSE e[2]
Upper(e) == IF e[1] <= e[2] THEN e[2] ELSE e[1]

ExpandedAsWritten(e) == [i \in 1..((e[2] + 1) - e[1]) |-> e[1] + i - 1]  \* mutant: ends not swapped
Expanded(e) == [i \in 1..(Upper(e) - Lower(e) + 1) |-> Lower(e) + i - 1]

\* The numbers of s in ascending order: place i holds the one with fewer than i
\* below it, and i or more up to it.
Ascending(s) ==
  [i \in DOMAIN s |-> CHOOSE n \in ToSet(s) : /\ Cardinality({j \in DOMAIN s : s[j] < n}) < i
                                             /\ Cardinality({j \in DOMAIN s : s[j] <= n}) >= i]

\* uid_set_to_vec
UidSetToVec(set) == Ascending(FlattenSeq([i \in 1..Len(set) |-> Expanded(set[i])]))

\* uid_ranges: the ranges are kept, their ends put in order.
UidRanges(set) == [i \in 1..Len(set) |-> <<Lower(set[i]), Upper(set[i])>>]

\* copyuid_from_code and copyuid_from_other: one triple, or none.  A UIDVALIDITY
\* of 0 is read by hand, anything else the grammar rejects is no COPYUID.
CopyUidFromCode(code) ==
  IF code.name = "COPYUID" /\ code.readable
  THEN {<<code.validity, UidSetToVec(code.source), UidSetToVec(code.destination)>>}
  ELSE {}
=============================================================================
