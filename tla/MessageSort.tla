---------------------------- MODULE MessageSort -----------------------------
(***************************************************************************)
(* The client-side order of ImapMessageSort (src/rfc5256/sort.rs): which   *)
(* items are fetched for a list of criteria, how two fetched messages      *)
(* compare, and the ids returned.                                          *)
(*                                                                         *)
(* A criterion is [key, reverse].  What was fetched of a message is a      *)
(* sequence of items [msg, names]: each FETCH response read for it carries *)
(* the items `names` of message msg.  The value of a key is a number, 0    *)
(* when the message has none: absent values compare as the least.          *)
(***************************************************************************)
EXTENDS Naturals, Sequences, FiniteSets, SequencesExt

CONSTANT Attributes   \* Attributes[msg][key]: the value of the key in the items of a
                      \* message, 0 when absent

Compared == {"Arrival", "Size", "Date", "Subject"}
SortKeys == Compared \cup {"Cc", "From", "To", "DisplayFrom", "DisplayTo"}

ItemOf(key) ==
  CASE key = "Arrival" -> {"InternalDate"}
    [] key = "Size" -> {"Rfc822Size"}
    [] key \in {"Cc", "Date", "From", "Subject", "To"} -> {"Envelope"}
    [] key \in {"DisplayFrom", "DisplayTo"} -> {}

FetchItems(criteria, uid) ==
  (UNION {ItemOf(criteria[i].key) : i \in DOMAIN criteria}) \cup {"Envelope"}
    \cup (IF uid THEN {"Uid"} ELSE {})

\* The message of the first response that carries the item, if one does.
Carrier(items, name) ==
  LET I == {i \in DOMAIN items : name \in items[i].names}
  IN {items[i].msg : i \in {j \in I : \A k \in I : j <= k}}

Key(items, key) ==
  IF key \in Compared
  THEN LET M == UNION {Carrier(items, n) : n \in ItemOf(key)}
       IN IF M = {} THEN 0 ELSE Attributes[CHOOSE m \in M : TRUE][key]
  ELSE 0   \* the other keys are never compared

Before(criterion, a, b) ==
  IF criterion.reverse THEN Key(b, criterion.key) < Key(a, criterion.key)
                       ELSE Key(a, criterion.key) < Key(b, criterion.key)

\* entries.sort_by: the criteria, then Date; the sort is stable and the
\* entries come in the order of their keys in the map.
Precedes(criteria, fetched, j, k) ==
  LET all == Append(criteria, [key |-> "Date", reverse |-> FALSE])
      Differ(c) == Before(c, fetched[j], fetched[k]) \/ Before(c, fetched[k], fetched[j])
      D == {i \in DOMAIN all : Differ(all[i])}
  IN IF D = {} THEN j < k
     ELSE \E i \in D : (\A l \in D : i <= l) /\ Before(all[i], fetched[j], fetched[k])

\* The entries that have an id to return, in order.
LocalSort(criteria, fetched, uid) ==
  LET Ids(k) == IF uid THEN Carrier(fetched[k], "Uid") ELSE {k}
      kept == {k \in DOMAIN fetched : Ids(k) # {}}
      Place(k) == Cardinality({j \in kept : Precedes(criteria, fetched, j, k)}) + 1
      Entry(i) == CHOOSE k \in kept : Place(k) = i
  IN [i \in 1..Cardinality(kept) |-> CHOOSE id \in Ids(Entry(i)) : TRUE]
=============================================================================
