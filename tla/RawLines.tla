------------------------------ MODULE RawLines ------------------------------
(***************************************************************************)
(* Lines and literals as ImapRaw sees them (src/rfc3501/raw.rs).  A        *)
(* fragment is [kind, tag]: a "line" ends a message, an "open" one         *)
(* announces the "literal" that follows; `tag` is what its first word      *)
(* reads as when it is taken for a tag, 0 when it is none ("*", "+").      *)
(***************************************************************************)
EXTENDS Naturals, Sequences, FiniteSetsExt

Fragment == [kind : {"line", "open", "literal"}, tag : Nat]
Line(tag) == [kind |-> "line", tag |-> tag]
Open(tag) == [kind |-> "open", tag |-> tag]
Literal(tag) == [kind |-> "literal", tag |-> tag]

\* The fragments that begin a message, and where the last whole one ends.
Begins(f, i) == i = 1 \/ f[i - 1].kind = "line"
Whole(f) == Max({0} \cup {i \in DOMAIN f : f[i].kind = "line"})

\* The tags of the messages that begin from the i-th fragment to the j-th.
Tags(f, i, j) == {f[k].tag : k \in {k \in i..j : Begins(f, k)}}

\* The tags of the messages that are a single line, as a completion is.
Completions(f) == {f[k].tag : k \in {k \in DOMAIN f : Begins(f, k) /\ f[k].kind = "line"}}

\* What is wrong with the input: each message in turn needs a tag of its own.
Refusal(f) ==
  LET heads == {i \in 1..Whole(f) : Begins(f, i)}
      bad == {i \in heads : f[i].tag \in {0} \cup Tags(f, 1, i - 1)}
  IN IF bad # {} THEN IF f[Min(bad)].tag = 0 THEN "MissingTag" ELSE "DuplicateTag"
     ELSE IF Whole(f) < Len(f) THEN "IncompleteCommand"
     ELSE IF heads = {} THEN "NoCommand" ELSE "none"
=============================================================================
