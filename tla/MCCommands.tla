----------------------------- MODULE MCCommands -----------------------------
(* Small instances of Commands.                                            *)
EXTENDS Commands

\* A character outside ASCII, and the ASCII name that is its wire form.
TwoNames == {<<"u">>, <<"amp", "b", "dash">>}
NoneOrOne == {{}, {<<"u">>}}
StrayNames == {<<"amp", "x", "dash">>}

\* Message 3 has no Date; 1 and 2 have the same size.
Messages ==
  [m \in 1..4 |-> [Arrival |-> m, Size |-> IF m = 2 THEN 1 ELSE m,
                   Date |-> <<2, 1, 0, 3>>[m], Subject |-> <<1, 2, 1, 2>>[m], From |-> 0]]

\* A batch of two, the first with a literal that reads like the second, and one
\* batch for every refusal.
RawInputs ==
  {<<Open(1), Literal(2), Line(0), Line(2)>>, <<Line(1), Line(1)>>, <<Line(0)>>,
   <<Line(1), Open(2), Literal(0)>>, <<>>}
\* A literal that reads like a completion, and the line after it like another.
RawReplies == {<<Open(0), Literal(1), Line(2)>>}

By(key, reverse) == [key |-> key, reverse |-> reverse]
SortBy == {<<By("Size", FALSE), By("Date", TRUE)>>, <<By("From", FALSE)>>, <<By("Arrival", TRUE)>>}
SomeIds == {{1}, {1, 2}}
=============================================================================
