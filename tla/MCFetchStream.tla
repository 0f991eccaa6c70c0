---------------------------- MODULE MCFetchStream ---------------------------
(* Small instances of FetchStream.                                         *)
EXTENDS FetchStream, FiniteSets

\* A body with the end of a line within it, and one that is all of a line end.
TwoBodies == <<<<FALSE, TRUE, FALSE>>, <<TRUE>>>>

\* Room for both; room for the second only.
TwoLimits == {[m \in 1..2 |-> 3], [m \in 1..2 |-> 1]}

\* What is unusual in a plan: at most two of them at once, one when there are
\* two bodies.
Unusual(p) ==
  {f \in {"stale", "named", "stray", "end", "after"} :
     CASE f = "stale" -> p.stale # "none"
       [] f = "named" -> ~p.named
       [] f = "stray" -> p.stray # <<>>
       [] f = "end" -> p.end # Tagged(TRUE, TRUE)
       [] f = "after" -> p.after # <<>>}

FewUnusual ==
  {p \in Plan : /\ Cardinality(Unusual(p)) + Len(p.msgs) <= 3
                /\ Len(p.msgs) = 2 => p.msgs[1] # p.msgs[2]
                /\ p.at <= Len(p.msgs) /\ (p.stray = <<>> => p.at = 0)}
=============================================================================
