----------------------------- MODULE MCImapSend -----------------------------
(* Small instances of ImapSend.                                            *)
EXTENDS ImapSend

Line == <<"line">>
Command(k, body) == [via |-> "command", of |-> k, body |-> body]
Continue(of, body) == [via |-> "new", of |-> of, body |-> body]
Receive(of, body) == [via |-> "receive", of |-> of, body |-> body]
Literal == <<"line", "sync", "line">>

\* IDLE and its DONE, then a buffered APPEND.
IdleThenAppend == <<Command(1, Line), Continue(1, Line), Command(3, Literal)>>

\* A streamed APPEND (header, then body and CRLF), then a plain command.
StreamThenNoop ==
  <<Receive(1, Line), Receive(1, <<"nonsync", "line">>), Command(3, Line)>>

\* A buffered APPEND alone.
AppendOnly == <<Command(1, Literal)>>
=============================================================================
