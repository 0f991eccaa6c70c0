----------------------------- MODULE EventStream ----------------------------
(***************************************************************************)
(* What a mailbox watch stream promises the code that iterates over it     *)
(* (ImapMailboxWatchStream, src/client.rs): the events of the watcher in   *)
(* order, each once, then an error or the end, and a quiet end only to a   *)
(* consumer that asked for it.  Where the events wait in between is not    *)
(* part of the promise.                                                    *)
(***************************************************************************)
EXTENDS Naturals, Sequences

Err == 0   \* the item that stands for Err(ImapClientError); events are 1, 2, ...

VARIABLES
  count,      \* events the watcher has yielded
  queue,      \* items yielded and not yet delivered
  delivered,  \* items the consumer got
  open,       \* the watcher may still yield
  asked       \* the consumer asked for the end

vars == <<count, queue, delivered, open, asked>>

Init == count = 0 /\ queue = <<>> /\ delivered = <<>> /\ open = TRUE /\ asked = FALSE

\* The watcher yields its next event.
Produce ==
  /\ open
  /\ count' = count + 1
  /\ queue' = Append(queue, count + 1)
  /\ UNCHANGED <<delivered, open, asked>>

\* The watch fails: the error is the last item.
Break ==
  /\ open
  /\ open' = FALSE
  /\ queue' = Append(queue, Err)
  /\ UNCHANGED <<count, delivered, asked>>

\* The watch ends without a word.
Finish ==
  /\ open /\ asked
  /\ open' = FALSE
  /\ UNCHANGED <<count, queue, delivered, asked>>

Take ==
  /\ ~asked /\ queue # <<>>
  /\ delivered' = Append(delivered, Head(queue))
  /\ queue' = Tail(queue)
  /\ UNCHANGED <<count, open, asked>>

Ask ==
  /\ ~asked /\ asked' = TRUE
  /\ UNCHANGED <<count, queue, delivered, open>>

Next == Produce \/ Break \/ Finish \/ Take \/ Ask

Spec == Init /\ [][Next]_vars
=============================================================================
