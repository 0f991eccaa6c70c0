----------------------------- MODULE WatchStream ----------------------------
(***************************************************************************)
(* The background watcher of the std client (src/client.rs): the worker    *)
(* thread started by ImapClientStd::watch_mailbox drives ImapMailboxWatch  *)
(* and sends its events over a bounded channel to the thread that holds    *)
(* the ImapMailboxWatchStream.                                             *)
(*                                                                         *)
(* The coroutine is seen through its yields (MailboxWatch.tla is its own   *)
(* module).  A WantsTag, and a WantsWrite that succeeds, change nothing    *)
(* here: the worker goes straight back to `resume`.                        *)
(***************************************************************************)
EXTENDS Naturals, Sequences

CONSTANTS
  Capacity,    \* the bound of the channel, 256 in the code
  MaxEvents,   \* bound: events the coroutine yields
  PollSteps    \* shutdown-poll steps in one polling interval

ASSUME CapacityAssumption == Capacity \in Nat \ {0}
ASSUME MaxEventsAssumption == MaxEvents \in Nat
ASSUME PollStepsAssumption == PollSteps \in Nat

Err == 0   \* Err(ImapClientError); the events are 1, 2, ... in yield order

VARIABLES
  worker,     \* where the worker thread is
  hand,       \* the item it is sending, at most one
  produced,   \* events the coroutine has yielded
  left,       \* steps left to sleep
  chan,       \* the channel
  shutdown,   \* the shared AtomicBool
  consumer,   \* "running", "joining" (in close or drop), "closed"
  received,   \* history: what the consumer got
  waits       \* history: read deadlines and sleep steps that ran out with the
              \* flag up

vars == <<worker, hand, produced, left, chan, shutdown, consumer, received, waits>>

TypeOK ==
  /\ worker \in {"resume", "send", "read", "wait", "asleep", "waited", "stopped"}
  /\ hand \in Seq(Nat)
  /\ produced \in Nat
  /\ left \in Nat
  /\ chan \in Seq(Nat) /\ Len(chan) <= Capacity
  /\ shutdown \in BOOLEAN
  /\ consumer \in {"running", "joining", "closed"}
  /\ received \in Seq(Nat)
  /\ waits \in Nat

Init ==
  /\ worker = "resume" /\ hand = <<>> /\ produced = 0 /\ left = 0
  /\ chan = <<>> /\ shutdown = FALSE /\ consumer = "running" /\ received = <<>>
  /\ waits = 0

-----------------------------------------------------------------------------
(* The worker thread.                                                      *)

\* A failure is sent as the last item.
SendError ==
  /\ worker' = "send"
  /\ hand' = <<Err>>
  /\ UNCHANGED <<produced, left, chan, shutdown, consumer, received, waits>>

ResumeEvent ==
  /\ worker = "resume" /\ produced < MaxEvents
  /\ produced' = produced + 1
  /\ hand' = <<produced + 1>>
  /\ worker' = "send"
  /\ UNCHANGED <<left, chan, shutdown, consumer, received, waits>>

\* Complete(Ok): the coroutine ends only once it saw the flag.
ResumeDone ==
  /\ worker \in {"resume", "waited"} /\ shutdown
  /\ worker' = "stopped"
  /\ UNCHANGED <<hand, produced, left, chan, shutdown, consumer, received, waits>>

\* Complete(Err), or the write of a WantsWrite failing.
ResumeError == worker = "resume" /\ SendError

ResumeRead ==
  /\ worker = "resume"
  /\ worker' = "read"
  /\ UNCHANGED <<hand, produced, left, chan, shutdown, consumer, received, waits>>

ResumeWait ==
  /\ worker = "resume"
  /\ worker' = "wait"
  /\ left' = PollSteps
  /\ UNCHANGED <<hand, produced, chan, shutdown, consumer, received, waits>>

HasRoomOffByOne == Len(chan) <= Capacity   \* mutant: the bound is off by one
HasRoom == Len(chan) < Capacity

AfterSendGoesOn == "resume"         \* mutant: the worker goes on after an error
AfterSend == IF hand = <<Err>> THEN "stopped" ELSE "resume"

SendOrDrop ==                       \* mutant: try_send, a full channel drops the event
  /\ worker = "send" /\ consumer # "closed"
  /\ chan' = IF HasRoom THEN chan \o hand ELSE chan
  /\ hand' = <<>>
  /\ worker' = AfterSend
  /\ UNCHANGED <<produced, left, shutdown, consumer, received, waits>>

\* tx.send blocks while the channel is full.  It can fail only without a
\* receiver, and the receiver is dropped after the worker is joined.
Send ==
  /\ worker = "send" /\ consumer # "closed"
  /\ HasRoom
  /\ chan' = chan \o hand
  /\ hand' = <<>>
  /\ worker' = AfterSend
  /\ UNCHANGED <<produced, left, shutdown, consumer, received, waits>>

ReadBytes ==
  /\ worker = "read"
  /\ worker' = "resume"
  /\ UNCHANGED <<hand, produced, left, chan, shutdown, consumer, received, waits>>

\* A read deadline or a sleep step, of shutdown_poll each, runs out.
RunOut == waits' = IF shutdown THEN waits + 1 ELSE waits

AfterTimeoutStops == "stopped"      \* mutant: a quiet server ends the watch
AfterTimeout == IF shutdown THEN "stopped" ELSE "resume"

\* WouldBlock or TimedOut: the read deadline, armed at shutdown_poll.
ReadTimeout ==
  /\ worker = "read"
  /\ worker' = AfterTimeout
  /\ RunOut
  /\ UNCHANGED <<hand, produced, left, chan, shutdown, consumer, received>>

ReadErrorQuiet ==                   \* mutant: the error is not sent
  /\ worker = "read"
  /\ worker' = "stopped"
  /\ UNCHANGED <<hand, produced, left, chan, shutdown, consumer, received, waits>>

\* An empty read, or any other failure.
ReadError == worker = "read" /\ SendError

SleepUnchecked ==                   \* mutant: the flag is not looked at again
  /\ worker = "wait" /\ left > 0
  /\ worker' = "asleep"
  /\ UNCHANGED <<hand, produced, left, chan, shutdown, consumer, received, waits>>

\* The flag is looked at before each step of the sleep.
Sleep ==
  /\ worker = "wait" /\ left > 0 /\ ~shutdown
  /\ worker' = "asleep"
  /\ UNCHANGED <<hand, produced, left, chan, shutdown, consumer, received, waits>>

Wake ==
  /\ worker = "asleep"
  /\ worker' = "wait"
  /\ left' = left - 1
  /\ RunOut
  /\ UNCHANGED <<hand, produced, chan, shutdown, consumer, received>>

SleepEnd ==
  /\ worker = "wait"
  /\ \/ left > 0 /\ shutdown /\ worker' = "stopped"
     \/ left = 0 /\ worker' = "waited"
  /\ UNCHANGED <<hand, produced, left, chan, shutdown, consumer, received, waits>>

\* The resume after a wait begins with a look at the flag: without it the
\* coroutine goes on to the resync.
GoOn ==
  /\ worker = "waited" /\ ~shutdown
  /\ worker' = "resume"
  /\ UNCHANGED <<hand, produced, left, chan, shutdown, consumer, received, waits>>

-----------------------------------------------------------------------------
(* The thread that holds the stream.                                       *)

\* next, try_recv or recv_timeout finding an item.
Recv ==
  /\ consumer = "running" /\ chan # <<>>
  /\ received' = Append(received, Head(chan))
  /\ chan' = Tail(chan)
  /\ UNCHANGED <<worker, hand, produced, left, shutdown, consumer, waits>>

CloseUnflagged ==                   \* mutant: the flag is forgotten
  /\ consumer = "running"
  /\ consumer' = "joining"
  /\ UNCHANGED <<worker, hand, produced, left, chan, shutdown, received, waits>>

\* close, or drop: the flag, then the join.
Close ==
  /\ consumer = "running"
  /\ shutdown' = TRUE
  /\ consumer' = "joining"
  /\ UNCHANGED <<worker, hand, produced, left, chan, received, waits>>

\* The join returns, and the receiver is dropped.
Join ==
  /\ consumer = "joining" /\ worker = "stopped"
  /\ consumer' = "closed"
  /\ UNCHANGED <<worker, hand, produced, left, chan, shutdown, received, waits>>

-----------------------------------------------------------------------------
Worker ==
  \/ ResumeEvent \/ ResumeDone \/ ResumeError \/ ResumeRead \/ ResumeWait
  \/ Send \/ ReadBytes \/ ReadTimeout \/ ReadError \/ Sleep \/ Wake \/ SleepEnd \/ GoOn
Next == Worker \/ Recv \/ Close \/ Join

Spec == Init /\ [][Next]_vars

\* The worker thread runs; once the flag is up the coroutine completes after
\* finitely many resumes; the joining thread and an iterating consumer run.
FairSpec ==
  /\ Spec
  /\ WF_vars(Worker) /\ SF_vars(ResumeDone) /\ WF_vars(Recv) /\ WF_vars(Join)

-----------------------------------------------------------------------------
\* All the items of the watch, from the oldest delivered to the one in hand.
Items == received \o chan \o hand

(* Nothing the coroutine yields is lost, repeated or reordered between the *)
(* worker and the consumer: the items are the events in order, with at     *)
(* most one error after them (client.rs:891-896, 1239-1245).               *)
DeliveredInOrder ==
  /\ Len(Items) \in {produced, produced + 1}
  /\ \A i \in 1..produced : Items[i] = i
  /\ Len(Items) = produced + 1 => Items[produced + 1] = Err

(* The worker never stops behind the consumer's back: unless the consumer  *)
(* closed the stream, the last item of a stopped watch is an error         *)
(* (client.rs:897, 907, 924-926, 930, 937, 950-952, 962).                  *)
NoSilentStop ==
  worker = "stopped" /\ ~shutdown => Items # <<>> /\ Items[Len(Items)] = Err

(* Winding down takes no more than shutdown_poll of waiting: once the flag *)
(* is up at most one read deadline or sleep step runs out, the one under   *)
(* way, whatever is left of the polling interval and although the flag is  *)
(* looked at by the worker and by the coroutine (client.rs:860-863,        *)
(* 918-928, 946-960; watch.rs:640-643).                                    *)
ClosesWithinPoll == waits <= 1

(* Whatever the worker does, the consumer sees an EventStream.             *)
ES == INSTANCE EventStream WITH
        count <- produced, queue <- chan \o hand, delivered <- received,
        open <- worker # "stopped" /\ hand # <<Err>>, asked <- shutdown
Implements == ES!Spec

(* An event reaches a consumer that keeps iterating (client.rs:1242-1244). *)
EventsReachConsumer ==
  \A n \in 1..MaxEvents :
    (produced >= n) ~> (Len(received) >= n \/ consumer # "running")

(* close and drop return (client.rs:860, 1176-1178, 1206).                 *)
CloseReturns == (consumer = "joining") ~> (consumer = "closed")

(* They do when the channel has room: nothing but a send to a full channel *)
(* holds the worker back, neither a quiet server nor a polling interval    *)
(* (client.rs:893, 918-928, 946-960).                                      *)
CloseReturnsWithRoom ==
  (consumer = "joining") ~> (consumer = "closed" \/ (worker = "send" /\ Len(chan) = Capacity))
=============================================================================
