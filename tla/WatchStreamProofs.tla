-------------------------- MODULE WatchStreamProofs -------------------------
(***************************************************************************)
(* Proofs about WatchStream, for every channel capacity, every number of   *)
(* events and every polling interval.                                      *)
(***************************************************************************)
EXTENDS WatchStream, SequenceTheorems, TLAPS

\* What the worker holds, by where it is: an item only while it sends.
HandInv ==
  /\ worker = "send" => \/ hand = <<Err>>
                        \/ produced > 0 /\ hand = <<produced>>
  /\ worker # "send" => hand = <<>>

\* The flag is up from the moment the consumer starts to close.
JoinInv ==
  /\ consumer # "running" <=> shutdown
  /\ consumer = "closed" => worker = "stopped"

\* A step of the sleep has something left to sleep.  A wait runs out with the
\* flag up at most once: the look at the flag that follows, the worker's after
\* a deadline or a step, the coroutine's after the last step, is the end.
SleepInv ==
  /\ worker = "asleep" => left > 0
  /\ \/ waits = 0
     \/ waits = 1 /\ shutdown /\ worker \in {"wait", "waited", "stopped"}

\* The log of all items: the events so far, then the error once there is one.
\* It is whole whenever the worker can still yield, and a worker stopped of
\* its own accord has logged an error.
LogInv ==
  /\ \A i \in 1..produced : Items[i] = i
  /\ Len(Items) = produced \/ (Len(Items) = produced + 1 /\ Items[produced + 1] = Err)
  /\ worker # "stopped" /\ hand # <<Err>> => Len(Items) = produced
  /\ hand = <<Err>> => Len(Items) = produced + 1
  /\ worker = "stopped" /\ ~shutdown => Len(Items) = produced + 1

-----------------------------------------------------------------------------
(* Type correctness, together with what the worker's hand needs to keep    *)
(* the channel within its capacity (client.rs:883, 889-966).               *)
BaseInv == TypeOK /\ HandInv /\ JoinInv /\ SleepInv

\* The empty sequence.
LEMMA EmptyFacts == <<>> \in Seq(Nat) /\ Len(<<>>) = 0
  OBVIOUS

\* The library's facts about sequences, for items.
LEMMA ConcatItems ==
  ASSUME NEW s \in Seq(Nat), NEW t \in Seq(Nat)
  PROVE  /\ s \o t \in Seq(Nat)
         /\ Len(s \o t) = Len(s) + Len(t)
         /\ s \o <<>> = s
         /\ \A u \in Seq(Nat) : (s \o t) \o u = s \o (t \o u)
  BY ConcatProperties, ConcatEmptySeq, ConcatAssociative

LEMMA HeadTailItems ==
  ASSUME NEW s \in Seq(Nat), s # <<>>
  PROVE  /\ Head(s) \in Nat /\ Tail(s) \in Seq(Nat)
         /\ Len(Tail(s)) = Len(s) - 1
         /\ <<Head(s)>> \o Tail(s) = s
  BY HeadTailProperties

LEMMA AppendItems ==
  ASSUME NEW s \in Seq(Nat), NEW n \in Nat
  PROVE  /\ Append(s, n) \in Seq(Nat) /\ <<n>> \in Seq(Nat)
         /\ Len(Append(s, n)) = Len(s) + 1
         /\ \A i \in 1..Len(s) : Append(s, n)[i] = s[i]
         /\ Append(s, n)[Len(s) + 1] = n
         /\ Append(s, n) = s \o <<n>>
  BY AppendProperties, AppendIsConcat

\* Initially the worker holds nothing and nobody closes.
LEMMA BaseInit == Init => BaseInv
<1> SUFFICES ASSUME Init PROVE BaseInv
  OBVIOUS
<1>1. TypeOK
  <2>1. hand \in Seq(Nat) /\ chan \in Seq(Nat) /\ received \in Seq(Nat) /\ Len(chan) = 0
    BY EmptyFacts DEF Init
  <2>2. 0 <= Capacity
    BY CapacityAssumption
  <2> QED
    BY <2>1, <2>2 DEF Init, TypeOK
<1>2. HandInv /\ JoinInv /\ SleepInv
  BY DEF Init, HandInv, JoinInv, SleepInv
<1> QED
  BY <1>1, <1>2 DEF BaseInv

\* Sending moves the one item in hand to a channel with room for it.
LEMMA SendRoom ==
  ASSUME BaseInv, Send
  PROVE  /\ chan' \in Seq(Nat) /\ Len(chan') <= Capacity
         /\ hand' = <<>> /\ worker' \in {"stopped", "resume"}
<1>1. hand \in Seq(Nat) /\ Len(hand) = 1
  BY DEF BaseInv, TypeOK, HandInv, Send, Err
<1>2. chan \in Seq(Nat) /\ Len(chan) < Capacity /\ chan' = chan \o hand
  BY DEF BaseInv, TypeOK, Send, HasRoom
<1>3. chan' \in Seq(Nat) /\ Len(chan') = Len(chan) + 1
  BY <1>1, <1>2, ConcatItems
<1> QED
  BY <1>2, <1>3, CapacityAssumption DEF Send, AfterSend, BaseInv, TypeOK

\* Every step keeps the types, the hand and the join in order.
LEMMA BaseStep == BaseInv /\ [Next]_vars => BaseInv'
<1> SUFFICES ASSUME BaseInv, [Next]_vars PROVE BaseInv'
  OBVIOUS
<1> USE DEF BaseInv, TypeOK, HandInv, JoinInv, SleepInv
<1>1. CASE ResumeEvent
  BY <1>1 DEF ResumeEvent
<1>2. CASE ResumeDone
  BY <1>2 DEF ResumeDone
<1>3. CASE ResumeError
  BY <1>3 DEF ResumeError, SendError, Err
<1>4. CASE ResumeRead
  BY <1>4 DEF ResumeRead
<1>5. CASE ResumeWait
  BY <1>5, PollStepsAssumption DEF ResumeWait
<1>6. CASE Send
  BY <1>6, SendRoom, EmptyFacts DEF Send
<1>7. CASE ReadBytes
  BY <1>7 DEF ReadBytes
<1>8. CASE ReadTimeout
  BY <1>8 DEF ReadTimeout, AfterTimeout, RunOut
<1>9. CASE ReadError
  BY <1>9 DEF ReadError, SendError, Err
<1>10. CASE Sleep \/ GoOn
  BY <1>10 DEF Sleep, GoOn
<1>16. CASE Wake
  BY <1>16 DEF Wake, RunOut
<1>11. CASE SleepEnd
  BY <1>11 DEF SleepEnd
<1>12. CASE Recv
  <2>1. chan \in Seq(Nat) /\ chan # <<>> /\ received \in Seq(Nat)
    BY <1>12 DEF Recv
  <2>2. chan' \in Seq(Nat) /\ Len(chan') = Len(chan) - 1 /\ Len(chan) \in Nat
    BY <1>12, <2>1, HeadTailItems, LenProperties DEF Recv
  <2>3. received' \in Seq(Nat)
    BY <1>12, <2>1, HeadTailItems, AppendItems DEF Recv
  <2> QED
    BY <1>12, <2>2, <2>3, CapacityAssumption DEF Recv
<1>13. CASE Close
  BY <1>13 DEF Close
<1>14. CASE Join
  BY <1>14 DEF Join
<1>15. CASE UNCHANGED vars
  BY <1>15 DEF vars
<1> QED
  BY <1>1, <1>2, <1>3, <1>4, <1>5, <1>6, <1>7, <1>8, <1>9, <1>10, <1>11, <1>12,
     <1>13, <1>14, <1>15, <1>16 DEF Next, Worker

(* The invariant of types holds in every reachable state.                  *)
THEOREM BaseCorrect == Spec => []BaseInv
  BY BaseInit, BaseStep, PTL DEF Spec

(* Type correctness: in particular the channel never holds more than its   *)
(* capacity (client.rs:883).                                               *)
THEOREM TypeCorrect == Spec => []TypeOK
<1>1. BaseInv => TypeOK
  BY DEF BaseInv
<1> QED
  BY BaseCorrect, <1>1, PTL

(* Closing waits out at most one read deadline or one step of the sleep,   *)
(* whatever the polling interval and wherever the flag finds the worker    *)
(* (client.rs:918-928, 946-960; watch.rs:640-643).                         *)
THEOREM ClosesInTime == Spec => []ClosesWithinPoll
<1>1. BaseInv => ClosesWithinPoll
  BY DEF BaseInv, SleepInv, ClosesWithinPoll
<1> QED
  BY BaseCorrect, <1>1, PTL

-----------------------------------------------------------------------------
(* The log of items.                                                       *)

\* Only a yield and a failure add an item; every other step moves the items
\* between the hand, the channel and the consumer without touching the log.
LEMMA ItemsStep ==
  ASSUME BaseInv, [Next]_vars
  PROVE  /\ Items \in Seq(Nat)
         /\ \/ ResumeEvent /\ Items' = Append(Items, produced + 1)
            \/ (ResumeError \/ ReadError) /\ Items' = Append(Items, Err)
            \/ /\ ~ResumeEvent /\ ~ResumeError /\ ~ReadError
               /\ produced' = produced
               /\ Items' = Items
<1>0. hand \in Seq(Nat) /\ chan \in Seq(Nat) /\ received \in Seq(Nat) /\ produced \in Nat
  BY DEF BaseInv, TypeOK
<1>1. Items \in Seq(Nat) /\ received \o chan \in Seq(Nat)
  BY <1>0, ConcatItems DEF Items
<1>2. CASE ResumeEvent
  <2>1. hand = <<>> /\ hand' = <<produced + 1>> /\ UNCHANGED <<chan, received>>
    BY <1>2 DEF ResumeEvent, BaseInv, HandInv
  <2>2. Items = received \o chan
    BY <2>1, <1>0, <1>1, ConcatItems DEF Items
  <2>3. Items' = Items \o <<produced + 1>>
    BY <2>1, <2>2 DEF Items
  <2> QED
    BY <1>0, <1>1, <1>2, <2>3, AppendItems
<1>3. CASE ResumeError \/ ReadError
  <2>1. hand = <<>> /\ hand' = <<Err>> /\ UNCHANGED <<chan, received>>
    BY <1>3 DEF ResumeError, ReadError, SendError, BaseInv, HandInv
  <2>2. Items = received \o chan
    BY <2>1, <1>0, <1>1, ConcatItems DEF Items
  <2>3. Items' = Items \o <<Err>>
    BY <2>1, <2>2 DEF Items
  <2>4. Err \in Nat
    BY DEF Err
  <2> QED
    BY <1>1, <1>3, <2>3, <2>4, AppendItems
<1>4. CASE Send
  <2>1. /\ received' = received /\ chan' = chan \o hand /\ hand' = <<>>
        /\ produced' = produced
    BY <1>4 DEF Send, AfterSend
  <2>2. Items' = (received \o (chan \o hand)) \o <<>>
    BY <2>1 DEF Items
  <2>3. (received \o chan) \o hand = received \o (chan \o hand)
    <3>1. \A u \in Seq(Nat) : (received \o chan) \o u = received \o (chan \o u)
      BY <1>0, ConcatItems
    <3> QED
      BY <1>0, <3>1
  <2>4. Items' = Items \o <<>>
    BY <2>2, <2>3 DEF Items
  <2>5. Items' = Items
    BY <1>1, <2>4, ConcatItems
  <2> QED
    BY <1>1, <1>4, <2>1, <2>5 DEF Send, ResumeEvent, ResumeError, ReadError
<1>5. CASE Recv
  <2>1. /\ chan # <<>> /\ received' = Append(received, Head(chan))
        /\ chan' = Tail(chan) /\ UNCHANGED <<hand, produced, worker>>
    BY <1>5 DEF Recv
  <2>2. /\ Head(chan) \in Nat /\ Tail(chan) \in Seq(Nat)
        /\ <<Head(chan)>> \o Tail(chan) = chan
    BY <1>0, <2>1, HeadTailItems
  <2>3. received' = received \o <<Head(chan)>> /\ <<Head(chan)>> \in Seq(Nat)
    BY <1>0, <2>1, <2>2, AppendItems
  <2>4. received' \o chan' = received \o chan
    <3>1. \A u \in Seq(Nat) :
            (received \o <<Head(chan)>>) \o u = received \o (<<Head(chan)>> \o u)
      BY <1>0, <2>3, ConcatItems
    <3>2. received' \o chan' = received \o (<<Head(chan)>> \o Tail(chan))
      BY <2>1, <2>2, <2>3, <3>1
    <3> QED
      BY <2>2, <3>2
  <2>5. Items' = Items
    BY <2>1, <2>4 DEF Items
  <2>6. ~ResumeEvent /\ ~ResumeError /\ ~ReadError
    BY <1>5, <2>1 DEF Recv, ResumeEvent, ResumeError, ReadError, SendError
  <2> QED
    BY <1>1, <2>1, <2>5, <2>6
<1>6. CASE ~(ResumeEvent \/ ResumeError \/ ReadError \/ Send \/ Recv)
  <2>1. UNCHANGED <<received, chan, hand, produced>>
    BY <1>6 DEF Next, Worker, vars, ResumeDone, ResumeRead, ResumeWait, ReadBytes,
                ReadTimeout, Sleep, Wake, SleepEnd, GoOn, Close, Join
  <2> QED
    BY <1>1, <1>6, <2>1 DEF Items
<1> QED
  BY <1>2, <1>3, <1>4, <1>5, <1>6

(* The inductive invariant of the log.  DeliveredInOrder alone says nothing *)
(* of how long the log is when the worker can still yield, so a next event  *)
(* could land behind an error; LogInv says where the error can be.          *)
LogOk == BaseInv /\ LogInv

LEMMA LogInit == Init => LogInv
<1> SUFFICES ASSUME Init PROVE LogInv
  OBVIOUS
<1>1. <<>> \o <<>> = <<>>
  BY EmptyFacts, ConcatItems
<1>2. Items = <<>>
  BY <1>1 DEF Init, Items
<1>3. hand # <<Err>> /\ worker # "stopped" /\ produced = 0
  BY DEF Init
<1> QED
  BY <1>2, <1>3, EmptyFacts DEF LogInv

LEMMA LogStep == LogOk /\ [Next]_vars => LogInv'
<1> SUFFICES ASSUME LogOk, [Next]_vars PROVE LogInv'
  OBVIOUS
<1>0. /\ hand \in Seq(Nat) /\ produced \in Nat /\ Err \in Nat /\ Err = 0
      /\ <<Err>> # <<>>
  BY DEF LogOk, BaseInv, TypeOK, Err
<1>1. Items \in Seq(Nat) /\ BaseInv
  BY ItemsStep DEF LogOk
<1>2. CASE ResumeEvent /\ Items' = Append(Items, produced + 1)
  <2>1. /\ worker = "resume" /\ worker' = "send" /\ produced' = produced + 1
        /\ hand = <<>> /\ hand' = <<produced + 1>>
    BY <1>1, <1>2 DEF ResumeEvent, BaseInv, HandInv
  <2>2. Len(Items) = produced /\ \A i \in 1..produced : Items[i] = i
    BY <1>0, <2>1 DEF LogOk, LogInv
  <2>3. /\ Len(Items') = produced'
        /\ \A i \in 1..Len(Items) : Items'[i] = Items[i]
        /\ Items'[Len(Items) + 1] = produced + 1
    BY <1>0, <1>1, <1>2, <2>1, <2>2, AppendItems
  <2>4. \A i \in 1..produced' : Items'[i] = i
    BY <1>0, <2>1, <2>2, <2>3
  <2>5. hand' # <<Err>>
    BY <1>0, <2>1
  <2> QED
    BY <2>1, <2>3, <2>4, <2>5 DEF LogInv
<1>3. CASE (ResumeError \/ ReadError) /\ Items' = Append(Items, Err)
  <2>1. /\ worker # "stopped" /\ worker' = "send" /\ produced' = produced
        /\ hand = <<>> /\ hand' = <<Err>>
    BY <1>1, <1>3 DEF ResumeError, ReadError, SendError, BaseInv, HandInv
  <2>2. Len(Items) = produced /\ \A i \in 1..produced : Items[i] = i
    BY <1>0, <2>1 DEF LogOk, LogInv
  <2>3. /\ Len(Items') = produced + 1
        /\ \A i \in 1..Len(Items) : Items'[i] = Items[i]
        /\ Items'[Len(Items) + 1] = Err
    BY <1>0, <1>1, <1>3, <2>2, AppendItems
  <2>4. \A i \in 1..produced' : Items'[i] = i
    BY <1>0, <2>1, <2>2, <2>3
  <2> QED
    BY <2>1, <2>2, <2>3, <2>4 DEF LogInv
<1>4. CASE /\ ~ResumeEvent /\ ~ResumeError /\ ~ReadError
           /\ produced' = produced /\ Items' = Items
  <2>1. /\ \A i \in 1..produced' : Items'[i] = i
        /\ \/ Len(Items') = produced'
           \/ Len(Items') = produced' + 1 /\ Items'[produced' + 1] = Err
    BY <1>4 DEF LogOk, LogInv
  <2>2. /\ worker' # "stopped" /\ hand' # <<Err>> => Len(Items') = produced'
        /\ hand' = <<Err>> => Len(Items') = produced' + 1
        /\ worker' = "stopped" /\ ~shutdown' => Len(Items') = produced' + 1
    <3> USE <1>0, <1>1, <1>4 DEF LogOk, LogInv
    <3>1. CASE Send
      <4>1. hand' = <<>> /\ hand' # <<Err>> /\ UNCHANGED shutdown
        BY <3>1 DEF Send, AfterSend
      <4>2. worker = "send" /\ worker' = IF hand = <<Err>> THEN "stopped" ELSE "resume"
        BY <3>1 DEF Send, AfterSend
      <4> QED
        BY <4>1, <4>2
    <3>2. CASE Recv
      BY <3>2 DEF Recv
    <3>3. CASE ResumeDone \/ ResumeRead \/ ResumeWait \/ ReadBytes \/ ReadTimeout
               \/ Sleep \/ Wake \/ SleepEnd \/ GoOn
      BY <3>3 DEF ResumeDone, ResumeRead, ResumeWait, ReadBytes, ReadTimeout,
                  AfterTimeout, Sleep, Wake, SleepEnd, GoOn
    <3>4. CASE Close \/ Join \/ UNCHANGED vars
      BY <3>4 DEF Close, Join, vars
    <3> QED
      BY <3>1, <3>2, <3>3, <3>4 DEF Next, Worker
  <2> QED
    BY <2>1, <2>2 DEF LogInv
<1> QED
  BY <1>1, <1>2, <1>3, <1>4, ItemsStep

(* The log is well formed in every reachable state.                        *)
THEOREM LogCorrect == Spec => []LogOk
<1>1. Init => LogOk
  BY BaseInit, LogInit DEF LogOk
<1>2. LogOk /\ [Next]_vars => LogOk'
  BY BaseStep, LogStep DEF LogOk
<1> QED
  BY <1>1, <1>2, PTL DEF Spec

(* Events reach the consumer in order, none lost and none twice, with at   *)
(* most one error, after all of them (client.rs:891-896, 1239-1245).       *)
THEOREM InOrder == Spec => []DeliveredInOrder
<1>1. LogOk => DeliveredInOrder
  BY DEF LogOk, LogInv, DeliveredInOrder
<1> QED
  BY LogCorrect, <1>1, PTL

(* A worker that stopped without being asked to left an error behind the   *)
(* last event (client.rs:904-932, 961-964).                                *)
THEOREM NotSilent == Spec => []NoSilentStop
<1>1. LogOk => NoSilentStop
  <2> SUFFICES ASSUME LogOk, worker = "stopped", ~shutdown
               PROVE  Items # <<>> /\ Items[Len(Items)] = Err
    BY DEF NoSilentStop
  <2>1. produced \in Nat /\ Len(Items) = produced + 1 /\ Items[produced + 1] = Err
    BY DEF LogOk, LogInv, BaseInv, TypeOK
  <2>2. Items # <<>>
    BY <2>1, EmptyFacts
  <2> QED
    BY <2>1, <2>2
<1> QED
  BY LogCorrect, <1>1, PTL

-----------------------------------------------------------------------------
(* The stream implements its promise: each step of the worker, the channel *)
(* and the consumer is a step of EventStream, or invisible to it.          *)

\* Taking the head of a sequence leaves what was concatenated behind it.
LEMMA TakeHead ==
  ASSUME NEW s \in Seq(Nat), NEW t \in Seq(Nat), s # <<>>
  PROVE  /\ s \o t # <<>>
         /\ Head(s \o t) = Head(s)
         /\ Tail(s \o t) = Tail(s) \o t
<1>1. s \o t \in Seq(Nat) /\ Len(s \o t) = Len(s) + Len(t)
  BY ConcatItems
<1>2. Len(s) \in Nat \ {0} /\ Len(t) \in Nat
  BY EmptySeq
<1>3. s \o t # <<>> /\ Len(s \o t) > 0
  BY <1>1, <1>2, EmptyFacts
<1>4. Head(s \o t) = Head(s)
  BY <1>1, <1>2, <1>3, ConcatProperties
<1>5. Tail(s) \in Seq(Nat) /\ Len(Tail(s)) = Len(s) - 1
      /\ \A i \in 1..Len(Tail(s)) : Tail(s)[i] = s[i + 1]
  BY HeadTailProperties
<1>6. Tail(s \o t) \in Seq(Nat) /\ Len(Tail(s \o t)) = Len(s \o t) - 1
      /\ \A i \in 1..Len(Tail(s \o t)) : Tail(s \o t)[i] = (s \o t)[i + 1]
  BY <1>1, <1>3, HeadTailProperties
<1>7. Tail(s) \o t \in Seq(Nat) /\ Len(Tail(s) \o t) = Len(Tail(s)) + Len(t)
  BY <1>5, ConcatItems
<1>8. \A i \in 1..Len(Tail(s \o t)) : Tail(s \o t)[i] = (Tail(s) \o t)[i]
  <2> SUFFICES ASSUME NEW i \in 1..Len(Tail(s \o t))
               PROVE  Tail(s \o t)[i] = (Tail(s) \o t)[i]
    OBVIOUS
  <2>1. i \in 1..(Len(Tail(s)) + Len(t)) /\ i + 1 \in 1..(Len(s) + Len(t))
    BY <1>1, <1>2, <1>5, <1>6
  <2>2. (s \o t)[i + 1] = IF i + 1 <= Len(s) THEN s[i + 1] ELSE t[(i + 1) - Len(s)]
    BY <2>1, ConcatProperties
  <2>3. (Tail(s) \o t)[i] = IF i <= Len(Tail(s)) THEN Tail(s)[i] ELSE t[i - Len(Tail(s))]
    BY <1>5, <2>1, ConcatProperties
  <2> QED
    BY <1>2, <1>5, <1>6, <2>1, <2>2, <2>3
<1>9. Len(Tail(s \o t)) = Len(Tail(s) \o t)
  BY <1>1, <1>2, <1>5, <1>6, <1>7
<1>10. Tail(s \o t) = Tail(s) \o t
  BY <1>6, <1>7, <1>8, <1>9, SeqEqual
<1> QED
  BY <1>3, <1>4, <1>10

LEMMA ImplementsInit == Init => ES!Init
<1> SUFFICES ASSUME Init PROVE ES!Init
  OBVIOUS
<1>1. <<>> \o <<>> = <<>>
  BY EmptyFacts, ConcatItems
<1>2. chan \o hand = <<>> /\ worker # "stopped" /\ hand # <<Err>>
  BY <1>1 DEF Init
<1> QED
  BY <1>2 DEF Init, ES!Init

LEMMA ImplementsStep == BaseInv /\ [Next]_vars => [ES!Next]_(ES!vars)
<1> SUFFICES ASSUME BaseInv, [Next]_vars PROVE ES!Next \/ UNCHANGED ES!vars
  OBVIOUS
<1>0. /\ hand \in Seq(Nat) /\ chan \in Seq(Nat) /\ received \in Seq(Nat)
      /\ produced \in Nat /\ Err = 0 /\ ES!Err = 0 /\ <<Err>> # <<>>
  BY DEF BaseInv, TypeOK, Err, ES!Err
<1>1. worker # "send" => chan \o hand = chan
  BY <1>0, ConcatItems DEF BaseInv, HandInv
<1>2. CASE ResumeEvent
  <2>1. /\ worker # "stopped" /\ hand = <<>> /\ worker' = "send"
        /\ hand' = <<produced + 1>> /\ produced' = produced + 1
        /\ UNCHANGED <<chan, received, shutdown>>
    BY <1>2 DEF ResumeEvent, BaseInv, HandInv
  <2>2. (chan \o hand)' = Append(chan \o hand, produced + 1)
    BY <1>0, <1>1, <1>2, <2>1, AppendItems DEF ResumeEvent
  <2>3. hand # <<Err>> /\ hand' # <<Err>>
    BY <1>0, <2>1
  <2> QED
    BY <2>1, <2>2, <2>3 DEF ES!Next, ES!Produce
<1>3. CASE ResumeError \/ ReadError
  <2>1. /\ worker \notin {"stopped", "send"} /\ hand = <<>> /\ hand' = <<Err>>
        /\ UNCHANGED <<produced, chan, received, shutdown>>
    BY <1>3 DEF ResumeError, ReadError, SendError, BaseInv, HandInv
  <2>2. (chan \o hand)' = Append(chan \o hand, ES!Err)
    BY <1>0, <1>1, <2>1, AppendItems
  <2> QED
    BY <1>0, <2>1, <2>2 DEF ES!Next, ES!Break
<1>4. CASE Send
  <2>1. /\ worker = "send" /\ chan' = chan \o hand /\ hand' = <<>>
        /\ worker' = IF hand = <<Err>> THEN "stopped" ELSE "resume"
        /\ UNCHANGED <<produced, received, shutdown>>
    BY <1>4 DEF Send, AfterSend
  <2>2. (chan \o hand)' = chan \o hand
    <3>1. chan \o hand \in Seq(Nat)
      BY <1>0, ConcatItems
    <3> QED
      BY <2>1, <3>1, ConcatItems
  <2> QED
    BY <1>0, <2>1, <2>2 DEF ES!vars
<1>5. CASE Recv
  <2>1. /\ chan # <<>> /\ received' = Append(received, Head(chan)) /\ chan' = Tail(chan)
        /\ ~shutdown /\ UNCHANGED <<worker, hand, produced, shutdown>>
    BY <1>5 DEF Recv, BaseInv, JoinInv
  <2>2. /\ chan \o hand # <<>> /\ Head(chan \o hand) = Head(chan)
        /\ Tail(chan \o hand) = Tail(chan) \o hand
    BY <1>0, <2>1, TakeHead
  <2> QED
    BY <2>1, <2>2 DEF ES!Next, ES!Take
<1>6. CASE ResumeDone \/ ReadTimeout \/ SleepEnd
  <2>1. /\ worker # "stopped" /\ hand # <<Err>>
        /\ worker' # "stopped" \/ shutdown
        /\ UNCHANGED <<hand, chan, produced, received, shutdown>>
    BY <1>0, <1>6 DEF ResumeDone, ReadTimeout, AfterTimeout, SleepEnd, BaseInv, HandInv
  <2> QED
    BY <2>1 DEF ES!Next, ES!Finish, ES!vars
<1>7. CASE ResumeRead \/ ResumeWait \/ ReadBytes \/ Sleep \/ Wake \/ GoOn
  <2>1. /\ worker # "stopped" /\ worker' # "stopped"
        /\ UNCHANGED <<hand, chan, produced, received, shutdown>>
    BY <1>7 DEF ResumeRead, ResumeWait, ReadBytes, Sleep, Wake, GoOn
  <2> QED
    BY <2>1 DEF ES!vars
<1>8. CASE Close
  <2>1. /\ ~shutdown /\ shutdown' = TRUE
        /\ UNCHANGED <<worker, hand, chan, produced, received>>
    BY <1>8 DEF Close, BaseInv, JoinInv
  <2> QED
    BY <2>1 DEF ES!Next, ES!Ask
<1>9. CASE Join \/ UNCHANGED vars
  BY <1>9 DEF Join, vars, ES!vars
<1> QED
  BY <1>2, <1>3, <1>4, <1>5, <1>6, <1>7, <1>8, <1>9 DEF Next, Worker

(* Whatever the capacity of the channel and wherever the worker waits, the *)
(* consumer sees an EventStream (client.rs:864-974, 1206-1255).            *)
THEOREM Refinement == Spec => Implements
<1>1. Implements <=> (ES!Init /\ [][ES!Next]_(ES!vars))
  BY DEF Implements, ES!Spec
<1> QED
  BY BaseCorrect, ImplementsInit, ImplementsStep, <1>1, PTL DEF Spec
=============================================================================
