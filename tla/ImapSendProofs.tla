--------------------------- MODULE ImapSendProofs ---------------------------
(***************************************************************************)
(* Proofs about ImapSend, for every list of exchanges and every number of  *)
(* unsolicited responses.                                                  *)
(***************************************************************************)
EXTENDS ImapSend, SequenceTheorems, WellFoundedInduction, TLAPS

\* Responses in flight only report what the server decided.
Honest == {m \in Message : m.type = "tagged" => m.kind \in verdict[m.tag]}

\* An output whose status is the verdict on its own command.
Own == {o \in Output :
          /\ o.tag = TagOf(o.x)
          /\ \A t \in o.tagged : t.tag = o.tag /\ t.kind \in verdict[t.tag]}

\* The tag awaited is that of the command the current exchange belongs to.
TagInv ==
  /\ st = "Tag" => x \in Ids /\ TagOf(x) = x
  /\ st \in {"Serialize", "Read", "Deserialize"} => x \in Ids /\ tag = {TagOf(x)}
  /\ \A t \in tagged : t.tag = TagOf(x) /\ t.kind \in verdict[t.tag]

FlightInv == buf \in Seq(Honest) /\ wire \in Seq(Honest)
OutsInv == outs \in Seq(Own)

\* The types of the variables, by owner.
SendTypes ==
  /\ x \in 0..Len(Exchanges)
  /\ st \in {"Idle", "Tag", "Serialize", "Read", "Deserialize", "Failed"}
  /\ st \notin {"Idle", "Failed"} => x \in Ids
  /\ tag \subseteq Ids
  /\ cursor \in Nat /\ (x # 0 => cursor <= Len(Body(x)))
  /\ limbo \in BOOLEAN
  /\ data \in Seq(Nat) /\ untagged \in Seq(Nat)
  /\ tagged \subseteq Tagged
  /\ bye \in BOOLEAN /\ cr \in BOOLEAN /\ done \in BOOLEAN
NetTypes ==
  /\ partial \in BOOLEAN
  /\ written \in [Ids -> Nat] /\ \A k \in Ids : written[k] <= Len(Body(k))
  /\ closed \in BOOLEAN
SrvTypes ==
  /\ srvX \in Ids
  /\ srvGot \in Nat
  /\ srvSt \in {"ready", "literal", "complete"}
  /\ refused \subseteq Ids
  /\ granted \in [Ids -> SUBSET Nat]
  /\ verdict \in [Ids -> SUBSET Kind]
  /\ nextId \in Nat
  /\ garbled \in BOOLEAN
  /\ dropped \subseteq Nat

Inv == SendTypes /\ NetTypes /\ SrvTypes /\ TagInv /\ FlightInv /\ OutsInv

-----------------------------------------------------------------------------
(* Facts about the constants and the operators.                            *)

LEMMA IdFacts ==
  /\ Len(Exchanges) \in Nat /\ 1 \in Ids
  /\ \A k \in Ids : /\ k \in Nat /\ k >= 1 /\ k <= Len(Exchanges)
                    /\ TagOf(k) \in Ids /\ Body(k) \in Seq(Fragment) /\ Len(Body(k)) \in Nat
  /\ \A k \in Ids : Follows(k) => k > 1 /\ k - 1 \in Ids /\ TagOf(k) = TagOf(k - 1)
<1>1. Exchanges \in Seq(Exchange) /\ Exchanges # <<>>
  BY ExchangesAssumption
<1>2. Len(Exchanges) \in Nat /\ 1 \in Ids
  BY <1>1, EmptySeq DEF Ids
<1>3. \A k \in Ids : k \in Nat /\ k >= 1 /\ k <= Len(Exchanges) /\ Exchanges[k] \in Exchange
  BY <1>1, <1>2, ElementOfSeq DEF Ids
<1>4. \A k \in Ids : Body(k) \in Seq(Fragment) /\ Len(Body(k)) \in Nat
  BY <1>3, LenProperties DEF Exchange, Body
<1>5. \A k \in Ids : TagOf(k) \in 1..k
  BY ExchangesAssumption DEF TagOf
<1>6. \A k \in Ids : TagOf(k) \in Ids
  BY <1>2, <1>3, <1>5 DEF Ids
<1>7. \A k \in Ids : Follows(k) => k > 1 /\ TagOf(k) = TagOf(k - 1)
  BY ExchangesAssumption DEF TagOf, Follows
<1> QED
  BY <1>2, <1>3, <1>4, <1>6, <1>7 DEF Ids

\* A set of numbers has a least element.
LEMMA HasLeast ==
  ASSUME NEW T \in SUBSET Nat, T # {}
  PROVE  \E i \in T : \A j \in T : i <= j
<1>1. IsWellFoundedOn(OpToRel(<, Nat), Nat)
  BY NatLessThanWellFounded
<1>2. PICK i \in T : \A j \in T : ~(<<j, i>> \in OpToRel(<, Nat))
  BY <1>1, WFMin
<1>3. \A j \in T : ~(j < i)
  BY <1>2 DEF OpToRel
<1> QED
  BY <1>3

\* Serialising stops at the next synchronising literal, or at the end.
LEMMA PoppedFacts ==
  ASSUME x \in Ids, cursor \in Nat, cursor <= Len(Body(x))
  PROVE  /\ Popped \in Nat /\ Popped <= Len(Body(x))
         /\ SyncLeft # {} => Popped >= 1
<1>1. Len(Body(x)) \in Nat
  BY IdFacts
<1>2. CASE SyncLeft = {}
  BY <1>1, <1>2 DEF Popped
<1>3. CASE SyncLeft # {}
  <2>1. SyncLeft \subseteq (cursor + 1)..Len(Body(x)) /\ SyncLeft \in SUBSET Nat
    BY <1>1 DEF SyncLeft
  <2>2. \E i \in SyncLeft : \A j \in SyncLeft : i <= j
    BY <1>3, <2>1, HasLeast
  <2>3. Popped \in SyncLeft
    BY <1>3, <2>2 DEF Popped
  <2> QED
    BY <1>1, <2>1, <2>3
<1> QED
  BY <1>2, <1>3

\* The library's facts about sequences, for any kind of item.
LEMMA SeqFacts ==
  ASSUME NEW S, NEW s \in Seq(S)
  PROVE  /\ Len(s) \in Nat
         /\ \A e \in S : Append(s, e) \in Seq(S)
         /\ \A t \in Seq(S) : s \o t \in Seq(S)
         /\ s # <<>> => /\ Head(s) \in S /\ Tail(s) \in Seq(S)
                        /\ Len(s) > 0 /\ s[Len(s)] \in S
         /\ \A n \in 0..Len(s) : /\ SubSeq(s, 1, n) \in Seq(S)
                                 /\ SubSeq(s, n + 1, Len(s)) \in Seq(S)
<1>1. Len(s) \in Nat /\ \A i \in 1..Len(s) : s[i] \in S
  BY LenProperties, ElementOfSeq
<1>2. \A e \in S : Append(s, e) \in Seq(S)
  BY AppendProperties
<1>3. \A t \in Seq(S) : s \o t \in Seq(S)
  BY ConcatProperties
<1>4. s # <<>> => Head(s) \in S /\ Tail(s) \in Seq(S) /\ Len(s) > 0 /\ s[Len(s)] \in S
  <2> SUFFICES ASSUME s # <<>>
               PROVE  Head(s) \in S /\ Tail(s) \in Seq(S) /\ Len(s) > 0 /\ s[Len(s)] \in S
    OBVIOUS
  <2>1. Head(s) \in S /\ Tail(s) \in Seq(S)
    BY HeadTailProperties
  <2>2. Len(s) \in Nat \ {0}
    BY EmptySeq
  <2> QED
    BY <1>1, <2>1, <2>2
<1>5. \A n \in 0..Len(s) : SubSeq(s, 1, n) \in Seq(S) /\ SubSeq(s, n + 1, Len(s)) \in Seq(S)
  <2> SUFFICES ASSUME NEW n \in 0..Len(s)
               PROVE  SubSeq(s, 1, n) \in Seq(S) /\ SubSeq(s, n + 1, Len(s)) \in Seq(S)
    OBVIOUS
  <2>1. /\ n \in Int /\ n + 1 \in Int /\ Len(s) \in Int
        /\ \A i \in 1..n : s[i] \in S
        /\ \A i \in (n + 1)..Len(s) : s[i] \in S
    BY <1>1
  <2> QED
    BY <2>1, SubSeqProperties
<1> QED
  BY <1>1, <1>2, <1>3, <1>4, <1>5

\* The parts give the type invariant and the property.
LEMMA InvImplies == Inv => TypeOK /\ OwnCompletion
<1> SUFFICES ASSUME Inv PROVE TypeOK /\ OwnCompletion
  OBVIOUS
<1>1. Honest \subseteq Message /\ Own \subseteq Output
  BY DEF Honest, Own
<1>2. buf \in Seq(Message) /\ wire \in Seq(Message) /\ outs \in Seq(Output)
  BY <1>1, SeqMonotonic DEF Inv, FlightInv, OutsInv
<1>3. TypeOK
  BY <1>2 DEF Inv, SendTypes, NetTypes, SrvTypes, TypeOK
<1>4. \A i \in 1..Len(outs) : outs[i] \in Own
  BY ElementOfSeq DEF Inv, OutsInv
<1>5. OwnCompletion
  BY <1>4 DEF OwnCompletion, Own
<1> QED
  BY <1>3, <1>5

\* What a response holds, by its type.
LEMMA MessageFacts ==
  \A m \in Message :
    /\ m.type \in {"data", "status"} => m.id \in Nat
    /\ m.type = "tagged" => m.tag \in Ids /\ m.kind \in Kind
  BY DEF Message

-----------------------------------------------------------------------------
(* Frames: what a step that leaves some variables alone preserves.         *)

\* The verdicts only grow, so what was honest stays honest.
VerdictGrows == verdict' \in [Ids -> SUBSET Kind] /\ \A k \in Ids : verdict[k] \subseteq verdict'[k]

LEMMA Grow ==
  ASSUME Inv, VerdictGrows
  PROVE  /\ Honest \subseteq Honest' /\ Own \subseteq Own'
         /\ \A s \in Seq(Honest) : s \in Seq(Honest')
         /\ outs \in Seq(Own')
<1>1. Honest \subseteq Honest'
  BY MessageFacts DEF Honest, VerdictGrows
<1>2. \A o \in Output : o.tagged \subseteq Tagged /\ o.x \in Ids
  BY DEF Output
<1>3. \A t \in Tagged : t.tag \in Ids
  BY DEF Tagged
<1>4. Own \subseteq Own'
  <2> SUFFICES ASSUME NEW o \in Own PROVE o \in Own'
    OBVIOUS
  <2>1. o \in Output /\ o.tag = TagOf(o.x)
        /\ \A t \in o.tagged : t.tag = o.tag /\ t.kind \in verdict[t.tag]
    BY DEF Own
  <2>2. \A t \in o.tagged : t.kind \in verdict'[t.tag]
    BY <1>2, <1>3, <2>1 DEF VerdictGrows
  <2> QED
    BY <2>1, <2>2 DEF Own
<1>5. \A s \in Seq(Honest) : s \in Seq(Honest')
  BY <1>1, SeqMonotonic
<1>6. outs \in Seq(Own')
  BY <1>4, SeqMonotonic DEF Inv, OutsInv
<1> QED
  BY <1>1, <1>4, <1>5, <1>6

LEMMA SendFrame ==
  ASSUME Inv, VerdictGrows, UNCHANGED sendVars
  PROVE  SendTypes' /\ TagInv' /\ OutsInv'
<1>1. SendTypes'
  BY DEF Inv, SendTypes, sendVars
<1>2. OutsInv'
  BY Grow DEF OutsInv, sendVars
<1>3. \A t \in tagged : t.tag \in Ids
  BY DEF Inv, SendTypes, Tagged
<1>4. TagInv'
  BY <1>3 DEF Inv, TagInv, sendVars, VerdictGrows
<1> QED
  BY <1>1, <1>2, <1>4

LEMMA NetFrame ==
  ASSUME Inv, VerdictGrows, UNCHANGED netVars
  PROVE  NetTypes' /\ FlightInv'
  BY Grow DEF Inv, NetTypes, FlightInv, netVars

LEMMA SrvFrame ==
  ASSUME Inv, UNCHANGED srvVars
  PROVE  SrvTypes' /\ VerdictGrows /\ Honest' = Honest /\ Own' = Own
  BY DEF Inv, SrvTypes, srvVars, VerdictGrows, Honest, Own

-----------------------------------------------------------------------------
LEMMA InvInit == Init => Inv
<1> SUFFICES ASSUME Init PROVE Inv
  OBVIOUS
<1>1. \A S : <<>> \in Seq(S)
  BY EmptySeq
<1>2. Len(Exchanges) \in Nat /\ 1 \in Ids /\ \A k \in Ids : Len(Body(k)) \in Nat
  BY IdFacts
<1>3. SendTypes
  <2>1. x \in 0..Len(Exchanges)
    BY <1>2 DEF Init
  <2>2. data \in Seq(Nat) /\ untagged \in Seq(Nat)
    BY <1>1 DEF Init
  <2> QED
    BY <2>1, <2>2 DEF Init, SendTypes
<1>4. NetTypes
  <2>1. \A k \in Ids : written[k] = 0
    BY DEF Init
  <2>2. \A k \in Ids : 0 <= Len(Body(k))
    BY <1>2
  <2>3. written \in [Ids -> Nat]
    BY DEF Init
  <2> QED
    BY <2>1, <2>2, <2>3 DEF Init, NetTypes
<1>5. SrvTypes
  BY <1>2 DEF Init, SrvTypes
<1>6. TagInv /\ FlightInv /\ OutsInv
  BY <1>1 DEF Init, TagInv, FlightInv, OutsInv
<1> QED
  BY <1>3, <1>4, <1>5, <1>6 DEF Inv

\* A new exchange awaits the tag of the command it belongs to.
LEMMA StartStep == Inv /\ Start => Inv'
<1> SUFFICES ASSUME Inv, NEW k \in Ids, StartCommand(k) \/ StartNew(k) \/ StartReceive(k)
             PROVE  Inv'
  BY DEF Start
<1>1. /\ IsNext(k) /\ Fresh(k) /\ x' = k
      /\ UNCHANGED <<outs, buf, partial, wire, closed, srvVars>>
  BY DEF StartCommand, StartNew, StartReceive, Fresh
<1>2. SrvTypes' /\ Honest' = Honest /\ Own' = Own
  BY <1>1, SrvFrame
<1>3. FlightInv' /\ OutsInv'
  BY <1>1, <1>2 DEF Inv, FlightInv, OutsInv
<1>4. NetTypes'
  <2>1. CASE UNCHANGED written
    BY <1>1, <2>1 DEF Inv, NetTypes
  <2>2. CASE written' = [written EXCEPT ![k] = Len(Body(k))]
    <3>1. written \in [Ids -> Nat] /\ \A j \in Ids : written[j] <= Len(Body(j))
      BY DEF Inv, NetTypes
    <3>2. Len(Body(k)) \in Nat
      BY IdFacts
    <3>3. written' \in [Ids -> Nat]
      BY <2>2, <3>1, <3>2
    <3>4. ASSUME NEW j \in Ids PROVE written'[j] <= Len(Body(j))
      BY <2>2, <3>1, <3>2
    <3> QED
      BY <1>1, <3>3, <3>4 DEF Inv, NetTypes, Body
  <2> QED
    BY <2>1, <2>2 DEF StartCommand, StartNew, StartReceive
<1>5. /\ st' = "Tag" => TagOf(k) = k /\ tag' = {}
      /\ st' # "Tag" => tag' = {TagOf(k)}
      /\ st' \in {"Tag", "Serialize", "Read"}
  <2>1. CASE StartCommand(k)
    BY <2>1, ExchangesAssumption DEF StartCommand, TagOf
  <2>2. Follows(k) => outs # <<>> /\ outs[Len(outs)].tag = TagOf(k)
    <3> SUFFICES ASSUME Follows(k) PROVE outs # <<>> /\ outs[Len(outs)].tag = TagOf(k)
      OBVIOUS
    <3>1. Paused(k)
      BY <1>1 DEF IsNext
    <3>2. outs # <<>> /\ outs[Len(outs)].x = k - 1
      BY <3>1 DEF Paused
    <3>3. outs[Len(outs)] \in Own
      BY <3>2, SeqFacts DEF Inv, OutsInv
    <3>4. outs[Len(outs)].tag = TagOf(k - 1)
      BY <3>2, <3>3 DEF Own
    <3> QED
      BY <3>2, <3>4, IdFacts
  <2>3. CASE StartNew(k)
    <3>1. Follows(k)
      BY <2>3, ExchangesAssumption DEF StartNew, Follows, TagOf
    <3> QED
      BY <2>2, <2>3, <3>1 DEF StartNew
  <2>4. CASE StartReceive(k)
    BY <2>2, <2>4 DEF StartReceive, Follows
  <2> QED
    BY <2>1, <2>3, <2>4
<1>6. SendTypes'
  <2>1. k \in 0..Len(Exchanges) /\ TagOf(k) \in Ids /\ Len(Body(k)) \in Nat
    BY IdFacts
  <2>2. tag' \subseteq Ids
    BY <1>5, <2>1
  <2>3. <<>> \in Seq(Nat)
    BY EmptySeq
  <2> QED
    <3>1. x' \in 0..Len(Exchanges) /\ x' \in Ids /\ st' \in {"Tag", "Serialize", "Read"}
      BY <1>1, <1>5, <2>1
    <3>2. cursor' \in Nat /\ (x' # 0 => cursor' <= Len(Body(x'))) /\ limbo' \in BOOLEAN
      <4>1. cursor' = 0 /\ x' = k /\ limbo' = FALSE
        BY <1>1 DEF Fresh
      <4>2. 0 <= Len(Body(k))
        BY <2>1
      <4> QED
        BY <4>1, <4>2
    <3>3. data' \in Seq(Nat) /\ untagged' \in Seq(Nat) /\ tagged' \subseteq Tagged
      BY <1>1, <2>3 DEF Fresh
    <3>4. bye' \in BOOLEAN /\ cr' \in BOOLEAN /\ done' \in BOOLEAN
      BY <1>1 DEF Fresh
    <3> QED
      BY <2>2, <3>1, <3>2, <3>3, <3>4 DEF SendTypes, Body
<1>7. TagInv'
  BY <1>1, <1>5 DEF Fresh, TagInv
<1> QED
  BY <1>2, <1>3, <1>4, <1>6, <1>7 DEF Inv

-----------------------------------------------------------------------------
(* The loop of `resume`.                                                   *)

\* Steps that look at the exchange alone.
LEMMA AloneStep ==
  Inv /\ (AnswerTag \/ AnswerNoTag \/ ReadEof \/ Complete \/ ResumeLiteral \/ ReadMore)
    => Inv'
<1> SUFFICES ASSUME Inv, AnswerTag \/ AnswerNoTag \/ ReadEof \/ Complete \/ ResumeLiteral
                         \/ ReadMore
             PROVE  Inv'
  OBVIOUS
<1>1. UNCHANGED netVars /\ UNCHANGED srvVars
  BY DEF AnswerTag, AnswerNoTag, ReadEof, Complete, ResumeLiteral, ReadMore
<1>2. /\ SrvTypes' /\ VerdictGrows /\ Honest' = Honest /\ Own' = Own
      /\ NetTypes' /\ FlightInv' /\ verdict' = verdict
  BY <1>1, SrvFrame, NetFrame DEF srvVars
<1>3. CASE AnswerTag
  <2>1. /\ st = "Tag" /\ st' = "Serialize" /\ tag' = {x}
        /\ UNCHANGED <<x, cursor, limbo, data, untagged, tagged, bye, cr, done, outs>>
    BY <1>3 DEF AnswerTag
  <2>2. x \in Ids /\ TagOf(x) = x
    BY <2>1 DEF Inv, TagInv
  <2>3. SendTypes'
    BY <2>1, <2>2 DEF Inv, SendTypes
  <2>4. TagInv' /\ OutsInv'
    BY <1>2, <2>1, <2>2 DEF Inv, TagInv, OutsInv
  <2> QED
    BY <1>2, <2>3, <2>4 DEF Inv
<1>4. CASE AnswerNoTag \/ ReadEof
  <2>1. /\ st' = "Failed"
        /\ UNCHANGED <<x, tag, cursor, limbo, data, untagged, tagged, bye, cr, done, outs>>
    BY <1>4 DEF AnswerNoTag, ReadEof, Fail
  <2>2. SendTypes'
    BY <2>1 DEF Inv, SendTypes
  <2>3. TagInv' /\ OutsInv'
    BY <1>2, <2>1 DEF Inv, TagInv, OutsInv
  <2> QED
    BY <1>2, <2>2, <2>3 DEF Inv
<1>5. CASE ResumeLiteral \/ ReadMore
  <2>1. /\ st = "Deserialize" /\ st' \in {"Serialize", "Read"}
        /\ UNCHANGED <<x, tag, cursor, limbo, data, untagged, tagged, bye, cr, done, outs>>
    BY <1>5 DEF ResumeLiteral, ReadMore, Drained
  <2>2. SendTypes'
    BY <2>1 DEF Inv, SendTypes
  <2>3. TagInv' /\ OutsInv'
    BY <1>2, <2>1 DEF Inv, TagInv, OutsInv
  <2> QED
    BY <1>2, <2>2, <2>3 DEF Inv
<1>6. CASE Complete
  <2> DEFINE o == [x |-> x, tag |-> CHOOSE t \in tag : TRUE, data |-> data,
                   untagged |-> untagged, tagged |-> tagged, bye |-> bye, cr |-> cr]
  <2>1. /\ st = "Deserialize" /\ st' = "Idle" /\ outs' = Append(outs, o)
        /\ data' = <<>> /\ untagged' = <<>> /\ tagged' = {} /\ tag' = {}
        /\ bye' = FALSE /\ cr' = FALSE /\ UNCHANGED <<x, cursor, limbo, done>>
    BY <1>6 DEF Complete, Drained
  <2>2. x \in Ids /\ tag = {TagOf(x)} /\ TagOf(x) \in Ids
    BY <2>1, IdFacts DEF Inv, TagInv
  <2>3. (CHOOSE t \in tag : TRUE) = TagOf(x)
    BY <2>2
  <2>4. o \in Output
    BY <2>2, <2>3 DEF Inv, SendTypes, Output
  <2>5. o \in Own
    BY <2>3, <2>4 DEF Own, Inv, TagInv
  <2>6. OutsInv'
    BY <1>2, <2>1, <2>5, SeqFacts DEF Inv, OutsInv
  <2>7. <<>> \in Seq(Nat)
    BY EmptySeq
  <2>8. SendTypes'
    BY <2>1, <2>7 DEF Inv, SendTypes
  <2>9. TagInv'
    BY <2>1 DEF TagInv
  <2> QED
    BY <1>2, <2>6, <2>8, <2>9 DEF Inv
<1> QED
  BY <1>3, <1>4, <1>5, <1>6

\* Writing what precedes the next literal, or what is left.
LEMMA SerializeStep == Inv /\ Serialize => Inv'
<1> SUFFICES ASSUME Inv, Serialize PROVE Inv'
  OBVIOUS
<1>1. /\ st = "Serialize" /\ st' = "Read" /\ cursor' = Popped /\ limbo' \in BOOLEAN
      /\ limbo' = (SyncLeft # {})
      /\ written' = [written EXCEPT ![x] = IF SyncLeft = {} THEN Popped ELSE Popped - 1]
      /\ UNCHANGED <<x, tag, data, untagged, tagged, bye, cr, done, outs,
                     buf, partial, wire, closed, srvVars>>
  BY DEF Serialize
<1>2. SrvTypes' /\ Honest' = Honest /\ Own' = Own /\ verdict' = verdict
  BY <1>1, SrvFrame DEF srvVars
<1>3. FlightInv' /\ OutsInv' /\ TagInv'
  BY <1>1, <1>2 DEF Inv, FlightInv, OutsInv, TagInv
<1>4. x \in Ids /\ x # 0 /\ cursor \in Nat /\ cursor <= Len(Body(x)) /\ Len(Body(x)) \in Nat
  BY <1>1, IdFacts DEF Inv, SendTypes
<1>5. /\ Popped \in Nat /\ Popped <= Len(Body(x))
      /\ SyncLeft # {} => Popped >= 1
  BY <1>4, PoppedFacts
<1>6. SendTypes'
  <2>1. cursor' \in Nat /\ (x' # 0 => cursor' <= Len(Body(x')))
    BY <1>1, <1>5
  <2> QED
    BY <1>1, <2>1 DEF Inv, SendTypes, Body
<1>7. NetTypes'
  <2> DEFINE n == IF SyncLeft = {} THEN Popped ELSE Popped - 1
  <2>1. n \in Nat /\ n <= Len(Body(x))
    BY <1>4, <1>5
  <2>2. written \in [Ids -> Nat] /\ \A j \in Ids : written[j] <= Len(Body(j))
    BY DEF Inv, NetTypes
  <2>3. written' = [written EXCEPT ![x] = n]
    BY <1>1
  <2> HIDE DEF n
  <2>4. written' \in [Ids -> Nat]
    BY <2>1, <2>2, <2>3
  <2>5. ASSUME NEW j \in Ids PROVE written'[j] <= Len(Body(j))
    BY <1>4, <2>1, <2>2, <2>3
  <2> QED
    BY <1>1, <2>4, <2>5 DEF Inv, NetTypes, Body
<1> QED
  BY <1>2, <1>3, <1>6, <1>7 DEF Inv

\* A read moves responses from the wire to the fragmentizer.
LEMMA ReadStep == Inv /\ ReadSome => Inv'
<1> SUFFICES ASSUME Inv, NEW n \in 0..Len(wire), NEW rest \in BOOLEAN, ReadBytes(n, rest)
             PROVE  Inv'
  BY DEF ReadSome
<1>1. /\ st = "Read" /\ st' = "Deserialize" /\ partial' = rest
      /\ buf' = buf \o SubSeq(wire, 1, n) /\ wire' = SubSeq(wire, n + 1, Len(wire))
      /\ UNCHANGED <<x, tag, cursor, limbo, data, untagged, tagged, bye, cr, done, outs,
                     written, closed, srvVars>>
  BY DEF ReadBytes, Unread
<1>2. SrvTypes' /\ Honest' = Honest /\ Own' = Own /\ verdict' = verdict
  BY <1>1, SrvFrame DEF srvVars
<1>3. SubSeq(wire, 1, n) \in Seq(Honest) /\ SubSeq(wire, n + 1, Len(wire)) \in Seq(Honest)
  BY SeqFacts DEF Inv, FlightInv
<1>4. buf' \in Seq(Honest)
  BY <1>1, <1>3, SeqFacts DEF Inv, FlightInv
<1>5. FlightInv'
  BY <1>1, <1>2, <1>3, <1>4 DEF FlightInv
<1>6. SendTypes' /\ NetTypes'
  BY <1>1 DEF Inv, SendTypes, NetTypes
<1>7. TagInv' /\ OutsInv'
  BY <1>1, <1>2 DEF Inv, TagInv, OutsInv
<1> QED
  BY <1>2, <1>5, <1>6, <1>7 DEF Inv

\* A response changes the exchange only as its type says; a tagged one
\* counts only under the tag awaited.
LEMMA DecodeStep == Inv /\ Deserialize => Inv'
<1> SUFFICES ASSUME Inv, Deserialize PROVE Inv'
  OBVIOUS
<1> DEFINE m == Head(buf)
<1>1. /\ st = "Deserialize" /\ buf # <<>> /\ Decode(m) /\ buf' = Tail(buf)
      /\ UNCHANGED <<partial, written, wire, closed, srvVars>>
  BY DEF Deserialize
<1>2. SrvTypes' /\ Honest' = Honest /\ Own' = Own /\ verdict' = verdict
  BY <1>1, SrvFrame DEF srvVars
<1>3. m \in Honest /\ Tail(buf) \in Seq(Honest)
  BY <1>1, SeqFacts DEF Inv, FlightInv
<1>4. NetTypes' /\ FlightInv'
  BY <1>1, <1>2, <1>3 DEF Inv, NetTypes, FlightInv
<1>5. m \in Message /\ (m.type = "tagged" => m.kind \in verdict[m.tag])
  BY <1>3 DEF Honest
<1> HIDE DEF m
<1>6. /\ m.type \in {"data", "status"} => m.id \in Nat
      /\ m.type = "tagged" => m.tag \in Ids /\ m.kind \in Kind
  BY <1>5, MessageFacts
<1>7. x \in Ids /\ tag = {TagOf(x)}
  BY <1>1 DEF Inv, TagInv
<1>8. SendTypes' /\ TagInv' /\ UNCHANGED outs
  <2>1. CASE m.type = "data" /\ data' = Collected(data, m.id)
             /\ UNCHANGED <<x, st, tag, cursor, limbo, untagged, tagged, bye, cr, done, outs>>
    <3>1. data' \in Seq(Nat)
      BY <1>6, <2>1, SeqFacts DEF Inv, SendTypes, Collected
    <3> QED
      BY <1>2, <2>1, <3>1 DEF Inv, SendTypes, TagInv
  <2>2. CASE m.type = "status" /\ untagged' = Collected(untagged, m.id)
             /\ UNCHANGED <<x, st, tag, cursor, limbo, data, tagged, bye, cr, done, outs>>
    <3>1. untagged' \in Seq(Nat)
      BY <1>6, <2>2, SeqFacts DEF Inv, SendTypes, Collected
    <3> QED
      BY <1>2, <2>2, <3>1 DEF Inv, SendTypes, TagInv
  <2>3. CASE m.type = "tagged" /\ Owns(m)
             /\ tagged' = {[tag |-> m.tag, kind |-> m.kind]} /\ done' = TRUE
             /\ UNCHANGED <<x, st, tag, cursor, limbo, data, untagged, bye, cr, outs>>
    <3>1. m.tag = TagOf(x) /\ m.kind \in verdict[m.tag]
      BY <1>5, <1>7, <2>3 DEF Owns
    <3>2. tagged' \subseteq Tagged
      BY <1>6, <2>3 DEF Tagged
    <3>3. SendTypes'
      BY <2>3, <3>2 DEF Inv, SendTypes
    <3> QED
      BY <1>2, <1>7, <2>3, <3>1, <3>3 DEF Inv, TagInv
  <2>4. CASE bye' = TRUE /\ done' = TRUE
             /\ UNCHANGED <<x, st, tag, cursor, limbo, data, untagged, tagged, cr, outs>>
    BY <1>2, <2>4 DEF Inv, SendTypes, TagInv
  <2>5. CASE cr' = TRUE /\ done' = ~limbo
             /\ UNCHANGED <<x, st, tag, cursor, limbo, data, untagged, tagged, bye, outs>>
    BY <1>2, <2>5 DEF Inv, SendTypes, TagInv
  <2>6. CASE UNCHANGED sendVars
    BY <1>2, <2>6 DEF Inv, SendTypes, TagInv, sendVars
  <2>7. CASE Fail
    BY <1>2, <2>7 DEF Fail, Inv, SendTypes, TagInv
  <2> QED
    BY <1>1, <2>1, <2>2, <2>3, <2>4, <2>5, <2>6, <2>7 DEF Decode
<1>9. OutsInv'
  BY <1>2, <1>8 DEF Inv, OutsInv
<1> QED
  BY <1>2, <1>4, <1>8, <1>9 DEF Inv

\* An abandoned exchange forgets what it collected.
LEMMA AbandonStep == Inv /\ Abandon => Inv'
<1> SUFFICES ASSUME Inv, Abandon PROVE Inv'
  OBVIOUS
<1>1. /\ st' = "Idle" /\ data' = <<>> /\ untagged' = <<>> /\ verdict' = verdict
      /\ dropped' = dropped \cup {data[i] : i \in 1..Len(data)}
                            \cup {untagged[i] : i \in 1..Len(untagged)}
      /\ UNCHANGED <<x, tag, cursor, limbo, tagged, bye, cr, done, outs, netVars,
                     srvX, srvGot, srvSt, refused, granted, verdict, nextId, garbled>>
  BY DEF Abandon
<1>2. VerdictGrows /\ Honest' = Honest /\ Own' = Own
  BY <1>1 DEF Inv, SrvTypes, VerdictGrows, Honest, Own
<1>3. \A i \in 1..Len(data) : data[i] \in Nat
  BY ElementOfSeq DEF Inv, SendTypes
<1>4. \A i \in 1..Len(untagged) : untagged[i] \in Nat
  BY ElementOfSeq DEF Inv, SendTypes
<1>5. SrvTypes'
  BY <1>1, <1>3, <1>4 DEF Inv, SrvTypes
<1>6. <<>> \in Seq(Nat)
  BY EmptySeq
<1>7. SendTypes' /\ TagInv' /\ OutsInv'
  BY <1>1, <1>2, <1>6 DEF Inv, SendTypes, TagInv, OutsInv
<1>8. NetTypes' /\ FlightInv'
  BY <1>1, <1>2, NetFrame
<1> QED
  BY <1>5, <1>7, <1>8 DEF Inv

-----------------------------------------------------------------------------
(* The server.                                                             *)

\* What the server sends is in flight, behind what was.
LEMMA EmitFrame ==
  ASSUME Inv, VerdictGrows, NEW m \in Honest', Emit(m)
  PROVE  NetTypes' /\ FlightInv'
<1>1. wire' = Append(wire, m) /\ UNCHANGED <<buf, partial, written, closed>>
  BY DEF Emit
<1>2. wire \in Seq(Honest') /\ buf \in Seq(Honest')
  BY Grow DEF Inv, FlightInv
<1>3. wire' \in Seq(Honest')
  BY <1>1, <1>2, SeqFacts
<1> QED
  BY <1>1, <1>2, <1>3 DEF Inv, NetTypes, FlightInv

LEMMA SrvStep == Inv /\ (SrvAnswer \/ SrvVolunteer) => Inv'
<1> SUFFICES ASSUME Inv, SrvAnswer \/ SrvVolunteer PROVE Inv'
  OBVIOUS
<1>0. /\ SrvTypes /\ srvX \in Ids /\ TagOf(srvX) \in Ids
      /\ verdict \in [Ids -> SUBSET Kind] /\ UNCHANGED sendVars
  BY IdFacts DEF Inv, SrvTypes, SrvAnswer, SrvVolunteer, SrvReceive, SrvNextCommand,
     SrvContinue, SrvPrompt, SrvStatus, SrvUntagged, SrvGarbage, SrvBye, SrvClose
<1>1. CASE SrvReceive \/ \E k \in Ids : SrvNextCommand(k)
  <2>1. VerdictGrows /\ UNCHANGED netVars
    BY <1>0, <1>1 DEF SrvReceive, SrvNextCommand, VerdictGrows
  <2>2. ASSUME SrvReceive PROVE SrvTypes'
    <3>1. srvGot' \in Nat /\ srvSt' \in {"ready", "literal", "complete"}
      BY <1>0, <2>2 DEF SrvReceive, SrvTypes
    <3> QED
      BY <1>0, <2>2, <3>1 DEF SrvReceive, SrvTypes
  <2>3. ASSUME \E k \in Ids : SrvNextCommand(k) PROVE SrvTypes'
    BY <1>0, <2>3 DEF SrvNextCommand, SrvTypes
  <2>4. SrvTypes'
    BY <1>1, <2>2, <2>3
  <2> QED
    BY <1>0, <2>1, <2>4, SendFrame, NetFrame DEF Inv
<1>2. ASSUME NEW m, m \in {[type |-> "cr"], [type |-> "bye"], [type |-> "skippable"],
                           [type |-> "undecodable"]}
                    \cup {[type |-> t, id |-> n] : t \in {"data", "status"}, n \in {nextId}},
             Emit(m), verdict' = verdict, SrvTypes'
      PROVE  Inv'
  <2>1. m \in Message /\ m.type # "tagged"
    BY <1>0, <1>2 DEF Message, SrvTypes
  <2>2. m \in Honest' /\ VerdictGrows
    BY <1>0, <1>2, <2>1 DEF Honest, VerdictGrows
  <2> QED
    BY <1>0, <1>2, <2>2, SendFrame, EmitFrame DEF Inv
<1>3. CASE SrvContinue
  <2>1. granted' \in [Ids -> SUBSET Nat]
    BY <1>0, <1>3 DEF SrvContinue, SrvTypes
  <2>2. SrvTypes'
    BY <1>3, <2>1 DEF SrvContinue, Inv, SrvTypes
  <2> QED
    BY <1>2, <1>3, <2>2 DEF SrvContinue
<1>4. CASE SrvPrompt
  <2>1. SrvTypes'
    BY <1>4 DEF SrvPrompt, Inv, SrvTypes
  <2> QED
    BY <1>2, <1>4, <2>1 DEF SrvPrompt
<1>5. CASE \E type \in {"data", "status"} : SrvUntagged(type)
  <2>1. SrvTypes'
    BY <1>5 DEF SrvUntagged, Inv, SrvTypes
  <2> QED
    BY <1>2, <1>5, <2>1 DEF SrvUntagged
<1>6. CASE \E type \in {"skippable", "undecodable"} : SrvGarbage(type)
  <2>1. SrvTypes'
    BY <1>6 DEF SrvGarbage, Inv, SrvTypes
  <2> QED
    BY <1>2, <1>6, <2>1 DEF SrvGarbage
<1>7. CASE SrvClose
  <2>1. /\ closed' = TRUE /\ UNCHANGED <<buf, partial, written, wire, srvVars>>
    BY <1>7 DEF SrvClose
  <2>2. SrvTypes' /\ VerdictGrows /\ Honest' = Honest /\ Own' = Own
    BY <2>1, SrvFrame
  <2>3. NetTypes' /\ FlightInv'
    BY <2>1, <2>2 DEF Inv, NetTypes, FlightInv
  <2> QED
    BY <1>0, <2>2, <2>3, SendFrame DEF Inv
<1>8. CASE SrvBye
  <2>1. /\ closed' = TRUE /\ wire' = Append(wire, [type |-> "bye"])
        /\ UNCHANGED <<buf, partial, written, srvVars>>
    BY <1>8 DEF SrvBye
  <2>2. SrvTypes' /\ VerdictGrows /\ Honest' = Honest /\ Own' = Own
    BY <2>1, SrvFrame
  <2>3. [type |-> "bye"] \in Honest
    BY DEF Honest, Message
  <2>4. wire' \in Seq(Honest)
    BY <2>1, <2>3, SeqFacts DEF Inv, FlightInv
  <2>5. NetTypes' /\ FlightInv'
    BY <2>1, <2>2, <2>4 DEF Inv, NetTypes, FlightInv
  <2> QED
    BY <1>0, <2>2, <2>5, SendFrame DEF Inv
<1>9. CASE \E kind \in Kind : SrvStatus(kind)
  <2>1. PICK kind \in Kind : SrvStatus(kind)
    BY <1>9
  <2> DEFINE m == [type |-> "tagged", tag |-> TagOf(srvX), kind |-> kind]
  <2>2. /\ Emit(m)
        /\ verdict' = [verdict EXCEPT ![TagOf(srvX)] = @ \cup {kind}]
        /\ refused' = IF srvSt = "literal" THEN refused \cup {TagOf(srvX)} ELSE refused
        /\ srvSt' = "ready"
        /\ UNCHANGED <<srvX, srvGot, granted, nextId, garbled, dropped>>
    BY <2>1 DEF SrvStatus
  <2>3. VerdictGrows
    BY <1>0, <2>2 DEF VerdictGrows
  <2>4. m \in Message /\ m.kind \in verdict'[m.tag]
    BY <1>0, <2>2 DEF Message
  <2>5. m \in Honest'
    BY <2>4 DEF Honest
  <2>6. SrvTypes'
    BY <1>0, <2>2, <2>3 DEF SrvTypes, VerdictGrows
  <2> QED
    BY <1>0, <2>2, <2>3, <2>5, <2>6, SendFrame, EmitFrame DEF Inv
<1> QED
  BY <1>1, <1>3, <1>4, <1>5, <1>6, <1>7, <1>8, <1>9 DEF SrvAnswer, SrvVolunteer

-----------------------------------------------------------------------------
LEMMA InvStep == Inv /\ [Next]_vars => Inv'
<1>1. Inv /\ UNCHANGED vars => Inv'
  <2> SUFFICES ASSUME Inv, UNCHANGED vars PROVE Inv'
    OBVIOUS
  <2>1. UNCHANGED sendVars /\ UNCHANGED netVars /\ UNCHANGED srvVars
    BY DEF vars
  <2> QED
    BY <2>1, SrvFrame, NetFrame, SendFrame DEF Inv
<1> QED
  BY <1>1, StartStep, AloneStep, SerializeStep, ReadStep, DecodeStep, AbandonStep, SrvStep
     DEF Next, Resume

(* The strengthened invariant holds in every reachable state.              *)
THEOREM InvCorrect == Spec => []Inv
  BY InvInit, InvStep, PTL DEF Spec

(* Type correctness: in particular no more of a command is written than it *)
(* has fragments, and an exchange that waits knows its tag                 *)
(* (send.rs:80-98, 209-237).                                               *)
THEOREM TypeCorrect == Spec => []TypeOK
  BY InvCorrect, InvImplies, PTL

(* An exchange ends on its own command's completion, for every list of     *)
(* exchanges, however many completions of earlier, abandoned or refused    *)
(* commands arrive before it (send.rs:267-279).                            *)
THEOREM OwnCompletionHolds == Spec => []OwnCompletion
  BY InvCorrect, InvImplies, PTL

-----------------------------------------------------------------------------
(* An OK means that the command was written whole.  The server completes   *)
(* the last exchange of a command, once it has all of it; and no exchange  *)
(* is written before it is begun.                                          *)

Whole(k) == written[k] = Len(Body(k)) /\ Len(Body(k)) >= 1

Unbegun == \A k \in Ids : k > x => written[k] = 0
HeldBack == x \in Ids /\ (st \in {"Tag", "Serialize"} \/ limbo) => written[x] <= cursor
Received == srvSt = "complete" => Whole(srvX)
Earned ==
  \A t \in Ids : "OK" \in verdict[t] => \E k \in Ids : TagOf(k) = t /\ ~Prompts(k) /\ Whole(k)

WInv == Unbegun /\ HeldBack /\ Received /\ Earned /\ OkMeansWritten

\* The exchanges of a command follow one another; the one that does not prompt
\* is the last.
LEMMA LastOfCommand ==
  ASSUME NEW k \in Ids, ~Prompts(k), NEW j \in Ids, TagOf(j) = TagOf(k)
  PROVE  j <= k
<1> SUFFICES ASSUME j > k PROVE FALSE
  BY IdFacts
<1> DEFINE T == {i \in Ids : i > k /\ TagOf(i) = TagOf(k)}
<1>1. T \in SUBSET Nat /\ T # {}
  BY IdFacts
<1>2. PICK i \in T : \A l \in T : i <= l
  BY <1>1, HasLeast
<1>3. i \in Ids /\ i > k /\ TagOf(i) = TagOf(k)
  BY <1>2
<1>4. k \in Nat /\ i \in Nat /\ TagOf(k) <= k /\ TagOf(k) \in Nat
  BY <1>3, IdFacts, ExchangesAssumption DEF TagOf
<1>5. Follows(i)
  BY <1>3, <1>4 DEF Follows
<1>6. i - 1 \in Ids /\ TagOf(i - 1) = TagOf(i)
  BY <1>3, <1>5, IdFacts
<1>7. CASE i - 1 = k
  <2>1. k + 1 = i
    BY <1>4, <1>7
  <2>2. QED
    BY <1>3, <1>5, <2>1 DEF Prompts
<1>8. CASE i - 1 # k
  <2>1. i - 1 > k /\ i - 1 < i
    BY <1>3, <1>4, <1>8
  <2>2. i - 1 \in T
    BY <1>3, <1>6, <2>1
  <2>3. QED
    BY <1>2, <1>4, <2>1, <2>2
<1>9. QED
  BY <1>7, <1>8

\* A step that writes nothing and begins nothing.
Calm ==
  /\ UNCHANGED <<x, written, cursor, limbo, outs, srvX, srvSt, verdict>>
  /\ st' \in {"Tag", "Serialize"} => st \in {"Tag", "Serialize"} \/ limbo

\* It keeps the invariant.
LEMMA CalmStep == ASSUME WInv, Calm PROVE WInv'
<1>1. Unbegun' /\ HeldBack'
  BY DEF WInv, Calm, Unbegun, HeldBack
<1>2. Received' /\ Earned' /\ OkMeansWritten'
  BY DEF WInv, Calm, Received, Earned, Whole, OkMeansWritten, Body, TagOf, Prompts, Follows
<1>3. QED
  BY <1>1, <1>2 DEF WInv

\* Such are all but one step of the loop of resume, and what the caller does.
LEMMA ClientIsCalm ==
  ASSUME \/ AnswerTag \/ AnswerNoTag \/ ReadSome \/ ReadEof \/ Deserialize \/ ResumeLiteral
         \/ ReadMore \/ Abandon \/ UNCHANGED vars
  PROVE  Calm
<1>1. CASE AnswerTag \/ AnswerNoTag \/ ResumeLiteral \/ ReadMore
  BY <1>1 DEF AnswerTag, AnswerNoTag, ResumeLiteral, ReadMore, Fail, Calm, netVars, srvVars
<1>2. CASE ReadSome
  BY <1>2 DEF ReadSome, ReadBytes, Calm, srvVars
<1>3. CASE ReadEof \/ Abandon
  BY <1>3 DEF ReadEof, Abandon, Fail, Calm, netVars, srvVars
<1>4. CASE Deserialize
  BY <1>4 DEF Deserialize, Decode, Fail, Calm, sendVars, srvVars
<1>5. CASE UNCHANGED vars
  BY <1>5 DEF vars, sendVars, netVars, srvVars, Calm
<1>6. QED
  BY <1>1, <1>2, <1>3, <1>4, <1>5

\* What is written whole stays so.
LEMMA WholeStays ==
  ASSUME WInv, NEW n \in Ids, NEW w \in Nat, written \in [Ids -> Nat],
         written' = [written EXCEPT ![n] = w],
         written[n] = Len(Body(n)) => w = Len(Body(n)),
         UNCHANGED <<outs, srvX, srvSt, verdict>>, outs \in Seq(Output), srvX \in Ids
  PROVE  Received' /\ Earned' /\ OkMeansWritten'
<1>1. \A k \in Ids : written[k] = Len(Body(k)) => written'[k] = Len(Body(k))
  OBVIOUS
<1>2. Received'
  BY <1>1 DEF WInv, Received, Whole, Body
<1>3. Earned'
  BY <1>1 DEF WInv, Earned, Whole, Body, TagOf, Prompts, Follows
<1>4. \A i \in 1..Len(outs) : outs[i].x \in Ids
  <2>1. \A i \in 1..Len(outs) : outs[i] \in Output
    BY ElementOfSeq
  <2>2. QED
    BY <2>1 DEF Output
<1>5. OkMeansWritten'
  BY <1>1, <1>4 DEF WInv, OkMeansWritten, Body
<1>6. QED
  BY <1>2, <1>3, <1>5

\* Beginning an exchange writes at most all of it.
LEMMA StartWritten == Inv /\ WInv /\ Start => WInv'
<1> SUFFICES ASSUME Inv, WInv, Start PROVE WInv'
  OBVIOUS
<1>1. PICK k \in Ids : StartCommand(k) \/ StartNew(k) \/ StartReceive(k)
  BY DEF Start
<1>2. /\ k > x /\ x' = k /\ cursor' = 0 /\ ~limbo'
      /\ UNCHANGED <<outs, srvX, srvSt, verdict>>
  BY <1>1, IdFacts DEF StartCommand, StartNew, StartReceive, IsNext, Fresh, srvVars, Inv, SendTypes
<1>3. \/ UNCHANGED written
      \/ written' = [written EXCEPT ![k] = Len(Body(k))] /\ st' = "Read"
  BY <1>1 DEF StartCommand, StartNew, StartReceive
<1>4. written \in [Ids -> Nat] /\ x \in 0..Len(Exchanges) /\ srvX \in Ids /\ outs \in Seq(Output)
  BY InvImplies DEF Inv, NetTypes, SendTypes, SrvTypes, TypeOK
<1>5. Unbegun'
  <2> SUFFICES ASSUME NEW j \in Ids, j > k PROVE written'[j] = 0
    BY <1>2 DEF Unbegun
  <2>1. j > x /\ j # k
    <3>1. j \in Nat /\ k \in Nat /\ x \in Nat
      BY <1>4, IdFacts
    <3>2. QED
      BY <1>2, <3>1
  <2>2. written[j] = 0
    BY <2>1 DEF WInv, Unbegun
  <2>3. QED
    BY <1>3, <1>4, <2>1, <2>2
<1>6. HeldBack'
  <2>1. CASE UNCHANGED written
    BY <1>2, <1>4, <2>1, IdFacts DEF WInv, Unbegun, HeldBack
  <2>2. CASE st' = "Read"
    BY <1>2, <2>2 DEF HeldBack
  <2>3. QED
    BY <1>3, <2>1, <2>2
<1>7. Received' /\ Earned' /\ OkMeansWritten'
  <2>1. CASE UNCHANGED written
    BY <1>2, <2>1
    DEF WInv, Received, Earned, Whole, OkMeansWritten, Body, TagOf, Prompts, Follows
  <2>2. CASE written' = [written EXCEPT ![k] = Len(Body(k))]
    BY <1>2, <1>4, <2>2, WholeStays, IdFacts
  <2>3. QED
    BY <1>3, <2>1, <2>2
<1>8. QED
  BY <1>5, <1>6, <1>7 DEF WInv

\* A literal is held back from a command that is not written yet.
LEMMA SerializeWritten == Inv /\ WInv /\ Serialize => WInv'
<1> SUFFICES ASSUME Inv, WInv, Serialize PROVE WInv'
  OBVIOUS
<1> DEFINE w == IF SyncLeft = {} THEN Popped ELSE Popped - 1
<1>1. /\ st = "Serialize" /\ cursor' = Popped /\ written' = [written EXCEPT ![x] = w]
      /\ UNCHANGED <<x, outs, srvX, srvSt, verdict>>
  BY DEF Serialize, srvVars
<1>2. /\ x \in Ids /\ cursor \in Nat /\ cursor <= Len(Body(x)) /\ Len(Body(x)) \in Nat
      /\ written \in [Ids -> Nat] /\ srvX \in Ids /\ outs \in Seq(Output)
  <2>1. outs \in Seq(Output)
    BY InvImplies DEF TypeOK
  <2>2. x \in Ids
    BY <1>1 DEF Inv, SendTypes
  <2>3. cursor \in Nat /\ cursor <= Len(Body(x)) /\ Len(Body(x)) \in Nat
    BY <2>2, IdFacts DEF Inv, SendTypes
  <2>4. QED
    BY <2>1, <2>2, <2>3 DEF Inv, NetTypes, SrvTypes
<1>3. Popped \in Nat /\ Popped <= Len(Body(x)) /\ (SyncLeft # {} => Popped >= 1)
  BY <1>2, PoppedFacts
<1>4. w \in Nat /\ w <= Popped
  BY <1>3
<1>5. written[x] = Len(Body(x)) => w = Len(Body(x))
  <2> SUFFICES ASSUME written[x] = Len(Body(x)) PROVE w = Len(Body(x))
    OBVIOUS
  <2>1. cursor = Len(Body(x))
    BY <1>1, <1>2 DEF WInv, HeldBack
  <2>2. SyncLeft = {}
    BY <1>2, <2>1 DEF SyncLeft
  <2>3. QED
    BY <2>2 DEF Popped
<1> HIDE DEF w
<1>6. Received' /\ Earned' /\ OkMeansWritten'
  BY <1>1, <1>2, <1>4, <1>5, WholeStays
<1>7. Unbegun'
  BY <1>1, <1>2, IdFacts DEF WInv, Unbegun
<1>8. HeldBack'
  BY <1>1, <1>2, <1>4 DEF HeldBack
<1>9. QED
  BY <1>6, <1>7, <1>8 DEF WInv

\* An OK is read by the last exchange of the command, which was written.
LEMMA CompleteWritten == Inv /\ WInv /\ Complete => WInv'
<1> SUFFICES ASSUME Inv, WInv, Complete PROVE WInv'
  OBVIOUS
<1> DEFINE o == [x |-> x, tag |-> CHOOSE t \in tag : TRUE, data |-> data,
                 untagged |-> untagged, tagged |-> tagged, bye |-> bye, cr |-> cr]
<1>1. /\ st = "Deserialize" /\ st' = "Idle" /\ outs' = Append(outs, o)
      /\ UNCHANGED <<x, written, cursor, limbo, srvX, srvSt, verdict>>
  BY DEF Complete, Drained, netVars, srvVars
<1>2. Unbegun' /\ HeldBack' /\ Received' /\ Earned'
  BY <1>1
  DEF WInv, Unbegun, HeldBack, Received, Earned, Whole, Body, TagOf, Prompts, Follows
<1>3. x \in Ids /\ outs \in Seq(Output) /\ Len(outs) \in Nat
  BY <1>1, InvImplies, LenProperties DEF Inv, SendTypes, TypeOK
<1>4. ASSUME NEW t \in tagged, t.kind = "OK"
      PROVE  written[x] = Len(Body(x))
  <2>1. "OK" \in verdict[TagOf(x)] /\ TagOf(x) \in Ids
    BY <1>3, <1>4, IdFacts DEF Inv, TagInv
  <2>2. PICK k \in Ids : TagOf(k) = TagOf(x) /\ ~Prompts(k) /\ Whole(k)
    BY <2>1 DEF WInv, Earned
  <2>3. x <= k
    BY <1>3, <2>2, LastOfCommand
  <2>4. ~(k > x)
    BY <2>2 DEF WInv, Unbegun, Whole
  <2>5. x = k
    <3>1. x \in Nat /\ k \in Nat
      BY <1>3, IdFacts
    <3>2. QED
      BY <2>3, <2>4, <3>1
  <2>6. QED
    BY <2>2, <2>5 DEF Whole
<1>5. o.x = x /\ o.tagged = tagged
  OBVIOUS
<1> HIDE DEF o
<1>6. OkMeansWritten'
  <2> SUFFICES ASSUME NEW i \in 1..Len(outs'), NEW t \in outs'[i].tagged, t.kind = "OK"
               PROVE  written[outs'[i].x] = Len(Body(outs'[i].x))
    BY <1>1 DEF OkMeansWritten, Body
  <2>1. Len(outs') = Len(outs) + 1
    BY <1>1, <1>3
  <2>2. CASE i = Len(outs) + 1
    <3>1. outs'[i] = o
      BY <1>1, <1>3, <2>2
    <3>2. QED
      BY <1>4, <1>5, <3>1
  <2>3. CASE i \in 1..Len(outs)
    <3>1. outs'[i] = outs[i]
      BY <1>1, <1>3, <2>3
    <3>2. QED
      BY <2>3, <3>1 DEF WInv, OkMeansWritten
  <2>4. QED
    BY <1>3, <2>1, <2>2, <2>3
<1>7. QED
  BY <1>2, <1>6 DEF WInv

\* The server completes what it has received to the end.
LEMMA ServerWritten == Inv /\ WInv /\ (SrvAnswer \/ SrvVolunteer) => WInv'
<1> SUFFICES ASSUME Inv, WInv, SrvAnswer \/ SrvVolunteer PROVE WInv'
  OBVIOUS
<1>1. UNCHANGED <<sendVars, written>>
  BY DEF SrvAnswer, SrvVolunteer, SrvReceive, SrvNextCommand, SrvContinue, SrvPrompt, SrvStatus,
         SrvUntagged, SrvGarbage, SrvBye, SrvClose, Emit, netVars
<1>2. Unbegun' /\ HeldBack' /\ OkMeansWritten'
  BY <1>1 DEF sendVars, WInv, Unbegun, HeldBack, OkMeansWritten, Body
<1>3. /\ srvX \in Ids /\ srvGot \in Nat /\ Len(Body(srvX)) \in Nat
      /\ written \in [Ids -> Nat] /\ written[srvX] <= Len(Body(srvX))
      /\ verdict \in [Ids -> SUBSET Kind]
  BY IdFacts DEF Inv, SrvTypes, NetTypes
<1>4. Received'
  <2>1. CASE SrvReceive
    <3> SUFFICES ASSUME srvSt' = "complete" PROVE Whole(srvX)'
      BY DEF Received
    <3>1. srvGot < written[srvX] /\ srvGot + 1 = Len(Body(srvX)) /\ UNCHANGED srvX
      BY <2>1 DEF SrvReceive
    <3>2. QED
      BY <1>1, <1>3, <3>1 DEF Whole, Body
  <2>2. CASE ~SrvReceive
    <3>1. srvSt' # "complete" \/ UNCHANGED <<srvSt, srvX>>
      BY <2>2
      DEF SrvAnswer, SrvVolunteer, SrvNextCommand, SrvContinue, SrvPrompt, SrvStatus,
          SrvUntagged, SrvGarbage, SrvBye, SrvClose, srvVars
    <3>2. QED
      BY <1>1, <3>1 DEF WInv, Received, Whole, Body
  <2>3. QED
    BY <2>1, <2>2
<1>5. Earned'
  <2>1. ASSUME NEW kind \in Kind, SrvStatus(kind)
        PROVE  Earned'
    <3>1. /\ verdict' = [verdict EXCEPT ![TagOf(srvX)] = @ \cup {kind}]
          /\ kind = "OK" => srvSt = "complete" /\ ~Prompts(srvX)
      BY <2>1 DEF SrvStatus
    <3>2. TagOf(srvX) \in Ids /\ (kind = "OK" => Whole(srvX))
      BY <1>3, <3>1, IdFacts DEF WInv, Received
    <3>3. \A k \in Ids : Whole(k) => Whole(k)'
      BY <1>1 DEF Whole, Body
    <3> SUFFICES ASSUME NEW t \in Ids, "OK" \in verdict'[t]
                 PROVE  \E k \in Ids : TagOf(k) = t /\ ~Prompts(k) /\ Whole(k)
      BY <3>3 DEF Earned, TagOf, Prompts, Follows
    <3>4. "OK" \in verdict[t] \/ (t = TagOf(srvX) /\ kind = "OK")
      BY <1>3, <3>1, <3>2
    <3>5. QED
      BY <1>3, <3>1, <3>2, <3>4 DEF WInv, Earned
  <2>2. CASE UNCHANGED verdict
    BY <1>1, <2>2 DEF WInv, Earned, Whole, Body, TagOf, Prompts, Follows
  <2>3. (\E kind \in Kind : SrvStatus(kind)) \/ UNCHANGED verdict
    BY DEF SrvAnswer, SrvVolunteer, SrvReceive, SrvNextCommand, SrvContinue, SrvPrompt,
           SrvUntagged, SrvGarbage, SrvBye, SrvClose, srvVars
  <2>4. QED
    BY <2>1, <2>2, <2>3
<1>6. QED
  BY <1>2, <1>4, <1>5 DEF WInv

\* At first nothing is written.
LEMMA WInvInit == Init => WInv
<1> SUFFICES ASSUME Init PROVE WInv
  OBVIOUS
<1>1. Unbegun /\ HeldBack /\ Received /\ Earned
  BY IdFacts DEF Init, Unbegun, HeldBack, Received, Earned
<1>2. Len(outs) = 0
  BY DEF Init
<1>3. OkMeansWritten
  BY <1>2 DEF OkMeansWritten
<1>4. QED
  BY <1>1, <1>3 DEF WInv

\* The invariant is inductive.
LEMMA WInvStep == Inv /\ WInv /\ [Next]_vars => WInv'
<1> SUFFICES ASSUME Inv, WInv, [Next]_vars PROVE WInv'
  OBVIOUS
<1>1. CASE Start \/ Serialize \/ Complete \/ SrvAnswer \/ SrvVolunteer
  BY <1>1, StartWritten, SerializeWritten, CompleteWritten, ServerWritten
<1>2. CASE \/ AnswerTag \/ AnswerNoTag \/ ReadSome \/ ReadEof \/ Deserialize \/ ResumeLiteral
           \/ ReadMore \/ Abandon \/ UNCHANGED vars
  BY <1>2, ClientIsCalm, CalmStep
<1>3. QED
  BY <1>1, <1>2 DEF Next, Resume

(* An exchange that reports OK wrote its command to the last fragment, for *)
(* any list of exchanges, literals and late completions included           *)
(* (send.rs:209-237, 267-279).                                             *)
THEOREM OkIsWritten == Spec => []OkMeansWritten
<1>1. Inv /\ WInv => OkMeansWritten
  BY DEF WInv
<1>2. Spec => [](Inv /\ WInv)
  BY InvInit, InvStep, WInvInit, WInvStep, PTL DEF Spec
<1>3. QED
  BY <1>1, <1>2, PTL

-----------------------------------------------------------------------------
(* What becomes of the untagged responses of a type: some are in the       *)
(* outputs, O, some in the exchange under way, c, some still in flight, q. *)

Types == {"data", "status"}
Vals(f) == {f[i] : i \in DOMAIN f}
Rises(f) == \A i, j \in DOMAIN f : i < j => f[i] < f[j]
Below(S, T) == \A a \in S, b \in T : a < b

Chain(O, c, q) ==
  /\ \A k \in 1..Len(O) : Rises(O[k]) /\ Below(Vals(O[k]), Vals(c)) /\ Below(Vals(O[k]), Vals(q))
  /\ \A k, l \in 1..Len(O) : k < l => Below(Vals(O[k]), Vals(O[l]))
  /\ Rises(c) /\ Rises(q) /\ Below(Vals(c), Vals(q))
Every(O, c, q) == (UNION {Vals(O[k]) : k \in 1..Len(O)}) \cup Vals(c) \cup Vals(q)

Flight == buf \o wire
EveryId(t) == Every(Stored(t), Kept(t), IdsIn(Flight, t))

OInv ==
  /\ st = "Idle" => data = <<>> /\ untagged = <<>>
  /\ nextId >= 1
  /\ \A t \in Types : Chain(Stored(t), Kept(t), IdsIn(Flight, t))
  /\ EveryId("data") \cup EveryId("status") \cup dropped = 1..(nextId - 1)
  /\ EveryId("data") \cap EveryId("status") = {}
  /\ dropped \cap (EveryId("data") \cup EveryId("status")) = {}

\* What is held, is somewhere.
LEMMA EveryElement ==
  ASSUME NEW O, NEW c, NEW q
  PROVE  \A v : v \in Every(O, c, q) <=>
                \/ \E k \in 1..Len(O) : v \in Vals(O[k])
                \/ v \in Vals(c) \/ v \in Vals(q)
BY DEF Every

\* One more number at the end of a sequence.
LEMMA ValsAppend ==
  ASSUME NEW c \in Seq(Nat), NEW n \in Nat
  PROVE  /\ Vals(Append(c, n)) = Vals(c) \cup {n}
         /\ Rises(c) /\ Below(Vals(c), {n}) => Rises(Append(c, n))
         /\ Vals(c) \in SUBSET Nat
<1> DEFINE d == Append(c, n)
<1>1. /\ Len(c) \in Nat /\ DOMAIN c = 1..Len(c) /\ \A i \in 1..Len(c) : c[i] \in Nat
      /\ DOMAIN d = 1..(Len(c) + 1) /\ d[Len(c) + 1] = n
      /\ \A i \in 1..Len(c) : d[i] = c[i]
  OBVIOUS
<1> HIDE DEF d
<1>2. Vals(d) = Vals(c) \cup {n}
  <2>1. 1..(Len(c) + 1) = 1..Len(c) \cup {Len(c) + 1}
    BY <1>1
  <2>2. QED
    BY <1>1, <2>1 DEF Vals
<1>3. ASSUME Rises(c), Below(Vals(c), {n}), NEW i \in DOMAIN d, NEW j \in DOMAIN d, i < j
      PROVE  d[i] < d[j]
  <2>1. i \in 1..Len(c) /\ (j \in 1..Len(c) \/ j = Len(c) + 1)
    BY <1>1, <1>3
  <2>2. c[i] \in Vals(c)
    BY <1>1, <2>1 DEF Vals
  <2>3. QED
    BY <1>1, <1>3, <2>1, <2>2 DEF Rises, Below
<1>4. QED
  BY <1>1, <1>2, <1>3 DEF d, Rises, Vals

\* The first one in flight is collected.
LEMMA ChainTake ==
  ASSUME NEW O, NEW c \in Seq(Nat), NEW q, NEW r, NEW id \in Nat, Chain(O, c, q),
         Vals(q) = {id} \cup Vals(r), Below({id}, Vals(r)), Rises(r)
  PROVE  Chain(O, Append(c, id), r) /\ Every(O, Append(c, id), r) = Every(O, c, q)
<1>1. Below(Vals(c), {id})
  BY DEF Chain, Below
<1>2. Vals(Append(c, id)) = Vals(c) \cup {id} /\ Rises(Append(c, id))
  BY <1>1, ValsAppend DEF Chain
<1>3. Chain(O, Append(c, id), r)
  <2> DEFINE d == Append(c, id)
  <2> HIDE DEF d
  <2>1. Vals(d) = Vals(c) \cup {id} /\ Rises(d)
    BY <1>2 DEF d
  <2>2. Chain(O, d, r)
    BY <2>1 DEF Chain, Below
  <2>3. QED
    BY <2>2 DEF d
<1>4. Every(O, Append(c, id), r) = Every(O, c, q)
  <2> DEFINE d == Append(c, id)
  <2> HIDE DEF d
  <2>1. Vals(d) = Vals(c) \cup {id}
    BY <1>2 DEF d
  <2>2. \A v : v \in Every(O, d, r) <=> v \in Every(O, c, q)
    BY <2>1, EveryElement
  <2>3. QED
    BY <2>2 DEF d
<1>5. QED
  BY <1>3, <1>4

\* Something else is taken from the flight.
LEMMA ChainSame ==
  ASSUME NEW O, NEW c, NEW q, NEW r, Chain(O, c, q), Vals(r) = Vals(q), Rises(r)
  PROVE  Chain(O, c, r) /\ Every(O, c, r) = Every(O, c, q)
<1>1. \A v : v \in Every(O, c, r) <=> v \in Every(O, c, q)
  BY EveryElement
<1>2. QED
  BY <1>1 DEF Chain

\* The exchange ends.
LEMMA ChainStore ==
  ASSUME NEW O \in Seq(Seq(Nat)), NEW c \in Seq(Nat), NEW q, Chain(O, c, q)
  PROVE  Chain(Append(O, c), <<>>, q) /\ Every(Append(O, c), <<>>, q) = Every(O, c, q)
<1> DEFINE P == Append(O, c)
<1>1. /\ Len(O) \in Nat /\ Len(P) = Len(O) + 1 /\ P[Len(O) + 1] = c
      /\ \A k \in 1..Len(O) : P[k] = O[k]
  OBVIOUS
<1>2. Vals(<<>>) = {} /\ Rises(<<>>)
  BY DEF Vals, Rises
<1> HIDE DEF P
<1>3. ASSUME NEW k \in 1..Len(P)
      PROVE  (k \in 1..Len(O) /\ P[k] = O[k]) \/ (k = Len(O) + 1 /\ P[k] = c)
  BY <1>1
<1>4. \A k \in 1..Len(P) : Rises(P[k]) /\ Below(Vals(P[k]), {}) /\ Below(Vals(P[k]), Vals(q))
  BY <1>3 DEF Chain, Below
<1>5. ASSUME NEW k \in 1..Len(P), NEW l \in 1..Len(P), k < l
      PROVE  Below(Vals(P[k]), Vals(P[l]))
  <2>1. k \in 1..Len(O) /\ P[k] = O[k]
    BY <1>1, <1>5
  <2>2. CASE l \in 1..Len(O) /\ P[l] = O[l]
    BY <1>5, <2>1, <2>2 DEF Chain
  <2>3. CASE P[l] = c
    BY <2>1, <2>3 DEF Chain
  <2>4. QED
    BY <1>3, <2>2, <2>3
<1>6. Chain(P, <<>>, q)
  BY <1>2, <1>4, <1>5 DEF Chain, Below
<1>7. Every(P, <<>>, q) = Every(O, c, q)
  <2>1. (\A k \in 1..Len(O) : k \in 1..Len(P)) /\ Len(O) + 1 \in 1..Len(P)
    BY <1>1
  <2>2. ASSUME NEW v
        PROVE  v \in Every(P, <<>>, q) <=> v \in Every(O, c, q)
    <3>1. v \in Every(P, <<>>, q) <=> (\E k \in 1..Len(P) : v \in Vals(P[k])) \/ v \in Vals(q)
      BY <1>2, EveryElement
    <3>2. v \in Every(O, c, q) <=>
            (\E k \in 1..Len(O) : v \in Vals(O[k])) \/ v \in Vals(c) \/ v \in Vals(q)
      BY EveryElement
    <3>3. QED
      BY <1>1, <1>3, <2>1, <3>1, <3>2
  <2>3. QED
    BY <2>2
<1>8. QED
  BY <1>6, <1>7 DEF P

\* The exchange is abandoned.
LEMMA ChainDrop ==
  ASSUME NEW O, NEW c, NEW q, Chain(O, c, q), Every(O, c, q) \in SUBSET Nat
  PROVE  /\ Chain(O, <<>>, q)
         /\ Every(O, <<>>, q) \cup Vals(c) = Every(O, c, q)
         /\ Every(O, <<>>, q) \cap Vals(c) = {}
<1>1. Vals(<<>>) = {} /\ Rises(<<>>)
  BY DEF Vals, Rises
<1>2. Chain(O, <<>>, q)
  BY <1>1 DEF Chain, Below
<1>3. Every(O, <<>>, q) \cup Vals(c) = Every(O, c, q)
  <2>1. \A v : v \in Every(O, <<>>, q) \/ v \in Vals(c) <=> v \in Every(O, c, q)
    BY <1>1, EveryElement
  <2>2. QED
    BY <2>1
<1>4. ASSUME NEW v \in Every(O, <<>>, q), v \in Vals(c)
      PROVE  FALSE
  <2>1. v \in Nat
    BY <1>3, <1>4
  <2>2. (\E k \in 1..Len(O) : v \in Vals(O[k])) \/ v \in Vals(q)
    BY <1>1, EveryElement
  <2>3. v < v
    BY <1>4, <2>2 DEF Chain, Below
  <2>4. QED
    BY <2>1, <2>3
<1>5. QED
  BY <1>2, <1>3, <1>4

\* A new one is sent.
LEMMA ChainSend ==
  ASSUME NEW O, NEW c, NEW q, NEW r, NEW S, Chain(O, c, q),
         \A u \in Every(O, c, q), v \in S : u < v,
         Vals(r) = Vals(q) \cup S, Rises(r)
  PROVE  Chain(O, c, r) /\ Every(O, c, r) = Every(O, c, q) \cup S
<1>1. /\ \A k \in 1..Len(O) : Below(Vals(O[k]), S)
      /\ Below(Vals(c), S)
  BY EveryElement DEF Below
<1>2. Chain(O, c, r)
  BY <1>1 DEF Chain, Below
<1>3. \A v : v \in Every(O, c, r) <=> v \in Every(O, c, q) \/ v \in S
  BY EveryElement
<1>4. QED
  BY <1>2, <1>3

-----------------------------------------------------------------------------
(* The responses in flight.                                                *)

LEMMA InFlight ==
  ASSUME NEW s \in Seq(Message), NEW t \in Types
  PROVE  /\ \A v : v \in Vals(IdsIn(s, t)) <=> \E i \in 1..Len(s) : s[i].type = t /\ v = s[i].id
         /\ Rises(IdsIn(s, t)) <=>
              \A i, j \in 1..Len(s) : s[i].type = t /\ s[j].type = t /\ i < j => s[i].id < s[j].id
<1> DEFINE f == IdsIn(s, t)
<1>1. DOMAIN f = {j \in 1..Len(s) : s[j].type = t} /\ \A i \in DOMAIN f : f[i] = s[i].id
  BY DEF IdsIn
<1> HIDE DEF f
<1>2. QED
  BY <1>1 DEF Vals, Rises, f

\* One more is sent.
LEMMA FlightSend ==
  ASSUME NEW s \in Seq(Message), NEW m \in Message, NEW t \in Types, Rises(IdsIn(s, t)),
         m.type = t => Below(Vals(IdsIn(s, t)), {m.id})
  PROVE  /\ Rises(IdsIn(Append(s, m), t))
         /\ Vals(IdsIn(Append(s, m), t)) =
              Vals(IdsIn(s, t)) \cup (IF m.type = t THEN {m.id} ELSE {})
<1> DEFINE r == Append(s, m)
<1>1. /\ r \in Seq(Message) /\ Len(s) \in Nat /\ Len(r) = Len(s) + 1 /\ r[Len(s) + 1] = m
      /\ \A i \in 1..Len(s) : r[i] = s[i]
  OBVIOUS
<1> HIDE DEF r
<1>2. \A i \in 1..Len(r) : (i \in 1..Len(s) /\ r[i] = s[i]) \/ (i = Len(s) + 1 /\ r[i] = m)
  BY <1>1
<1>3. \A i \in 1..Len(s) : i \in 1..Len(r)
  BY <1>1
<1>4. Len(s) + 1 \in 1..Len(r)
  BY <1>1
<1>5. \A v : v \in Vals(IdsIn(r, t)) <=> v \in Vals(IdsIn(s, t)) \/ (m.type = t /\ v = m.id)
  <2>1. \A v : v \in Vals(IdsIn(r, t)) <=> \E i \in 1..Len(r) : r[i].type = t /\ v = r[i].id
    BY <1>1, InFlight
  <2>2. \A v : v \in Vals(IdsIn(s, t)) <=> \E i \in 1..Len(s) : s[i].type = t /\ v = s[i].id
    BY InFlight
  <2>3. QED
    BY <1>1, <1>2, <1>3, <1>4, <2>1, <2>2
<1>6. ASSUME NEW i \in 1..Len(r), NEW j \in 1..Len(r), r[i].type = t, r[j].type = t, i < j
      PROVE  r[i].id < r[j].id
  <2>1. i \in 1..Len(s) /\ r[i] = s[i]
    BY <1>1, <1>2, <1>6
  <2>2. s[i].id \in Vals(IdsIn(s, t))
    BY <1>6, <2>1, InFlight
  <2>3. CASE j \in 1..Len(s) /\ r[j] = s[j]
    BY <1>6, <2>1, <2>3, InFlight
  <2>4. CASE r[j] = m
    BY <1>6, <2>1, <2>2, <2>4 DEF Below
  <2>5. QED
    BY <1>2, <2>3, <2>4
<1>7. Rises(IdsIn(r, t))
  BY <1>1, <1>6, InFlight
<1>8. QED
  BY <1>5, <1>7 DEF r

\* The first one is taken.
LEMMA FlightTake ==
  ASSUME NEW s \in Seq(Message), s # <<>>, NEW t \in Types, Rises(IdsIn(s, t))
  PROVE  /\ Rises(IdsIn(Tail(s), t))
         /\ Head(s).type # t => Vals(IdsIn(Tail(s), t)) = Vals(IdsIn(s, t))
         /\ Head(s).type = t =>
              /\ Vals(IdsIn(s, t)) = {Head(s).id} \cup Vals(IdsIn(Tail(s), t))
              /\ Below({Head(s).id}, Vals(IdsIn(Tail(s), t)))
<1> DEFINE r == Tail(s)
           m == Head(s)
<1>1. /\ r \in Seq(Message) /\ Len(s) \in Nat /\ Len(s) >= 1 /\ Len(r) = Len(s) - 1
      /\ s[1] = m /\ \A i \in 1..Len(r) : r[i] = s[i + 1]
  BY HeadTailProperties, EmptySeq, LenProperties
<1> HIDE DEF r, m
<1>2. \A i \in 1..Len(r) : i + 1 \in 1..Len(s)
  BY <1>1
<1>3. \A i \in 1..Len(s) : i = 1 \/ \E j \in 1..Len(r) : i = j + 1
  <2>1. ASSUME NEW i \in 1..Len(s), i # 1
        PROVE  \E j \in 1..Len(r) : i = j + 1
    <3>1. i - 1 \in 1..Len(r) /\ i = (i - 1) + 1
      BY <1>1, <2>1
    <3>2. QED
      BY <3>1
  <2>2. QED
    BY <2>1
<1>4. 1 \in 1..Len(s)
  BY <1>1
<1>5. /\ \A v : v \in Vals(IdsIn(r, t)) <=> \E i \in 1..Len(r) : r[i].type = t /\ v = r[i].id
      /\ \A v : v \in Vals(IdsIn(s, t)) <=> \E i \in 1..Len(s) : s[i].type = t /\ v = s[i].id
  BY <1>1, InFlight
<1>6. \A v : v \in Vals(IdsIn(s, t)) <=> v \in Vals(IdsIn(r, t)) \/ (m.type = t /\ v = m.id)
  <2>1. ASSUME NEW v \in Vals(IdsIn(s, t))
        PROVE  v \in Vals(IdsIn(r, t)) \/ (m.type = t /\ v = m.id)
    <3>1. PICK i \in 1..Len(s) : s[i].type = t /\ v = s[i].id
      BY <1>5, <2>1
    <3>2. CASE i = 1
      BY <1>1, <3>1, <3>2
    <3>3. CASE i # 1
      <4>1. PICK j \in 1..Len(r) : i = j + 1
        BY <1>3, <3>3
      <4>2. r[j] = s[i]
        BY <1>1, <4>1
      <4>3. QED
        BY <1>5, <3>1, <4>2
    <3>4. QED
      BY <3>2, <3>3
  <2>2. ASSUME NEW v \in Vals(IdsIn(r, t))
        PROVE  v \in Vals(IdsIn(s, t))
    <3>1. PICK i \in 1..Len(r) : r[i].type = t /\ v = r[i].id
      BY <1>5, <2>2
    <3>2. i + 1 \in 1..Len(s) /\ s[i + 1] = r[i]
      BY <1>1, <1>2
    <3>3. QED
      BY <1>5, <3>1, <3>2
  <2>3. m.type = t => m.id \in Vals(IdsIn(s, t))
    BY <1>1, <1>4, <1>5
  <2>4. QED
    BY <2>1, <2>2, <2>3
<1>7. \A i, j \in 1..Len(s) : s[i].type = t /\ s[j].type = t /\ i < j => s[i].id < s[j].id
  BY InFlight
<1>8. Rises(IdsIn(r, t))
  <2>1. ASSUME NEW i \in 1..Len(r), NEW j \in 1..Len(r), r[i].type = t, r[j].type = t, i < j
        PROVE  r[i].id < r[j].id
    <3>1. i + 1 < j + 1 /\ i + 1 \in 1..Len(s) /\ j + 1 \in 1..Len(s)
      BY <1>1, <1>2, <2>1
    <3>2. QED
      BY <1>1, <1>7, <2>1, <3>1
  <2>2. QED
    BY <1>1, <2>1, InFlight
<1>9. ASSUME m.type = t, NEW v \in Vals(IdsIn(r, t))
      PROVE  m.id < v
  <2>1. PICK i \in 1..Len(r) : r[i].type = t /\ v = r[i].id
    BY <1>5, <1>9
  <2>2. 1 < i + 1 /\ i + 1 \in 1..Len(s) /\ s[i + 1] = r[i]
    BY <1>1, <1>2
  <2>3. QED
    BY <1>1, <1>4, <1>7, <1>9, <2>1, <2>2
<1>10. QED
  BY <1>6, <1>8, <1>9 DEF r, m, Below

-----------------------------------------------------------------------------
(* No step loses, doubles or reorders one.                                 *)

LEMMA PlaceTypes ==
  ASSUME Inv
  PROVE  /\ buf \in Seq(Message) /\ wire \in Seq(Message) /\ Flight \in Seq(Message)
         /\ data \in Seq(Nat) /\ untagged \in Seq(Nat)
         /\ \A t \in Types : Kept(t) \in Seq(Nat) /\ Stored(t) \in Seq(Seq(Nat))
         /\ \A t \in Types : Len(Stored(t)) = Len(outs)
<1>1. buf \in Seq(Message) /\ wire \in Seq(Message) /\ outs \in Seq(Output)
      /\ data \in Seq(Nat) /\ untagged \in Seq(Nat)
  BY InvImplies DEF TypeOK
<1>2. Flight \in Seq(Message)
  BY <1>1, ConcatProperties DEF Flight
<1>3. \A t \in Types : Kept(t) \in Seq(Nat)
  BY <1>1 DEF Kept
<1>4. ASSUME NEW t \in Types
      PROVE  Stored(t) \in Seq(Seq(Nat)) /\ Len(Stored(t)) = Len(outs)
  <2> DEFINE f(k) == IF t = "data" THEN outs[k].data ELSE outs[k].untagged
  <2>1. Len(outs) \in Nat
    BY <1>1
  <2>2. \A k \in 1..Len(outs) : f(k) \in Seq(Nat)
    <3>1. \A k \in 1..Len(outs) : outs[k] \in Output
      BY <1>1
    <3>2. QED
      BY <3>1 DEF Output
  <2>3. Stored(t) = [k \in 1..Len(outs) |-> f(k)]
    BY DEF Stored
  <2> HIDE DEF f
  <2>4. QED
    BY <2>1, <2>2, <2>3, SeqDef
<1>5. QED
  BY <1>1, <1>2, <1>3, <1>4

\* The steps that leave all of them where they are, or read some.
LEMMA StillStep ==
  ASSUME OInv, UNCHANGED <<data, untagged, outs, dropped, nextId>>, Flight' = Flight,
         st' = "Idle" => st = "Idle"
  PROVE  OInv'
<1>1. \A t \in Types : Stored(t)' = Stored(t) /\ Kept(t)' = Kept(t)
                       /\ IdsIn(Flight, t)' = IdsIn(Flight, t)
  BY DEF Stored, Kept, IdsIn
<1>2. \A t \in Types : EveryId(t)' = EveryId(t)
  BY <1>1 DEF EveryId
<1>3. QED
  BY <1>1, <1>2 DEF OInv, Types

\* The steps that move some from a place to the next.
LEMMA MoveStep ==
  ASSUME OInv, UNCHANGED <<dropped, nextId>>,
         st' = "Idle" => data' = <<>> /\ untagged' = <<>>,
         \A t \in Types : /\ Chain(Stored(t)', Kept(t)', IdsIn(Flight', t))
                          /\ EveryId(t)' = EveryId(t)
  PROVE  OInv'
BY DEF OInv, Types

LEMMA ReadMoves ==
  ASSUME Inv, OInv, ReadSome
  PROVE  OInv'
<1>1. PICK n \in 0..Len(wire), rest \in BOOLEAN : ReadBytes(n, rest)
  BY DEF ReadSome
<1>2. /\ buf' = buf \o SubSeq(wire, 1, n) /\ wire' = SubSeq(wire, n + 1, Len(wire))
      /\ st' = "Deserialize" /\ UNCHANGED <<data, untagged, outs, dropped, nextId>>
  BY <1>1 DEF ReadBytes, Unread, srvVars
<1>3. buf \in Seq(Message) /\ wire \in Seq(Message) /\ n \in Nat /\ n <= Len(wire)
      /\ Len(wire) \in Nat
  BY PlaceTypes
<1>4. SubSeq(wire, 1, n) \o SubSeq(wire, n + 1, Len(wire)) = wire
  <2>1. /\ 1 \in Int /\ n \in Int /\ Len(wire) \in Int /\ n >= 0 /\ n <= Len(wire)
        /\ 1 \in 1..(Len(wire) + 1) /\ n \in (1 - 1)..Len(wire) /\ Len(wire) \in n..Len(wire)
    BY <1>3
  <2>2. SubSeq(wire, 1, n) \o SubSeq(wire, n + 1, Len(wire)) = SubSeq(wire, 1, Len(wire))
    BY <1>3, <2>1, ConcatAdjacentSubSeq
  <2>3. QED
    BY <1>3, <2>2, SubSeqFull
<1>5. Flight' = Flight
  <2> DEFINE a == SubSeq(wire, 1, n)
             b == SubSeq(wire, n + 1, Len(wire))
  <2>1. a \in Seq(Message) /\ b \in Seq(Message)
    BY <1>3, SeqFacts
  <2> HIDE DEF a, b
  <2>2. (buf \o a) \o b = buf \o (a \o b)
    BY <1>3, <2>1
  <2>3. QED
    BY <1>2, <1>4, <2>2 DEF Flight, a, b
<1>6. QED
  BY <1>2, <1>5, StillStep

LEMMA DecodeMoves ==
  ASSUME Inv, OInv, Deserialize
  PROVE  OInv'
<1> DEFINE m == Head(buf)
<1>1. /\ st = "Deserialize" /\ buf # <<>> /\ Decode(m) /\ buf' = Tail(buf) /\ wire' = wire
      /\ UNCHANGED <<nextId, dropped>>
  BY DEF Deserialize, srvVars
<1>2. /\ buf \in Seq(Message) /\ wire \in Seq(Message) /\ Flight \in Seq(Message)
      /\ \A t \in Types : Kept(t) \in Seq(Nat) /\ Stored(t) \in Seq(Seq(Nat))
  BY PlaceTypes
<1>3. Flight # <<>> /\ Head(Flight) = m /\ Flight' = Tail(Flight)
  BY <1>1, <1>2 DEF Flight
<1>4. m \in Message
  BY <1>1, <1>2, SeqFacts
<1> HIDE DEF m
<1>5. m.type \in Types => m.id \in Nat
  BY <1>4, MessageFacts DEF Types
<1>6. /\ UNCHANGED outs /\ st' # "Idle"
      /\ data' = IF m.type = "data" THEN Append(data, m.id) ELSE data
      /\ untagged' = IF m.type = "status" THEN Append(untagged, m.id) ELSE untagged
  BY <1>1 DEF Decode, Collected, Fail, sendVars
<1>7. ASSUME NEW t \in Types
      PROVE  /\ Stored(t)' = Stored(t)
             /\ Kept(t)' = IF m.type = t THEN Append(Kept(t), m.id) ELSE Kept(t)
  BY <1>6 DEF Stored, Kept, Types
<1>8. ASSUME NEW t \in Types
      PROVE  /\ Chain(Stored(t)', Kept(t)', IdsIn(Flight', t))
             /\ EveryId(t)' = EveryId(t)
  <2> DEFINE q == IdsIn(Flight, t)
             r == IdsIn(Tail(Flight), t)
  <2>1. Chain(Stored(t), Kept(t), q) /\ Rises(q)
    BY DEF OInv, Chain
  <2>2. /\ Rises(r) /\ (m.type # t => Vals(r) = Vals(q))
        /\ m.type = t => Vals(q) = {m.id} \cup Vals(r) /\ Below({m.id}, Vals(r))
    BY <1>2, <1>3, <2>1, FlightTake
  <2>3. EveryId(t) = Every(Stored(t), Kept(t), q)
        /\ EveryId(t)' = Every(Stored(t)', Kept(t)', r)
    BY <1>3 DEF EveryId
  <2>4. IdsIn(Flight', t) = r
    BY <1>3
  <2> HIDE DEF q, r
  <2>5. CASE m.type = t
    <3>1. m.id \in Nat /\ Kept(t) \in Seq(Nat)
      BY <1>2, <1>5, <2>5
    <3>2. Chain(Stored(t), Append(Kept(t), m.id), r)
          /\ Every(Stored(t), Append(Kept(t), m.id), r) = Every(Stored(t), Kept(t), q)
      BY <2>1, <2>2, <2>5, <3>1, ChainTake
    <3>3. QED
      BY <1>7, <2>3, <2>4, <2>5, <3>2
  <2>6. CASE m.type # t
    BY <1>7, <2>1, <2>2, <2>3, <2>4, <2>6, ChainSame
  <2>7. QED
    BY <2>5, <2>6
<1>9. QED
  BY <1>1, <1>6, <1>8, MoveStep

LEMMA CompleteMoves ==
  ASSUME Inv, OInv, Complete
  PROVE  OInv'
<1> DEFINE o == [x |-> x, tag |-> CHOOSE t \in tag : TRUE, data |-> data,
                 untagged |-> untagged, tagged |-> tagged, bye |-> bye, cr |-> cr]
<1>1. /\ outs' = Append(outs, o) /\ data' = <<>> /\ untagged' = <<>>
      /\ UNCHANGED <<buf, wire, dropped, nextId>>
  BY DEF Complete, netVars, srvVars
<1>2. outs \in Seq(Output) /\ Len(outs) \in Nat
  BY InvImplies DEF TypeOK
<1>3. o.data = data /\ o.untagged = untagged
  OBVIOUS
<1> HIDE DEF o
<1>4. /\ Len(outs') = Len(outs) + 1 /\ outs'[Len(outs) + 1] = o
      /\ \A k \in 1..Len(outs) : outs'[k] = outs[k]
  BY <1>1, <1>2
<1>5. ASSUME NEW t \in Types
      PROVE  /\ Chain(Stored(t)', Kept(t)', IdsIn(Flight', t))
             /\ EveryId(t)' = EveryId(t)
  <2> DEFINE f(k) == IF t = "data" THEN outs'[k].data ELSE outs'[k].untagged
             P == [k \in 1..(Len(outs) + 1) |-> f(k)]
             Q == Append(Stored(t), Kept(t))
  <2>1. Stored(t)' = P
    BY <1>4 DEF Stored
  <2>2. /\ Stored(t) \in Seq(Seq(Nat)) /\ Kept(t) \in Seq(Nat) /\ Len(Stored(t)) = Len(outs)
    BY PlaceTypes
  <2>3. \A k \in 1..(Len(outs) + 1) : f(k) = Q[k]
    <3>1. ASSUME NEW k \in 1..Len(outs)
          PROVE  f(k) = Q[k]
      <4>1. Q[k] = Stored(t)[k]
        BY <2>2
      <4>2. Stored(t)[k] = IF t = "data" THEN outs[k].data ELSE outs[k].untagged
        BY DEF Stored
      <4>3. QED
        BY <1>4, <4>1, <4>2
    <3>2. f(Len(outs) + 1) = Q[Len(outs) + 1]
      BY <1>3, <1>4, <2>2 DEF Kept
    <3>3. \A k \in 1..(Len(outs) + 1) : k \in 1..Len(outs) \/ k = Len(outs) + 1
      BY <1>2
    <3> HIDE DEF f, Q
    <3>4. QED
      BY <3>1, <3>2, <3>3
  <2>4. Q = [k \in 1..(Len(outs) + 1) |-> Q[k]]
    <3>1. Q \in Seq(Seq(Nat)) /\ Len(Q) = Len(outs) + 1
      BY <2>2
    <3> HIDE DEF Q
    <3>2. QED
      BY <3>1
  <2>5. P = Q
    <3> HIDE DEF f, Q
    <3>1. QED
      BY <2>3, <2>4
  <2>6. Kept(t)' = <<>>
    BY <1>1 DEF Kept
  <2>7. Flight' = Flight
    BY <1>1 DEF Flight
  <2>8. Chain(Stored(t), Kept(t), IdsIn(Flight, t))
    BY DEF OInv
  <2>9. Chain(Q, <<>>, IdsIn(Flight, t))
        /\ Every(Q, <<>>, IdsIn(Flight, t)) = Every(Stored(t), Kept(t), IdsIn(Flight, t))
    BY <2>2, <2>8, ChainStore
  <2>10. EveryId(t)' = Every(Stored(t)', Kept(t)', IdsIn(Flight', t))
    BY DEF EveryId
  <2> HIDE DEF P, Q
  <2>11. QED
    BY <2>1, <2>5, <2>6, <2>7, <2>9, <2>10 DEF EveryId
<1>6. QED
  BY <1>1, <1>5, MoveStep

LEMMA AbandonMoves ==
  ASSUME Inv, OInv, Abandon
  PROVE  OInv'
<1>1. /\ data' = <<>> /\ untagged' = <<>>
      /\ dropped' = dropped \cup Vals(data) \cup Vals(untagged)
      /\ UNCHANGED <<outs, buf, wire, nextId>>
  <2>1. data \in Seq(Nat) /\ untagged \in Seq(Nat)
    BY PlaceTypes
  <2>2. DOMAIN data = 1..Len(data) /\ DOMAIN untagged = 1..Len(untagged)
    BY <2>1
  <2>3. QED
    BY <2>2 DEF Abandon, netVars, Vals
<1>2. ASSUME NEW t \in Types
      PROVE  /\ Chain(Stored(t)', Kept(t)', IdsIn(Flight', t))
             /\ EveryId(t)' \cup Vals(Kept(t)) = EveryId(t)
             /\ EveryId(t)' \cap Vals(Kept(t)) = {}
  <2>1. Stored(t)' = Stored(t) /\ Kept(t)' = <<>> /\ Flight' = Flight
    BY <1>1 DEF Stored, Kept, Flight
  <2>2. Chain(Stored(t), Kept(t), IdsIn(Flight, t))
    BY DEF OInv
  <2>3. EveryId(t) \in SUBSET Nat
    <3>1. nextId \in Nat
      BY DEF Inv, SrvTypes
    <3>2. 1..(nextId - 1) \in SUBSET Nat
      BY <3>1
    <3>3. QED
      BY <3>2 DEF OInv, Types
  <2>4. /\ Chain(Stored(t), <<>>, IdsIn(Flight, t))
        /\ Every(Stored(t), <<>>, IdsIn(Flight, t)) \cup Vals(Kept(t)) = EveryId(t)
        /\ Every(Stored(t), <<>>, IdsIn(Flight, t)) \cap Vals(Kept(t)) = {}
    BY <2>2, <2>3, ChainDrop DEF EveryId
  <2>5. EveryId(t)' = Every(Stored(t)', Kept(t)', IdsIn(Flight', t))
    BY DEF EveryId
  <2>6. QED
    BY <2>1, <2>4, <2>5
<1>3. Kept("data") = data /\ Kept("status") = untagged
  BY DEF Kept
<1>4. OInv'
  <2>1. "data" \in Types /\ "status" \in Types
    BY DEF Types
  <2> DEFINE A == EveryId("data")
             B == EveryId("status")
  <2>2. /\ A' \cup Vals(data) = A /\ A' \cap Vals(data) = {}
        /\ B' \cup Vals(untagged) = B /\ B' \cap Vals(untagged) = {}
    BY <1>2, <1>3, <2>1
  <2>3. /\ A \cup B \cup dropped = 1..(nextId - 1) /\ A \cap B = {}
        /\ dropped \cap (A \cup B) = {} /\ nextId >= 1
    BY DEF OInv
  <2> HIDE DEF A, B
  <2>4. /\ A' \cup B' \cup dropped' = 1..(nextId - 1) /\ A' \cap B' = {}
        /\ dropped' \cap (A' \cup B') = {}
    BY <1>1, <2>2, <2>3
  <2>5. QED
    BY <1>1, <1>2, <2>3, <2>4 DEF OInv, A, B
<1>5. QED
  BY <1>4

\* The server sends something that has no number.
LEMMA LastMoves ==
  ASSUME Inv, OInv, NEW m \in Message, m.type \notin Types, wire' = Append(wire, m),
         UNCHANGED <<buf, st, outs, data, untagged, nextId, dropped>>
  PROVE  OInv'
<1>1. /\ buf \in Seq(Message) /\ wire \in Seq(Message) /\ Flight \in Seq(Message)
  BY PlaceTypes
<1>2. Flight' = Append(Flight, m)
  BY <1>1 DEF Flight
<1>3. ASSUME NEW t \in Types
      PROVE  /\ Chain(Stored(t)', Kept(t)', IdsIn(Flight', t))
             /\ EveryId(t)' = EveryId(t)
  <2> DEFINE q == IdsIn(Flight, t)
             r == IdsIn(Append(Flight, m), t)
  <2>1. Stored(t)' = Stored(t) /\ Kept(t)' = Kept(t)
    BY DEF Stored, Kept
  <2>2. Chain(Stored(t), Kept(t), q) /\ Rises(q)
    BY DEF OInv, Chain
  <2>3. Rises(r) /\ Vals(r) = Vals(q)
    <3>1. m.type # t
      OBVIOUS
    <3>2. Rises(r) /\ Vals(r) = Vals(q) \cup (IF m.type = t THEN {m.id} ELSE {})
      BY <1>1, <2>2, <3>1, FlightSend
    <3>3. QED
      BY <3>1, <3>2
  <2>4. EveryId(t) = Every(Stored(t), Kept(t), q) /\ EveryId(t)' = Every(Stored(t)', Kept(t)', r)
        /\ IdsIn(Flight', t) = r
    BY <1>2 DEF EveryId
  <2> HIDE DEF q, r
  <2>5. QED
    BY <2>1, <2>2, <2>3, <2>4, ChainSame
<1>4. QED
  BY <1>3, MoveStep DEF OInv

LEMMA EmitMoves ==
  ASSUME Inv, OInv, NEW m \in Message, m.type \notin Types, Emit(m),
         UNCHANGED <<sendVars, nextId, dropped>>
  PROVE  OInv'
BY LastMoves DEF Emit, sendVars

\* It sends the next one.
LEMMA UntaggedMoves ==
  ASSUME Inv, OInv, NEW type \in Types, SrvUntagged(type)
  PROVE  OInv'
<1> DEFINE m == [type |-> type, id |-> nextId]
<1>1. /\ wire' = Append(wire, m) /\ buf' = buf /\ nextId' = nextId + 1
      /\ UNCHANGED <<st, outs, data, untagged, dropped>>
  BY DEF SrvUntagged, Emit, sendVars
<1>2. /\ buf \in Seq(Message) /\ wire \in Seq(Message) /\ Flight \in Seq(Message)
      /\ nextId \in Nat /\ nextId >= 1
  BY PlaceTypes DEF Inv, SrvTypes, OInv
<1>3. m \in Message /\ m.type = type /\ m.id = nextId
  BY <1>2 DEF Message, Types
<1> HIDE DEF m
<1>4. Flight' = Append(Flight, m)
  BY <1>1, <1>2 DEF Flight
<1>5. \A v \in 1..(nextId - 1) : v < nextId
  BY <1>2
<1>6. ASSUME NEW t \in Types
      PROVE  /\ Chain(Stored(t)', Kept(t)', IdsIn(Flight', t))
             /\ EveryId(t)' = EveryId(t) \cup (IF t = type THEN {nextId} ELSE {})
  <2> DEFINE q == IdsIn(Flight, t)
             r == IdsIn(Append(Flight, m), t)
  <2>1. Stored(t)' = Stored(t) /\ Kept(t)' = Kept(t)
    BY <1>1 DEF Stored, Kept
  <2>2. Chain(Stored(t), Kept(t), q) /\ Rises(q)
    BY DEF OInv, Chain
  <2>3. EveryId(t) = Every(Stored(t), Kept(t), q) /\ EveryId(t)' = Every(Stored(t)', Kept(t)', r)
        /\ IdsIn(Flight', t) = r
    BY <1>4 DEF EveryId
  <2>4. \A v \in EveryId(t) : v < nextId
    BY <1>5 DEF OInv, Types
  <2>5. Below(EveryId(t), {nextId})
    BY <2>4 DEF Below
  <2>6. Vals(q) \subseteq EveryId(t)
    BY <2>3, EveryElement
  <2>7. Below(Vals(q), {m.id})
    BY <1>3, <2>5, <2>6 DEF Below
  <2>8. Rises(r) /\ Vals(r) = Vals(q) \cup (IF m.type = t THEN {m.id} ELSE {})
    BY <1>2, <1>3, <2>2, <2>7, FlightSend
  <2> HIDE DEF q, r
  <2>9. CASE t = type
    <3>1. Vals(r) = Vals(q) \cup {nextId}
      BY <1>3, <2>8, <2>9
    <3>2. Chain(Stored(t), Kept(t), r)
          /\ Every(Stored(t), Kept(t), r) = Every(Stored(t), Kept(t), q) \cup {nextId}
      <4> DEFINE O == Stored(t)
                 c == Kept(t)
                 S == {nextId}
      <4>1. Chain(O, c, q) /\ Below(Every(O, c, q), S)
        BY <2>2, <2>3, <2>5
      <4>2. \A u \in Every(O, c, q), v \in S : u < v
        BY <4>1 DEF Below
      <4>3. Vals(r) = Vals(q) \cup S /\ Rises(r)
        BY <2>8, <3>1
      <4> HIDE DEF O, c, S
      <4>4. Chain(O, c, r) /\ Every(O, c, r) = Every(O, c, q) \cup S
        BY <4>1, <4>2, <4>3, ChainSend
      <4>5. QED
        BY <4>4 DEF O, c, S
    <3>3. QED
      BY <2>1, <2>3, <2>9, <3>2
  <2>10. CASE t # type
    <3>1. Vals(r) = Vals(q)
      BY <1>3, <2>8, <2>10
    <3>2. QED
      BY <2>1, <2>2, <2>3, <2>8, <2>10, <3>1, ChainSame
  <2>11. QED
    BY <2>9, <2>10
<1>7. OInv'
  <2> DEFINE A == EveryId("data")
             B == EveryId("status")
             C == IF type = "data" THEN {nextId} ELSE {}
             D == IF type = "status" THEN {nextId} ELSE {}
  <2>1. A' = A \cup C /\ B' = B \cup D
    BY <1>6 DEF Types
  <2>2. C \cup D = {nextId} /\ C \cap D = {}
    BY DEF Types
  <2>3. /\ A \cup B \cup dropped = 1..(nextId - 1) /\ A \cap B = {}
        /\ dropped \cap (A \cup B) = {}
    BY DEF OInv
  <2>4. nextId \notin 1..(nextId - 1) /\ 1..(nextId' - 1) = 1..(nextId - 1) \cup {nextId}
    BY <1>1, <1>2
  <2>5. nextId' >= 1
    BY <1>1, <1>2
  <2> HIDE DEF A, B, C, D
  <2>6. /\ A' \cup B' \cup dropped' = 1..(nextId' - 1) /\ A' \cap B' = {}
        /\ dropped' \cap (A' \cup B') = {}
    BY <1>1, <2>1, <2>2, <2>3, <2>4
  <2>7. st' = "Idle" => data' = <<>> /\ untagged' = <<>>
    BY <1>1 DEF OInv
  <2>8. QED
    BY <1>6, <2>5, <2>6, <2>7 DEF OInv, A, B
<1>8. QED
  BY <1>7

LEMMA ServerMoves ==
  ASSUME Inv, OInv, SrvAnswer \/ SrvVolunteer
  PROVE  OInv'
<1>1. CASE SrvReceive \/ (\E k \in Ids : SrvNextCommand(k)) \/ SrvClose
  <2>1. UNCHANGED <<st, data, untagged, outs, dropped, nextId, buf, wire>>
    BY <1>1 DEF SrvReceive, SrvNextCommand, SrvClose, sendVars, netVars, srvVars
  <2>2. QED
    BY <2>1, StillStep DEF Flight
<1>2. ASSUME NEW m \in {[type |-> "cr"], [type |-> "skippable"], [type |-> "undecodable"]},
             Emit(m), UNCHANGED <<sendVars, nextId, dropped>>
      PROVE  OInv'
  <2>1. m \in Message /\ m.type \notin Types
    BY DEF Message, Types
  <2>2. QED
    BY <1>2, <2>1, EmitMoves
<1>3. CASE SrvContinue \/ SrvPrompt
  BY <1>2, <1>3 DEF SrvContinue, SrvPrompt
<1>4. ASSUME NEW kind \in Kind, SrvStatus(kind)
      PROVE  OInv'
  <2> DEFINE m == [type |-> "tagged", tag |-> TagOf(srvX), kind |-> kind]
  <2>1. Emit(m) /\ UNCHANGED <<sendVars, nextId, dropped>>
    BY <1>4 DEF SrvStatus
  <2>2. TagOf(srvX) \in Ids
    BY IdFacts DEF Inv, SrvTypes
  <2>3. m \in Message /\ m.type \notin Types
    BY <2>2 DEF Message, Types
  <2> HIDE DEF m
  <2>4. QED
    BY <2>1, <2>3, EmitMoves
<1>5. ASSUME NEW type \in {"data", "status"}, SrvUntagged(type)
      PROVE  OInv'
  BY <1>5, UntaggedMoves DEF Types
<1>6. ASSUME NEW type \in {"skippable", "undecodable"}, SrvGarbage(type)
      PROVE  OInv'
  BY <1>2, <1>6 DEF SrvGarbage
<1>7. CASE SrvBye
  <2> DEFINE m == [type |-> "bye"]
  <2>1. /\ wire' = Append(wire, m) /\ buf' = buf
        /\ UNCHANGED <<st, outs, data, untagged, nextId, dropped>>
    BY <1>7 DEF SrvBye, sendVars, srvVars
  <2>2. m \in Message /\ m.type \notin Types
    BY DEF Message, Types
  <2> HIDE DEF m
  <2>3. QED
    BY <2>1, <2>2, LastMoves
<1>8. QED
  BY <1>1, <1>3, <1>4, <1>5, <1>6, <1>7 DEF SrvAnswer, SrvVolunteer

\* The steps of the client that move none.
LEMMA ClientStill ==
  ASSUME OInv,
         \/ Start \/ AnswerTag \/ AnswerNoTag \/ Serialize \/ ReadEof \/ ResumeLiteral
         \/ ReadMore \/ UNCHANGED vars
  PROVE  OInv'
<1>1. /\ UNCHANGED <<data, untagged, outs, dropped, nextId, buf, wire>>
      /\ st' = "Idle" => st = "Idle"
  <2>1. CASE Start
    <3>1. PICK k \in Ids : StartCommand(k) \/ StartNew(k) \/ StartReceive(k)
      BY <2>1 DEF Start
    <3>2. IsNext(k) /\ Fresh(k)
      BY <3>1 DEF StartCommand, StartNew, StartReceive
    <3>3. st = "Idle"
      BY <3>2 DEF IsNext, Usable
    <3>4. QED
      BY <3>2, <3>3 DEF OInv, Fresh, srvVars
  <2>2. CASE AnswerTag \/ AnswerNoTag \/ ReadEof
    BY <2>2 DEF AnswerTag, AnswerNoTag, ReadEof, Fail, netVars, srvVars
  <2>3. CASE Serialize
    BY <2>3 DEF Serialize, srvVars
  <2>4. CASE ResumeLiteral \/ ReadMore
    BY <2>4 DEF ResumeLiteral, ReadMore, netVars, srvVars
  <2>5. CASE UNCHANGED vars
    BY <2>5 DEF vars, sendVars, netVars, srvVars
  <2>6. QED
    BY <2>1, <2>2, <2>3, <2>4, <2>5
<1>2. QED
  BY <1>1, StillStep DEF Flight

\* At first there is none.
LEMMA OInvInit == Init => OInv
<1> SUFFICES ASSUME Init PROVE OInv
  OBVIOUS
<1>1. ASSUME NEW t \in Types
      PROVE  Len(Stored(t)) = 0 /\ Kept(t) = <<>> /\ DOMAIN IdsIn(Flight, t) = {}
  <2>1. outs = <<>> /\ data = <<>> /\ untagged = <<>> /\ Flight = <<>> /\ Len(Flight) = 0
    BY DEF Init, Flight
  <2>2. Stored(t) = <<>>
    BY <2>1 DEF Stored
  <2>3. QED
    BY <2>1, <2>2 DEF Kept, IdsIn
<1>2. ASSUME NEW t \in Types
      PROVE  Chain(Stored(t), Kept(t), IdsIn(Flight, t)) /\ EveryId(t) = {}
  <2>1. Vals(Kept(t)) = {} /\ Vals(IdsIn(Flight, t)) = {}
        /\ Rises(Kept(t)) /\ Rises(IdsIn(Flight, t))
    BY <1>1 DEF Vals, Rises
  <2>2. \A v : v \notin EveryId(t)
    BY <1>1, <2>1, EveryElement DEF EveryId
  <2>3. QED
    BY <1>1, <2>1, <2>2 DEF Chain, Below
<1>3. nextId = 1 /\ dropped = {} /\ data = <<>> /\ untagged = <<>> /\ 1..(nextId - 1) = {}
  BY DEF Init
<1>4. QED
  BY <1>2, <1>3 DEF OInv, Types

LEMMA OInvStep == Inv /\ OInv /\ [Next]_vars => OInv'
<1> SUFFICES ASSUME Inv, OInv, [Next]_vars PROVE OInv'
  OBVIOUS
<1>1. QED
  BY ClientStill, ReadMoves, DecodeMoves, CompleteMoves, AbandonMoves, ServerMoves DEF Next, Resume

\* What is in flight is in the fragmentizer, then on the wire.
LEMMA FlightSplit ==
  ASSUME NEW a \in Seq(Message), NEW b \in Seq(Message), NEW t \in Types,
         Rises(IdsIn(a \o b, t))
  PROVE  /\ Rises(IdsIn(a, t)) /\ Rises(IdsIn(b, t))
         /\ Below(Vals(IdsIn(a, t)), Vals(IdsIn(b, t)))
         /\ \A v : v \in Vals(IdsIn(a \o b, t)) <=> v \in Vals(IdsIn(a, t)) \/ v \in Vals(IdsIn(b, t))
<1> DEFINE s == a \o b
           n == Len(a)
           m == Len(b)
<1>1. /\ s \in Seq(Message) /\ n \in Nat /\ m \in Nat /\ Len(s) = n + m
      /\ \A i \in 1..n : s[i] = a[i]
      /\ \A i \in 1..m : s[n + i] = b[i]
  <2>1. /\ s \in Seq(Message) /\ Len(s) = n + m
        /\ \A i \in 1..Len(s) : s[i] = IF i <= n THEN a[i] ELSE b[i - n]
    BY ConcatProperties
  <2>2. n \in Nat /\ m \in Nat
    OBVIOUS
  <2> HIDE DEF s, n, m
  <2>3. \A i \in 1..n : i \in 1..Len(s) /\ i <= n
    BY <2>1, <2>2
  <2>4. \A i \in 1..m : n + i \in 1..Len(s) /\ ~(n + i <= n) /\ (n + i) - n = i
    BY <2>1, <2>2
  <2>5. QED
    BY <2>1, <2>2, <2>3, <2>4
<1> HIDE DEF s, n, m
<1>2. /\ \A i \in 1..n : i \in 1..Len(s)
      /\ \A i \in 1..m : n + i \in 1..Len(s)
  BY <1>1
<1>3. \A i \in 1..Len(s) : i \in 1..n \/ \E j \in 1..m : i = n + j
  <2>1. ASSUME NEW i \in 1..Len(s), i \notin 1..n
        PROVE  \E j \in 1..m : i = n + j
    <3>1. i - n \in 1..m /\ i = n + (i - n)
      BY <1>1, <2>1
    <3>2. QED
      BY <3>1
  <2>2. QED
    BY <2>1
<1>4. /\ \A v : v \in Vals(IdsIn(s, t)) <=> \E i \in 1..Len(s) : s[i].type = t /\ v = s[i].id
      /\ \A v : v \in Vals(IdsIn(a, t)) <=> \E i \in 1..n : a[i].type = t /\ v = a[i].id
      /\ \A v : v \in Vals(IdsIn(b, t)) <=> \E i \in 1..m : b[i].type = t /\ v = b[i].id
  BY <1>1, InFlight DEF n, m
<1>5. \A i, j \in 1..Len(s) : s[i].type = t /\ s[j].type = t /\ i < j => s[i].id < s[j].id
  BY <1>1, InFlight DEF s
<1>6. ASSUME NEW i \in 1..n, NEW j \in 1..n, a[i].type = t, a[j].type = t, i < j
      PROVE  a[i].id < a[j].id
  BY <1>1, <1>2, <1>5, <1>6
<1>7. ASSUME NEW i \in 1..m, NEW j \in 1..m, b[i].type = t, b[j].type = t, i < j
      PROVE  b[i].id < b[j].id
  <2>1. n + i < n + j
    BY <1>1, <1>7
  <2>2. QED
    BY <1>1, <1>2, <1>5, <1>7, <2>1
<1>8. ASSUME NEW i \in 1..n, NEW j \in 1..m, a[i].type = t, b[j].type = t
      PROVE  a[i].id < b[j].id
  <2>1. i < n + j
    BY <1>1
  <2>2. QED
    BY <1>1, <1>2, <1>5, <1>8, <2>1
<1>9. Rises(IdsIn(a, t)) /\ Rises(IdsIn(b, t))
  BY <1>6, <1>7, InFlight DEF n, m
<1>10. Below(Vals(IdsIn(a, t)), Vals(IdsIn(b, t)))
  BY <1>4, <1>8 DEF Below
<1>11. ASSUME NEW v
       PROVE  v \in Vals(IdsIn(s, t)) <=> v \in Vals(IdsIn(a, t)) \/ v \in Vals(IdsIn(b, t))
  <2>1. ASSUME v \in Vals(IdsIn(s, t))
        PROVE  v \in Vals(IdsIn(a, t)) \/ v \in Vals(IdsIn(b, t))
    <3>1. PICK i \in 1..Len(s) : s[i].type = t /\ v = s[i].id
      BY <1>4, <2>1
    <3>2. CASE i \in 1..n
      BY <1>1, <1>4, <3>1, <3>2
    <3>3. CASE \E j \in 1..m : i = n + j
      <4>1. PICK j \in 1..m : i = n + j
        BY <3>3
      <4>2. b[j] = s[i]
        BY <1>1, <4>1
      <4>3. QED
        BY <1>4, <3>1, <4>2
    <3>4. QED
      BY <1>3, <3>2, <3>3
  <2>2. ASSUME v \in Vals(IdsIn(a, t))
        PROVE  v \in Vals(IdsIn(s, t))
    <3>1. PICK i \in 1..n : a[i].type = t /\ v = a[i].id
      BY <1>4, <2>2
    <3>2. QED
      BY <1>1, <1>2, <1>4, <3>1
  <2>3. ASSUME v \in Vals(IdsIn(b, t))
        PROVE  v \in Vals(IdsIn(s, t))
    <3>1. PICK i \in 1..m : b[i].type = t /\ v = b[i].id
      BY <1>4, <2>3
    <3>2. s[n + i] = b[i] /\ n + i \in 1..Len(s)
      BY <1>1, <1>2
    <3>3. QED
      BY <1>4, <3>1, <3>2
  <2>4. QED
    BY <2>1, <2>2, <2>3
<1>12. QED
  BY <1>9, <1>10, <1>11 DEF s

\* The places, one by one.
LEMMA PlacesAre ==
  ASSUME Inv, NEW t \in Types
  PROVE  LET n == Len(Stored(t))
             P == Places(t)
         IN  /\ n \in Nat /\ Len(P) = n + 3
             /\ \A k \in 1..n : P[k] = Stored(t)[k]
             /\ P[n + 1] = Kept(t)
             /\ P[n + 2] = IdsIn(buf, t) /\ P[n + 3] = IdsIn(wire, t)
<1> DEFINE O == Stored(t)
           c == Kept(t)
           f == IdsIn(buf, t)
           g == IdsIn(wire, t)
           S == Seq(Nat) \cup {f, g}
           n == Len(O)
           P == O \o <<c, f, g>>
<1>1. O \in Seq(Seq(Nat)) /\ c \in Seq(Nat)
  BY PlaceTypes
<1> HIDE DEF O, c, f, g
<1>2. Seq(Nat) \subseteq S /\ c \in S /\ f \in S /\ g \in S
  BY <1>1
<1> HIDE DEF S
<1>3. O \in Seq(S) /\ n \in Nat
  BY <1>1, <1>2
<1>4. /\ <<c, f, g>> \in Seq(S) /\ Len(<<c, f, g>>) = 3
      /\ <<c, f, g>>[1] = c /\ <<c, f, g>>[2] = f /\ <<c, f, g>>[3] = g
  BY <1>2
<1> DEFINE e == <<c, f, g>>
<1> HIDE DEF e
<1>5. /\ Len(O \o e) = n + 3
      /\ \A i \in 1..(n + 3) : (O \o e)[i] = IF i <= n THEN O[i] ELSE e[i - n]
  <2>1. e \in Seq(S) /\ Len(e) = 3
    BY <1>4 DEF e
  <2>2. /\ Len(O \o e) = Len(O) + Len(e)
        /\ \A i \in 1..(Len(O) + Len(e)) :
             (O \o e)[i] = IF i <= Len(O) THEN O[i] ELSE e[i - Len(O)]
    <3> HIDE DEF n
    <3>1. O \in Seq(S) /\ e \in Seq(S)
      BY <1>3, <2>1
    <3>2. QED
      BY <3>1, ConcatProperties
  <2>3. QED
    BY <2>1, <2>2
<1>6. P = O \o e
  BY DEF e
<1> HIDE DEF P
<1>7. /\ \A k \in 1..n : k \in 1..(n + 3) /\ k <= n
      /\ n + 1 \in 1..(n + 3) /\ ~(n + 1 <= n) /\ (n + 1) - n = 1
      /\ n + 2 \in 1..(n + 3) /\ ~(n + 2 <= n) /\ (n + 2) - n = 2
      /\ n + 3 \in 1..(n + 3) /\ ~(n + 3 <= n) /\ (n + 3) - n = 3
  BY <1>3
<1>8. e[1] = c /\ e[2] = f /\ e[3] = g
  BY <1>4 DEF e
<1> HIDE DEF n
<1>9. /\ Len(P) = n + 3 /\ \A k \in 1..n : P[k] = O[k]
      /\ P[n + 1] = c /\ P[n + 2] = f /\ P[n + 3] = g
  BY <1>5, <1>6, <1>7, <1>8
<1>10. Places(t) = P
  BY DEF Places, P, O, c, f, g
<1>11. QED
  BY <1>3, <1>9, <1>10 DEF O, c, f, g, n

\* Each place is in order, and each one is before the next ones.
LEMMA PlacesInOrder ==
  ASSUME Inv, OInv, NEW t \in Types
  PROVE  InOrder(Places(t)) /\ Found(Places(t)) = EveryId(t)
<1> DEFINE O == Stored(t)
           c == Kept(t)
           q == IdsIn(Flight, t)
           f == IdsIn(buf, t)
           g == IdsIn(wire, t)
           n == Len(O)
           P == Places(t)
<1>1. /\ n \in Nat /\ Len(P) = n + 3
      /\ \A k \in 1..n : P[k] = O[k]
      /\ P[n + 1] = c /\ P[n + 2] = f /\ P[n + 3] = g
  BY PlacesAre
<1>2. Chain(O, c, q) /\ Rises(q)
  BY DEF OInv, Chain
<1>3. /\ Rises(f) /\ Rises(g) /\ Below(Vals(f), Vals(g))
      /\ \A v : v \in Vals(q) <=> v \in Vals(f) \/ v \in Vals(g)
  <2>1. buf \in Seq(Message) /\ wire \in Seq(Message)
    BY PlaceTypes
  <2>2. Rises(IdsIn(buf \o wire, t))
    BY <1>2 DEF Flight
  <2>3. QED
    BY <2>1, <2>2, FlightSplit DEF Flight
<1>4. EveryId(t) = Every(O, c, q)
  BY DEF EveryId
<1> HIDE DEF O, c, q, f, g, P
<1>5. \A k \in 1..Len(P) : k \in 1..n \/ k = n + 1 \/ k = n + 2 \/ k = n + 3
  BY <1>1
<1> HIDE DEF n
<1>6. ASSUME NEW k \in 1..Len(P)
      PROVE  Rises(P[k])
  BY <1>1, <1>2, <1>3, <1>5 DEF n, Chain
<1>7. /\ Below(Vals(c), Vals(f)) /\ Below(Vals(c), Vals(g))
      /\ \A k \in 1..n : Below(Vals(O[k]), Vals(c)) /\ Below(Vals(O[k]), Vals(f))
                         /\ Below(Vals(O[k]), Vals(g))
      /\ \A k, l \in 1..n : k < l => Below(Vals(O[k]), Vals(O[l]))
  BY <1>2, <1>3 DEF n, Chain, Below
<1>8. ASSUME NEW k \in 1..Len(P), NEW l \in 1..Len(P), k < l
      PROVE  Below(Vals(P[k]), Vals(P[l]))
  <2>1. CASE k \in 1..n
    <3>1. CASE l \in 1..n
      BY <1>1, <1>7, <1>8, <2>1, <3>1
    <3>2. CASE l \in {n + 1, n + 2, n + 3}
      BY <1>1, <1>7, <2>1, <3>2
    <3>3. QED
      BY <1>5, <3>1, <3>2
  <2>2. CASE k = n + 1
    <3>1. l = n + 2 \/ l = n + 3
      BY <1>1, <1>5, <1>8, <2>2
    <3>2. QED
      BY <1>1, <1>7, <2>2, <3>1
  <2>3. CASE k = n + 2 \/ k = n + 3
    <3>1. k = n + 2 /\ l = n + 3
      BY <1>1, <1>5, <1>8, <2>3
    <3>2. QED
      BY <1>1, <1>3, <3>1
  <2>4. QED
    BY <1>5, <2>1, <2>2, <2>3
<1>9. InOrder(P)
  <2>1. ASSUME NEW k \in 1..Len(P), NEW l \in 1..Len(P), NEW i \in DOMAIN P[k], NEW j \in DOMAIN P[l],
               k < l \/ (k = l /\ i < j)
        PROVE  P[k][i] < P[l][j]
    <3>1. P[k][i] \in Vals(P[k]) /\ P[l][j] \in Vals(P[l])
      BY DEF Vals
    <3>2. CASE k < l
      BY <1>8, <3>1, <3>2 DEF Below
    <3>3. CASE k = l /\ i < j
      BY <1>6, <3>3 DEF Rises
    <3>4. QED
      BY <2>1, <3>2, <3>3
  <2>2. QED
    BY <2>1 DEF InOrder
<1>10. ASSUME NEW v
       PROVE  v \in Found(P) <=> v \in EveryId(t)
  <2>1. v \in Found(P) <=> \E k \in 1..Len(P) : v \in Vals(P[k])
    BY DEF Found, Vals
  <2>2. v \in EveryId(t) <=>
          (\E k \in 1..n : v \in Vals(O[k])) \/ v \in Vals(c) \/ v \in Vals(f) \/ v \in Vals(g)
    <3>1. v \in Every(O, c, q) <=>
            (\E k \in 1..n : v \in Vals(O[k])) \/ v \in Vals(c) \/ v \in Vals(q)
      BY EveryElement DEF n
    <3>2. QED
      BY <1>3, <1>4, <3>1
  <2>3. (\A k \in 1..n : k \in 1..Len(P)) /\ n + 1 \in 1..Len(P) /\ n + 2 \in 1..Len(P)
        /\ n + 3 \in 1..Len(P)
    BY <1>1
  <2>4. ASSUME NEW k \in 1..Len(P), v \in Vals(P[k])
        PROVE  v \in EveryId(t)
    BY <1>1, <1>5, <2>2, <2>4
  <2>5. ASSUME v \in EveryId(t)
        PROVE  \E k \in 1..Len(P) : v \in Vals(P[k])
    BY <1>1, <2>2, <2>3, <2>5
  <2>6. QED
    BY <2>1, <2>4, <2>5
<1>11. Found(P) = EveryId(t)
  BY <1>10
<1>12. QED
  BY <1>9, <1>11 DEF P

(* No untagged response is lost, doubled or reordered between the server   *)
(* and the outputs, however the network splits what it sends, whichever    *)
(* exchange reads it and whichever is abandoned (send.rs:261-266, 325-336).*)
THEOREM UntaggedKeepOrder == Spec => []UntaggedInOrder
<1>1. Inv /\ OInv => UntaggedInOrder
  BY PlacesInOrder DEF OInv, UntaggedInOrder, Types
<1>2. Spec => [](Inv /\ OInv)
  BY InvInit, InvStep, OInvInit, OInvStep, PTL DEF Spec
<1>3. QED
  BY <1>1, <1>2, PTL
=============================================================================
