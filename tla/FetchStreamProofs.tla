-------------------------- MODULE FetchStreamProofs --------------------------
(***************************************************************************)
(* Proof that a streamed FETCH hands each sink the octets of its body and  *)
(* no other, however the reads split them, for any bodies, any limits and  *)
(* any plan of the server, and of how it ends (second half).               *)
(*                                                                         *)
(* The server's octets are described by what follows what: an octet of a   *)
(* body by the next one, the last one by a line, a header by the body it   *)
(* announces (Follows).  Reads, cuts and lines taken off keep that, since  *)
(* they leave a stretch of the same octets.  What the coroutine knows is   *)
(* then the octet that comes first (AtLine, InBody).                       *)
(***************************************************************************)
EXTENDS FetchStream, SequenceTheorems, WellFoundedInduction, TLAPS

\* The octets of the server, by their place.
Start(l) == [of |-> l, nl |-> FALSE]
Stop(l) == [of |-> l, nl |-> TRUE]
InBodyAt(m, i) == [msg |-> m, pos |-> i, nl |-> Bodies[m][i]]
Size(m) == Len(Bodies[m])

\* The lines the server writes: a UID, if there is one, is that of the message.
Written == {l \in Line : l.type = "header" => l.uid \in {0, l.msg}}
Announcing == {l \in Written : l.type = "header" /\ Size(l.msg) > 0}

\* Octets before and after which there is no body.
Opening == {Start(l) : l \in Written} \cup {Stop(Other)}
Closing == {Stop(l) : l \in Written \ Announcing}
             \cup {InBodyAt(m, Size(m)) : m \in {k \in Messages : Size(k) > 0}}

Follows(a, b) ==
  /\ \A l \in Written : a = Start(l) => b = Stop(l) \/ (l = Other /\ b = Start(l))
  /\ \A l \in Announcing : a = Stop(l) => b = InBodyAt(l.msg, 1)
  /\ \A m \in Messages : \A i \in 1..(Size(m) - 1) :
       a = InBodyAt(m, i) => b = InBodyAt(m, i + 1)
  /\ a \in Closing => b \in Opening

Chained(s) == \A i \in 1..(Len(s) - 1) : Follows(s[i], s[i + 1])

\* The octets the server sent that no line or body was made of.
Rest == pending \o wire
InStep == plan.stale # "literal"

Chain == InStep => Chained(Rest)

\* Where a line is expected, one begins.
AtLine ==
  InStep /\ st \notin {"Stream", "Done"} =>
    /\ literal = 0
    /\ Rest # <<>> => Rest[1] \in Opening
    /\ \/ raw = <<>>
       \/ raw = <<Start(Other)>> /\ (Rest # <<>> => Rest[1] = Stop(Other))

\* Within a body, the next octet of it comes, and the sink has those before.
InBody ==
  st = "Stream" =>
    /\ InStep /\ raw = <<>>
    /\ current \in Messages /\ remaining \in 0..Size(current)
    /\ sink = SubSeq(BodyOctets(current), 1, Size(current) - remaining)
    /\ Rest # <<>> =>
         IF remaining > 0 THEN Rest[1] = InBodyAt(current, Size(current) - remaining + 1)
         ELSE Rest[1] \in Opening

Waits == streamPending => st = "Stream" /\ pending = <<>> /\ remaining > 0

\* The rest of a literal of the command before: the fragmentizer is a line
\* behind from then on, and the late completion ends the fetch.
StaleScript == StaleLiteral \o LineOctets(Other) \o LineOctets(Tagged(FALSE, TRUE))
Behind(k) ==
  /\ literal = IF k < 2 THEN 2 ELSE 0
  /\ raw = CASE k = 0 -> <<>>
             [] k = 1 -> SubSeq(StaleScript, 1, 1)
             [] k = 4 -> LineOctets(Other)
             [] k = 6 -> LineOctets(Tagged(FALSE, TRUE))
  /\ \A i \in 1..Len(Rest) : i + k <= 6 => Rest[i] = StaleScript[i + k]

Lagging ==
  ~InStep => /\ st \in {"SendCommand", FirstState, "Done"}
             /\ st # "Done" => \E k \in {0, 1, 4, 6} : Behind(k)

FInv == TypeOK /\ ScanSound /\ Chain /\ AtLine /\ InBody /\ Waits /\ Lagging /\ BodiesExact
-----------------------------------------------------------------------------
(* Sequences.                                                              *)

\* A set of numbers has a least one.
LEMMA Least ==
  ASSUME NEW S \in SUBSET Nat, S # {}
  PROVE  \E i \in S : \A j \in S : i <= j
<1>1. PICK i \in S : \A j \in S : ~(<<j, i>> \in OpToRel(<, Nat))
  BY WFMin, NatLessThanWellFounded, Zenon
<1>2. \A j \in S : ~(j < i)
  BY <1>1 DEF OpToRel
<1>3. i \in Nat /\ \A j \in S : j \in Nat
  OBVIOUS
<1>4. \A j \in S : i <= j
  BY <1>2, <1>3
<1> QED
  BY <1>4

\* A stretch of a sequence.
LEMMA Stretch ==
  ASSUME NEW S, NEW s \in Seq(S), NEW m \in Nat \ {0}, NEW n \in 0..Len(s)
  PROVE  /\ SubSeq(s, m, n) \in Seq(S)
         /\ Len(SubSeq(s, m, n)) = IF m <= n THEN n - m + 1 ELSE 0
         /\ \A i \in 1..(n - m + 1) : SubSeq(s, m, n)[i] = s[m + i - 1]
<1>1. Len(s) \in Nat /\ \A i \in m..n : s[i] \in S
  BY LenProperties, ElementOfSeq
<1> QED
  BY <1>1, SubSeqProperties

\* t is a stretch of s that leaves out the first k.
Within(t, s, k) ==
  /\ t \in Seq(Octet) /\ s \in Seq(Octet)
  /\ Len(t) + k <= Len(s)
  /\ \A i \in 1..Len(t) : t[i] = s[i + k]

LEMMA ChainedWithin ==
  ASSUME NEW s, NEW t, NEW k \in Nat, Within(t, s, k), Chained(s)
  PROVE  Chained(t)
<1>1. Len(s) \in Nat /\ Len(t) \in Nat
  BY LenProperties DEF Within
<1> QED
  BY <1>1 DEF Within, Chained

\* What a read, a cut or a line taken off leaves.
LEMMA Remains ==
  ASSUME NEW p \in Seq(Octet), NEW w \in Seq(Octet),
         NEW e \in 0..Len(p), NEW n \in 0..Len(w)
  PROVE  Within(SubSeq(p, e + 1, Len(p)) \o SubSeq(w, 1, n), p \o w, e)
<1> DEFINE a == SubSeq(p, e + 1, Len(p))
<1> DEFINE b == SubSeq(w, 1, n)
<1>1. Len(p) \in Nat /\ Len(w) \in Nat
  BY LenProperties
<1>2. /\ a \in Seq(Octet) /\ Len(a) = Len(p) - e
      /\ \A i \in 1..(Len(p) - e) : a[i] = p[e + i]
  BY <1>1, Stretch
<1>3. /\ b \in Seq(Octet) /\ Len(b) = n
      /\ \A i \in 1..n : b[i] = w[i]
  BY <1>1, Stretch
<1>4. /\ p \o w \in Seq(Octet) /\ Len(p \o w) = Len(p) + Len(w)
      /\ \A i \in 1..(Len(p) + Len(w)) :
           (p \o w)[i] = IF i <= Len(p) THEN p[i] ELSE w[i - Len(p)]
  BY ConcatProperties
<1> HIDE DEF a, b
<1>5. /\ a \o b \in Seq(Octet) /\ Len(a \o b) = Len(a) + Len(b)
      /\ \A i \in 1..(Len(a) + Len(b)) :
           (a \o b)[i] = IF i <= Len(a) THEN a[i] ELSE b[i - Len(a)]
  BY <1>2, <1>3, ConcatProperties
<1>6. ASSUME NEW i \in 1..(Len(p) - e + n)
      PROVE  (a \o b)[i] = (p \o w)[i + e]
  <2>1. i \in Nat /\ e \in Nat /\ n \in Nat
    BY <1>1
  <2>2. CASE i <= Len(p) - e
    BY <2>1, <2>2, <1>1, <1>2, <1>3, <1>4, <1>5
  <2>3. CASE ~(i <= Len(p) - e)
    BY <2>1, <2>3, <1>1, <1>2, <1>3, <1>4, <1>5, SMTT(20)
  <2> QED
    BY <2>2, <2>3
<1>7. Within(a \o b, p \o w, e)
  BY <1>1, <1>2, <1>3, <1>4, <1>5, <1>6 DEF Within
<1> QED
  BY <1>7 DEF a, b

\* A read moves octets from the wire to those read.
LEMMA Rejoined ==
  ASSUME NEW p \in Seq(Octet), NEW w \in Seq(Octet), NEW n \in 0..Len(w)
  PROVE  (p \o SubSeq(w, 1, n)) \o SubSeq(w, n + 1, Len(w)) = p \o w
<1> DEFINE a == SubSeq(w, 1, n)
<1> DEFINE b == SubSeq(w, n + 1, Len(w))
<1>1. Len(w) \in Nat
  BY LenProperties
<1>2. a \in Seq(Octet) /\ b \in Seq(Octet)
  BY <1>1, Stretch
<1>3. a \o b = w
  <2>1. a \o b = SubSeq(w, 1, Len(w))
    <3>1. 1 \in 1..(Len(w) + 1) /\ n \in (1 - 1)..Len(w) /\ Len(w) \in n..Len(w)
      BY <1>1
    <3> QED
      BY <3>1, ConcatAdjacentSubSeq
  <2> QED
    BY <2>1, SubSeqFull
<1> HIDE DEF a, b
<1>4. (p \o a) \o b = p \o (a \o b)
  BY <1>2, ConcatAssociative
<1> QED
  BY <1>3, <1>4 DEF a, b

-----------------------------------------------------------------------------
(* Octets.                                                                 *)

\* The place of an octet is told by the octet.
LEMMA Distinct ==
  /\ \A l, k : Start(l) = Start(k) => l = k
  /\ \A l, k : Stop(l) = Stop(k) => l = k
  /\ \A l, k : Start(l) # Stop(k)
  /\ \A l, m, i : Start(l) # InBodyAt(m, i) /\ Stop(l) # InBodyAt(m, i)
  /\ \A m, n, i, j : InBodyAt(m, i) = InBodyAt(n, j) => m = n /\ i = j
<1>1. \A l, k : (Start(l) = Start(k) => l = k) /\ (Stop(l) = Stop(k) => l = k)
  <2> SUFFICES ASSUME NEW l, NEW k
               PROVE  (Start(l) = Start(k) => l = k) /\ (Stop(l) = Stop(k) => l = k)
    OBVIOUS
  <2>1. Start(l).of = l /\ Start(k).of = k /\ Stop(l).of = l /\ Stop(k).of = k
    BY DEF Start, Stop
  <2> QED
    BY <2>1, Zenon
<1>2. \A l, k : Start(l) # Stop(k)
  <2>1. \A l : Start(l).nl = FALSE /\ Stop(l).nl = TRUE
    BY DEF Start, Stop
  <2> QED
    BY <2>1, Zenon
<1>3. \A l, m, i : Start(l) # InBodyAt(m, i) /\ Stop(l) # InBodyAt(m, i)
  <2>1. \A l : DOMAIN Start(l) = {"of", "nl"} /\ DOMAIN Stop(l) = {"of", "nl"}
    BY DEF Start, Stop
  <2>2. \A m, i : DOMAIN InBodyAt(m, i) = {"msg", "pos", "nl"}
    BY DEF InBodyAt
  <2>3. {"of", "nl"} # {"msg", "pos", "nl"}
    OBVIOUS
  <2>4. ASSUME NEW o, NEW l, NEW m, NEW i, o = Start(l) \/ o = Stop(l), o = InBodyAt(m, i)
        PROVE  FALSE
    <3>1. DOMAIN o = {"of", "nl"}
      BY <2>1, <2>4
    <3>2. DOMAIN o = {"msg", "pos", "nl"}
      BY <2>2, <2>4
    <3> QED
      BY <3>1, <3>2, <2>3
  <2> QED
    BY <2>4, Zenon
<1>4. \A m, n, i, j : InBodyAt(m, i) = InBodyAt(n, j) => m = n /\ i = j
  <2> SUFFICES ASSUME NEW m, NEW n, NEW i, NEW j, InBodyAt(m, i) = InBodyAt(n, j)
               PROVE  m = n /\ i = j
    OBVIOUS
  <2>1. /\ InBodyAt(m, i).msg = m /\ InBodyAt(m, i).pos = i
        /\ InBodyAt(n, j).msg = n /\ InBodyAt(n, j).pos = j
    BY DEF InBodyAt
  <2> QED
    BY <2>1
<1> QED
  BY <1>1, <1>2, <1>3, <1>4

LEMMA Sizes ==
  /\ Len(Bodies) \in Nat
  /\ \A m \in Messages : /\ Bodies[m] \in Seq(BOOLEAN) /\ Size(m) \in Nat
                         /\ \A i \in 1..Size(m) : Bodies[m][i] \in BOOLEAN
<1>1. Bodies \in Seq(Seq(BOOLEAN))
  BY BodiesAssumption
<1>2. \A m \in Messages : Bodies[m] \in Seq(BOOLEAN)
  BY <1>1, ElementOfSeq DEF Messages
<1> QED
  BY <1>1, <1>2, LenProperties, ElementOfSeq DEF Size

\* The lines and octets of the server.
LEMMA LineTypes ==
  /\ Other \in Written \ Announcing /\ Bye \in Written \ Announcing
  /\ \A own, ok \in BOOLEAN : Tagged(own, ok) \in Written \ Announcing
  /\ \A m \in Messages : \A named \in BOOLEAN :
       /\ Header(m, named) \in Written
       /\ Header(m, named).type = "header" /\ Header(m, named).msg = m
  /\ Other.type = "other" /\ Bye.type = "bye"
  /\ \A own, ok : Tagged(own, ok).type = "tagged"
<1>1. Other \in Line /\ Other.type = "other" /\ Bye \in Line /\ Bye.type = "bye"
  BY DEF Other, Bye, Line
<1>2. \A own, ok : Tagged(own, ok).type = "tagged"
  BY DEF Tagged
<1>3. \A own, ok \in BOOLEAN : Tagged(own, ok) \in Line
  BY DEF Tagged, Line
<1>4. ASSUME NEW m \in Messages, NEW named \in BOOLEAN
      PROVE  /\ Header(m, named) \in Line /\ Header(m, named).type = "header"
             /\ Header(m, named).msg = m /\ Header(m, named).uid \in {0, m}
  BY Sizes DEF Header, Line, Messages
<1> QED
  BY <1>1, <1>2, <1>3, <1>4 DEF Written, Announcing

LEMMA OctetTypes ==
  /\ \A l \in Line : Start(l) \in Octet /\ Stop(l) \in Octet
  /\ \A m \in Messages : \A i \in 1..Size(m) : InBodyAt(m, i) \in Octet
  /\ \A m \in Messages : /\ BodyOctets(m) \in Seq(Octet) /\ Len(BodyOctets(m)) = Size(m)
                         /\ \A i \in 1..Size(m) : BodyOctets(m)[i] = InBodyAt(m, i)
<1>1. \A l \in Line : Start(l) \in Octet /\ Stop(l) \in Octet
  BY DEF Start, Stop, Octet
<1>2. \A m \in Messages : \A i \in 1..Size(m) : InBodyAt(m, i) \in Octet
  BY Sizes DEF InBodyAt, Octet, Messages
<1>3. ASSUME NEW m \in Messages
      PROVE  /\ BodyOctets(m) \in Seq(Octet) /\ Len(BodyOctets(m)) = Size(m)
             /\ \A i \in 1..Size(m) : BodyOctets(m)[i] = InBodyAt(m, i)
  <2>1. BodyOctets(m) = [i \in 1..Size(m) |-> InBodyAt(m, i)]
    BY DEF BodyOctets, Size, InBodyAt
  <2>2. \A i \in 1..Size(m) : InBodyAt(m, i) \in Octet
    BY <1>2
  <2> DEFINE s == [i \in 1..Size(m) |-> InBodyAt(m, i)]
  <2>3. s \in [1..Size(m) -> Octet] /\ Size(m) \in Nat /\ DOMAIN s = 1..Size(m)
    BY <2>2, Sizes
  <2>4. s \in Seq(Octet) /\ Len(s) = Size(m)
    BY <2>3
  <2>5. \A i \in 1..Size(m) : s[i] = InBodyAt(m, i)
    OBVIOUS
  <2> QED
    BY <2>1, <2>4, <2>5, Zenon
<1> QED
  BY <1>1, <1>2, <1>3

\* What may follow what.
LEMMA Successors ==
  /\ \A a \in Closing : \A b \in Opening : Follows(a, b)
  /\ \A l \in Written : Follows(Start(l), Stop(l))
  /\ Follows(Start(Other), Start(Other))
  /\ \A l \in Announcing : Follows(Stop(l), InBodyAt(l.msg, 1))
  /\ \A m \in Messages : \A i \in 1..(Size(m) - 1) : Follows(InBodyAt(m, i), InBodyAt(m, i + 1))
<1>1. ASSUME NEW a \in Closing, NEW b \in Opening
      PROVE  Follows(a, b)
  <2>1. CASE \E l \in Written \ Announcing : a = Stop(l)
    BY <2>1, Distinct DEF Follows, Announcing
  <2>2. CASE \E m \in Messages : Size(m) > 0 /\ a = InBodyAt(m, Size(m))
    BY <2>2, Distinct, Sizes DEF Follows
  <2> QED
    BY <2>1, <2>2 DEF Closing
<1>2. \A l : Start(l) \notin Closing
  BY Distinct DEF Closing
<1>3. \A l \in Written : Follows(Start(l), Stop(l))
  BY <1>2, Distinct DEF Follows
<1>4. Follows(Start(Other), Start(Other))
  BY <1>2, Distinct DEF Follows
<1>5. ASSUME NEW l \in Announcing
      PROVE  Follows(Stop(l), InBodyAt(l.msg, 1))
  <2>1. Stop(l) \notin Closing
    BY Distinct DEF Closing
  <2> QED
    BY <2>1, Distinct DEF Follows
<1>6. ASSUME NEW m \in Messages, NEW i \in 1..(Size(m) - 1)
      PROVE  Follows(InBodyAt(m, i), InBodyAt(m, i + 1))
  <2>1. i # Size(m)
    BY Sizes
  <2>2. InBodyAt(m, i) \notin Closing
    <3>1. \A l : InBodyAt(m, i) # Stop(l)
      BY Distinct
    <3>2. \A k \in Messages : InBodyAt(m, i) # InBodyAt(k, Size(k))
      BY <2>1, Distinct
    <3> QED
      BY <3>1, <3>2 DEF Closing
  <2>3. \A k \in Messages : \A j \in 1..(Size(k) - 1) :
          InBodyAt(m, i) = InBodyAt(k, j) => InBodyAt(m, i + 1) = InBodyAt(k, j + 1)
    BY Distinct
  <2> QED
    BY <2>2, <2>3, Distinct DEF Follows
<1> QED
  BY <1>1, <1>3, <1>4, <1>5, <1>6

-----------------------------------------------------------------------------
(* What the server sends.                                                  *)

\* A piece of the script that begins and ends between lines and bodies.
Whole(s) ==
  /\ s \in Seq(Octet) /\ Chained(s)
  /\ s # <<>> => s[1] \in Opening /\ s[Len(s)] \in Closing

LEMMA WholeConcat ==
  ASSUME NEW s, NEW t, Whole(s), Whole(t)
  PROVE  Whole(s \o t)
<1>1. /\ s \in Seq(Octet) /\ t \in Seq(Octet) /\ Len(s) \in Nat /\ Len(t) \in Nat
      /\ s # <<>> => Len(s) > 0
      /\ t # <<>> => Len(t) > 0
  BY LenProperties, EmptySeq DEF Whole
<1>2. /\ s \o t \in Seq(Octet) /\ Len(s \o t) = Len(s) + Len(t)
      /\ \A i \in 1..(Len(s) + Len(t)) : (s \o t)[i] = IF i <= Len(s) THEN s[i] ELSE t[i - Len(s)]
  BY <1>1, ConcatProperties
<1>3. CASE s = <<>> \/ t = <<>>
  <2>1. s \o t = s \/ s \o t = t
    BY <1>1, <1>3, ConcatEmptySeq
  <2> QED
    BY <2>1
<1>4. CASE s # <<>> /\ t # <<>>
  <2>1. s[1] \in Opening /\ s[Len(s)] \in Closing /\ t[1] \in Opening /\ t[Len(t)] \in Closing
    BY <1>4 DEF Whole
  <2>2. (s \o t)[1] = s[1] /\ (s \o t)[Len(s \o t)] = t[Len(t)] /\ s \o t # <<>>
    <3>1. 1 <= Len(s) /\ ~(Len(s) + Len(t) <= Len(s)) /\ Len(s) + Len(t) - Len(s) = Len(t)
          /\ 1 \in 1..(Len(s) + Len(t)) /\ Len(s) + Len(t) \in 1..(Len(s) + Len(t))
      BY <1>1, <1>4
    <3>2. (s \o t)[1] = s[1] /\ (s \o t)[Len(s) + Len(t)] = t[Len(t)]
      BY <3>1, <1>2
    <3> QED
      BY <3>1, <3>2, <1>1, <1>2, <1>4, ConcatEqualIffEmpty
  <2>3. ASSUME NEW i \in 1..(Len(s \o t) - 1)
        PROVE  Follows((s \o t)[i], (s \o t)[i + 1])
    <3>1. /\ i \in 1..(Len(s) + Len(t)) /\ i + 1 \in 1..(Len(s) + Len(t)) /\ i \in Nat
      BY <1>1, <1>2
    <3>2. CASE i < Len(s)
      <4>1. (s \o t)[i] = s[i] /\ (s \o t)[i + 1] = s[i + 1] /\ i \in 1..(Len(s) - 1)
        BY <3>1, <3>2, <1>1, <1>2
      <4> QED
        BY <4>1 DEF Whole, Chained
    <3>3. CASE i = Len(s)
      <4>1. (s \o t)[i] = s[Len(s)] /\ (s \o t)[i + 1] = t[1]
        BY <3>1, <3>3, <1>1, <1>2
      <4> QED
        BY <4>1, <2>1, Successors
    <3>4. CASE i > Len(s)
      <4>1. /\ (s \o t)[i] = t[i - Len(s)] /\ (s \o t)[i + 1] = t[(i - Len(s)) + 1]
            /\ i - Len(s) \in 1..(Len(t) - 1)
        BY <3>1, <3>4, <1>1, <1>2
      <4> QED
        BY <4>1 DEF Whole, Chained
    <3> QED
      BY <3>1, <3>2, <3>3, <3>4, <1>1
  <2> QED
    BY <1>2, <2>1, <2>2, <2>3 DEF Whole, Chained
<1> QED
  BY <1>3, <1>4

LEMMA LineIsWhole ==
  /\ Whole(<<>>) /\ Whole(<<Stop(Other)>>) /\ Whole(LongLine)
  /\ \A l \in Written \ Announcing : Whole(LineOctets(l))
  /\ \A l \in Line : LineOctets(l) = <<Start(l), Stop(l)>> /\ LineOctets(l) \in Seq(Octet)
<1>1. Whole(<<>>)
  BY EmptySeq DEF Whole, Chained
<1>2. Whole(<<Stop(Other)>>)
  <2>1. Stop(Other) \in Octet /\ Stop(Other) \in Opening /\ Stop(Other) \in Closing
    BY LineTypes, OctetTypes DEF Opening, Closing, Written
  <2> DEFINE s == <<Stop(Other)>>
  <2>2. s \in Seq(Octet) /\ Len(s) = 1 /\ s[1] = Stop(Other)
    BY <2>1
  <2> QED
    BY <2>1, <2>2 DEF Whole, Chained
<1>3. \A l \in Line : LineOctets(l) = <<Start(l), Stop(l)>> /\ LineOctets(l) \in Seq(Octet)
  <2> SUFFICES ASSUME NEW l \in Line
               PROVE  LineOctets(l) = <<Start(l), Stop(l)>> /\ LineOctets(l) \in Seq(Octet)
    OBVIOUS
  <2>1. LineOctets(l) = <<Start(l), Stop(l)>>
    BY DEF LineOctets, Start, Stop
  <2>2. Start(l) \in Octet /\ Stop(l) \in Octet
    BY OctetTypes
  <2>3. <<Start(l), Stop(l)>> \in Seq(Octet)
    BY <2>2
  <2> QED
    BY <2>1, <2>3
<1>4. ASSUME NEW l \in Written \ Announcing
      PROVE  Whole(LineOctets(l))
  <2>1. Start(l) \in Opening /\ Stop(l) \in Closing /\ l \in Line
    BY DEF Opening, Closing, Written
  <2> DEFINE s == <<Start(l), Stop(l)>>
  <2>2. s \in Seq(Octet) /\ LineOctets(l) = s
    BY <1>3, <2>1
  <2>3. Len(s) = 2 /\ s[1] = Start(l) /\ s[2] = Stop(l) /\ 1..(Len(s) - 1) = {1}
    OBVIOUS
  <2>4. Follows(Start(l), Stop(l))
    BY Successors
  <2>5. Chained(s)
    BY <2>3, <2>4 DEF Chained
  <2> QED
    BY <2>1, <2>2, <2>3, <2>5 DEF Whole
<1>5. Whole(LongLine)
  <2>1. MaxLine \in Nat /\ MaxLine > 1 /\ Other \in Written /\ Other \in Line
    BY MaxLineAssumption, LineTypes DEF Written
  <2>2. LongLine = [i \in 1..(MaxLine + 1) |-> IF i = MaxLine + 1 THEN Stop(Other) ELSE Start(Other)]
    BY <2>1 DEF LongLine, Start, Stop
  <2> DEFINE s == [i \in 1..(MaxLine + 1) |-> IF i = MaxLine + 1 THEN Stop(Other) ELSE Start(Other)]
  <2>3. s \in [1..(MaxLine + 1) -> Octet] /\ DOMAIN s = 1..(MaxLine + 1)
    BY <2>1, OctetTypes
  <2>4. s \in Seq(Octet) /\ Len(s) = MaxLine + 1
    BY <2>1, <2>3
  <2>5. \A i \in 1..(MaxLine + 1) : s[i] = IF i = MaxLine + 1 THEN Stop(Other) ELSE Start(Other)
    OBVIOUS
  <2> HIDE DEF s
  <2>6. s[1] = Start(Other) /\ s[MaxLine + 1] = Stop(Other)
    BY <2>1, <2>5
  <2>7. s[1] \in Opening /\ s[MaxLine + 1] \in Closing
    BY <2>6, LineTypes DEF Opening, Closing
  <2>8. Chained(s)
    <3> SUFFICES ASSUME NEW i \in 1..MaxLine
                 PROVE  Follows(s[i], s[i + 1])
      BY <2>1, <2>4 DEF Chained
    <3>1. s[i] = Start(Other) /\ s[i + 1] \in {Start(Other), Stop(Other)}
      BY <2>1, <2>5
    <3> QED
      BY <2>1, <3>1, Successors
  <2>9. Whole(s)
    BY <2>4, <2>7, <2>8 DEF Whole
  <2> QED
    BY <2>2, <2>9 DEF s
<1> QED
  BY <1>1, <1>2, <1>3, <1>4, <1>5

LEMMA LineIsTwo ==
  \A l \in Line : /\ LineOctets(l) \in Seq(Octet) /\ Len(LineOctets(l)) = 2
                  /\ LineOctets(l)[1] = Start(l) /\ LineOctets(l)[2] = Stop(l)
<1> SUFFICES ASSUME NEW l \in Line
             PROVE  /\ LineOctets(l) \in Seq(Octet) /\ Len(LineOctets(l)) = 2
                    /\ LineOctets(l)[1] = Start(l) /\ LineOctets(l)[2] = Stop(l)
  OBVIOUS
<1>1. LineOctets(l) = <<Start(l), Stop(l)>> /\ LineOctets(l) \in Seq(Octet)
  BY LineIsWhole
<1>2. /\ Len(<<Start(l), Stop(l)>>) = 2
      /\ <<Start(l), Stop(l)>>[1] = Start(l) /\ <<Start(l), Stop(l)>>[2] = Stop(l)
  OBVIOUS
<1> QED
  BY <1>1, <1>2

LEMMA LineOfTwo ==
  ASSUME NEW l \in Line, NEW s \in Seq(Octet), Len(s) = 2, s[1] = Start(l), s[2] = Stop(l)
  PROVE  s = LineOctets(l)
<1>1. \A i \in 1..2 : s[i] = LineOctets(l)[i]
  BY LineIsTwo
<1> QED
  BY <1>1, LineIsTwo, SeqEqual

\* A message of the plan: its header, its body, and the end of its response.
LEMMA MessageIsWhole ==
  ASSUME NEW m \in Messages, NEW named \in BOOLEAN
  PROVE  Whole(LineOctets(Header(m, named)) \o BodyOctets(m) \o LineOctets(Other))
<1> DEFINE h == Header(m, named)
<1> DEFINE a == LineOctets(h)
<1> DEFINE b == BodyOctets(m)
<1>1. h \in Written /\ h \in Line /\ h.type = "header" /\ h.msg = m
  BY LineTypes DEF Written
<1>2. a = <<Start(h), Stop(h)>> /\ a \in Seq(Octet)
  BY <1>1, LineIsWhole
<1>3. Len(a) = 2 /\ a[1] = Start(h) /\ a[2] = Stop(h)
  BY <1>2
<1>4. /\ b \in Seq(Octet) /\ Len(b) = Size(m) /\ Size(m) \in Nat
      /\ \A i \in 1..Size(m) : b[i] = InBodyAt(m, i)
  BY OctetTypes, Sizes
<1> HIDE DEF a, b
<1> DEFINE s == a \o b
<1>5. /\ s \in Seq(Octet) /\ Len(s) = 2 + Size(m)
      /\ \A i \in 1..(2 + Size(m)) : s[i] = IF i <= 2 THEN a[i] ELSE b[i - 2]
  BY <1>2, <1>3, <1>4, ConcatProperties
<1> HIDE DEF s
<1>6. s[1] = Start(h) /\ s[2] = Stop(h) /\ \A i \in 1..Size(m) : s[2 + i] = InBodyAt(m, i)
  <2>1. s[1] = Start(h) /\ s[2] = Stop(h)
    BY <1>3, <1>4, <1>5
  <2>2. ASSUME NEW i \in 1..Size(m)
        PROVE  s[2 + i] = InBodyAt(m, i)
    <3>1. 2 + i \in 1..(2 + Size(m)) /\ ~(2 + i <= 2) /\ (2 + i) - 2 = i
      BY <1>4
    <3> QED
      BY <3>1, <1>4, <1>5
  <2> QED
    BY <2>1, <2>2
<1>7. s[1] \in Opening
  BY <1>1, <1>6 DEF Opening
<1>8. s[Len(s)] \in Closing
  <2>1. CASE Size(m) = 0
    <3>1. h \in Written \ Announcing
      BY <2>1, <1>1 DEF Announcing
    <3> QED
      BY <2>1, <3>1, <1>5, <1>6 DEF Closing
  <2>2. CASE Size(m) > 0
    <3>1. s[2 + Size(m)] = InBodyAt(m, Size(m))
      BY <2>2, <1>4, <1>6
    <3> QED
      BY <2>2, <3>1, <1>5 DEF Closing
  <2> QED
    BY <2>1, <2>2, <1>4
<1>9. Chained(s)
  <2> SUFFICES ASSUME NEW i \in 1..(1 + Size(m))
               PROVE  Follows(s[i], s[i + 1])
    BY <1>4, <1>5 DEF Chained
  <2>1. CASE i = 1
    BY <2>1, <1>1, <1>6, Successors
  <2>2. CASE i = 2
    <3>1. Size(m) > 0 /\ h \in Announcing
      BY <2>2, <1>1, <1>4 DEF Announcing
    <3>2. s[3] = InBodyAt(m, 1)
      BY <3>1, <1>4, <1>6
    <3> QED
      BY <2>2, <3>1, <3>2, <1>1, <1>6, Successors
  <2>3. CASE i > 2
    <3>1. i - 2 \in 1..(Size(m) - 1)
      BY <2>3, <1>4
    <3>2. s[i] = InBodyAt(m, i - 2) /\ s[i + 1] = InBodyAt(m, (i - 2) + 1)
      <4>1. /\ i - 2 \in 1..Size(m) /\ i - 1 \in 1..Size(m)
            /\ 2 + (i - 2) = i /\ 2 + (i - 1) = i + 1 /\ (i - 2) + 1 = i - 1
        BY <3>1, <1>4
      <4> QED
        BY <4>1, <1>6
    <3> QED
      BY <3>1, <3>2, Successors
  <2> QED
    BY <2>1, <2>2, <2>3, <1>4
<1>10. Whole(s)
  BY <1>5, <1>7, <1>8, <1>9 DEF Whole
<1>11. Whole(LineOctets(Other))
  BY LineIsWhole, LineTypes
<1>12. Whole(s \o LineOctets(Other))
  BY <1>10, <1>11, WholeConcat
<1> QED
  BY <1>12 DEF s, a, b

\* t begins with s.
Begins(t, s) == /\ s \in Seq(Octet) /\ t \in Seq(Octet) /\ Len(s) <= Len(t)
                /\ \A i \in 1..Len(s) : t[i] = s[i]

LEMMA Grows ==
  ASSUME NEW s, NEW t, NEW u, Begins(t, s), Whole(u)
  PROVE  Begins(t \o u, s) /\ (Whole(t) => Whole(t \o u))
<1>1. /\ s \in Seq(Octet) /\ t \in Seq(Octet) /\ u \in Seq(Octet)
      /\ Len(s) \in Nat /\ Len(t) \in Nat /\ Len(u) \in Nat
  BY LenProperties DEF Begins, Whole
<1>2. /\ t \o u \in Seq(Octet) /\ Len(t \o u) = Len(t) + Len(u)
      /\ \A i \in 1..(Len(t) + Len(u)) : (t \o u)[i] = IF i <= Len(t) THEN t[i] ELSE u[i - Len(t)]
  BY <1>1, ConcatProperties
<1>3. Begins(t \o u, s)
  BY <1>1, <1>2 DEF Begins
<1> QED
  BY <1>3, WholeConcat

LEMMA StaleTypes ==
  /\ StaleScript \in Seq(Octet) /\ Len(StaleScript) = 6
  /\ StaleScript[1].nl /\ ~StaleScript[2].nl
  /\ StaleScript[3] = Start(Other) /\ StaleScript[4] = Stop(Other)
  /\ StaleScript[5] = Start(Tagged(FALSE, TRUE)) /\ StaleScript[6] = Stop(Tagged(FALSE, TRUE))
<1> DEFINE t == Tagged(FALSE, TRUE)
<1> DEFINE x == [msg |-> 0, pos |-> 1, nl |-> TRUE]
<1> DEFINE y == [msg |-> 0, pos |-> 2, nl |-> FALSE]
<1>1. StaleLiteral = <<x, y>>
  BY Zenon DEF StaleLiteral
<1>2. x \in Octet /\ y \in Octet
  BY Sizes DEF Octet
<1>3. StaleLiteral \in Seq(Octet) /\ Len(StaleLiteral) = 2
      /\ StaleLiteral[1] = x /\ StaleLiteral[2] = y
  <2> HIDE DEF x, y
  <2> QED
    BY <1>1, <1>2
<1>4. x.nl /\ ~y.nl
  OBVIOUS
<1> HIDE DEF x, y
<1>5. t \in Line /\ Other \in Line
  BY LineTypes DEF Written
<1>6. LineOctets(Other) \in Seq(Octet) /\ LineOctets(t) \in Seq(Octet)
  BY <1>5, LineIsTwo
<1> DEFINE u == StaleLiteral \o LineOctets(Other)
<1>7. Len(LineOctets(Other)) = 2 /\ LineOctets(Other)[1] = Start(Other)
      /\ LineOctets(Other)[2] = Stop(Other)
  BY <1>5, LineIsTwo
<1>8. Len(LineOctets(t)) = 2 /\ LineOctets(t)[1] = Start(t) /\ LineOctets(t)[2] = Stop(t)
  BY <1>5, LineIsTwo
<1>9. /\ u \in Seq(Octet) /\ Len(u) = 4
      /\ u[1] = x /\ u[2] = y /\ u[3] = Start(Other) /\ u[4] = Stop(Other)
  <2>1. /\ u \in Seq(Octet) /\ Len(u) = Len(StaleLiteral) + Len(LineOctets(Other))
        /\ \A i \in 1..(Len(StaleLiteral) + Len(LineOctets(Other))) :
             u[i] = IF i <= Len(StaleLiteral) THEN StaleLiteral[i]
                    ELSE LineOctets(Other)[i - Len(StaleLiteral)]
    BY <1>3, <1>6, ConcatProperties
  <2> HIDE DEF u
  <2> QED
    BY <2>1, <1>3, <1>7
<1> HIDE DEF u, t
<1>10. /\ u \o LineOctets(t) \in Seq(Octet) /\ Len(u \o LineOctets(t)) = 6
       /\ \A i \in 1..6 : (u \o LineOctets(t))[i] = IF i <= 4 THEN u[i] ELSE LineOctets(t)[i - 4]
  <2> DEFINE w == LineOctets(t)
  <2>1. w \in Seq(Octet) /\ Len(w) = 2
    BY <1>6, <1>8
  <2> HIDE DEF w
  <2>2. /\ u \o w \in Seq(Octet) /\ Len(u \o w) = Len(u) + Len(w)
        /\ \A i \in 1..(Len(u) + Len(w)) : (u \o w)[i] = IF i <= Len(u) THEN u[i] ELSE w[i - Len(u)]
    BY <2>1, <1>9, ConcatProperties
  <2>3. Len(u) = 4 /\ Len(u) + Len(w) = 6
    BY <2>1, <1>9
  <2> QED
    BY <2>2, <2>3 DEF w
<1>11. /\ (u \o LineOctets(t))[1] = x /\ (u \o LineOctets(t))[2] = y
       /\ (u \o LineOctets(t))[3] = Start(Other) /\ (u \o LineOctets(t))[4] = Stop(Other)
       /\ (u \o LineOctets(t))[5] = Start(t) /\ (u \o LineOctets(t))[6] = Stop(t)
  BY <1>8, <1>9, <1>10
<1>12. StaleScript = u \o LineOctets(t)
  BY DEF StaleScript, u, t
<1> QED
  BY <1>4, <1>10, <1>11, <1>12 DEF t

\* The script begins with what is left of the command before; without a literal
\* left, it is whole.
LEMMA ScriptIsWhole ==
  ASSUME NEW p \in Plan
  PROVE  /\ Script(p) \in Seq(Octet)
         /\ p.stale # "literal" => Whole(Script(p))
         /\ p.stale = "literal" => Begins(Script(p), StaleScript)
         /\ p.stale = "line" => /\ Script(p) # <<>> /\ Script(p)[1] = Stop(Other)
<1>1. /\ p.stale \in {"none", "late", "line", "literal"} /\ p.named \in BOOLEAN
      /\ p.msgs \in Answers /\ p.stray \in Strays /\ p.end \in Ends /\ p.after \in Strays
  BY DEF Plan
<1>2. Whole(p.stray) /\ Whole(p.after) /\ Whole(<<>>) /\ Whole(LineOctets(p.end))
  <2>1. Whole(LongLine) /\ Whole(<<>>) /\ \A l \in Written \ Announcing : Whole(LineOctets(l))
    BY LineIsWhole
  <2>2. \A l \in Ends \cup {Other} : l \in Written \ Announcing
    BY LineTypes DEF Ends
  <2>3. \A s \in Strays : Whole(s)
    BY <2>1, <2>2 DEF Strays
  <2> QED
    BY <1>1, <2>1, <2>2, <2>3
<1>3. \A i \in {1, 2} : i <= Len(p.msgs) => p.msgs[i] \in Messages
  <2>1. CASE p.msgs = <<>>
    BY <2>1
  <2>2. CASE \E m \in Messages : p.msgs = <<m>>
    BY <2>2
  <2>3. CASE \E a, b \in Messages : p.msgs = <<a, b>>
    BY <2>3
  <2> QED
    BY <2>1, <2>2, <2>3, <1>1 DEF Answers
<1>4. Len(p.msgs) \in Nat
  <2>1. CASE p.msgs = <<>>
    BY <2>1
  <2>2. CASE \E m \in Messages : p.msgs = <<m>>
    BY <2>2
  <2>3. CASE \E a, b \in Messages : p.msgs = <<a, b>>
    BY <2>3
  <2> QED
    BY <2>1, <2>2, <2>3, <1>1 DEF Answers
<1>5. ASSUME NEW i \in {1, 2}
      PROVE  Whole(MessageOctets(p, i))
  <2> DEFINE a == IF p.at = i THEN p.stray ELSE <<>>
  <2> DEFINE b == IF i > Len(p.msgs) THEN <<>>
                  ELSE LineOctets(Header(p.msgs[i], p.named)) \o BodyOctets(p.msgs[i])
                         \o LineOctets(Other)
  <2>1. Whole(a)
    BY <1>2
  <2>2. Whole(b)
    BY <1>1, <1>2, <1>3, <1>4, MessageIsWhole
  <2>3. MessageOctets(p, i) = a \o b
    BY DEF MessageOctets
  <2> QED
    BY <2>1, <2>2, <2>3, WholeConcat
<1>6. /\ StaleOctets(p) \in Seq(Octet)
      /\ p.stale # "literal" => Whole(StaleOctets(p))
      /\ p.stale = "literal" => StaleOctets(p) = StaleScript
      /\ p.stale = "line" => StaleOctets(p) = <<Stop(Other)>>
  <2>1. CASE p.stale = "none"
    BY <2>1, <1>2, EmptySeq DEF StaleOctets
  <2>2. CASE p.stale = "late"
    <3>1. StaleOctets(p) = LineOctets(Tagged(FALSE, TRUE))
      BY <2>2 DEF StaleOctets
    <3>2. Whole(LineOctets(Tagged(FALSE, TRUE)))
      BY LineIsWhole, LineTypes
    <3> QED
      BY <2>2, <3>1, <3>2 DEF Whole
  <2>3. CASE p.stale = "line"
    <3>1. StaleOctets(p) = Tail(LineOctets(Other))
      BY <2>3 DEF StaleOctets
    <3>2. LineOctets(Other) = <<Start(Other), Stop(Other)>>
      BY LineIsWhole, LineTypes DEF Written
    <3>3. Tail(<<Start(Other), Stop(Other)>>) = <<Stop(Other)>>
      OBVIOUS
    <3>4. Whole(<<Stop(Other)>>)
      BY LineIsWhole
    <3> QED
      BY <2>3, <3>1, <3>2, <3>3, <3>4 DEF Whole
  <2>4. CASE p.stale = "literal"
    <3>1. StaleOctets(p) = StaleScript
      BY <2>4 DEF StaleOctets, StaleScript
    <3> QED
      BY <2>4, <3>1, StaleTypes
  <2> QED
    BY <2>1, <2>2, <2>3, <2>4, <1>1
<1> DEFINE s == StaleOctets(p)
<1> DEFINE b == IF p.at = 0 THEN p.stray ELSE <<>>
<1>7. Begins(s, s)
  <2>1. Len(s) \in Nat
    BY <1>6, LenProperties
  <2> QED
    BY <2>1, <1>6 DEF Begins
<1>8. Whole(b)
  BY <1>2
<1> HIDE DEF s, b
<1> DEFINE s1 == s \o MessageOctets(p, 1)
<1>9. Begins(s1, s) /\ (Whole(s) => Whole(s1))
  BY <1>5, <1>7, Grows
<1> HIDE DEF s1
<1> DEFINE s2 == s1 \o MessageOctets(p, 2)
<1>10. Begins(s2, s) /\ (Whole(s) => Whole(s2))
  BY <1>5, <1>9, Grows
<1> HIDE DEF s2
<1> DEFINE s3 == s2 \o b
<1>11. Begins(s3, s) /\ (Whole(s) => Whole(s3))
  BY <1>8, <1>10, Grows
<1> HIDE DEF s3
<1> DEFINE s4 == s3 \o LineOctets(p.end)
<1>12. Begins(s4, s) /\ (Whole(s) => Whole(s4))
  BY <1>2, <1>11, Grows
<1> HIDE DEF s4
<1>13. Begins(s4 \o p.after, s) /\ (Whole(s) => Whole(s4 \o p.after))
  BY <1>2, <1>12, Grows
<1>14. Script(p) = s4 \o p.after
  BY DEF Script, s, s1, s2, s3, s4, b
<1>15. Script(p) \in Seq(Octet) /\ Begins(Script(p), s) /\ (Whole(s) => Whole(Script(p)))
  BY <1>13, <1>14 DEF Begins
<1>16. p.stale = "line" => Script(p) # <<>> /\ Script(p)[1] = Stop(Other)
  <2> SUFFICES ASSUME p.stale = "line"
               PROVE  Script(p) # <<>> /\ Script(p)[1] = Stop(Other)
    OBVIOUS
  <2>1. s = <<Stop(Other)>>
    BY <1>6 DEF s
  <2>2. Len(s) = 1 /\ s[1] = Stop(Other)
    BY <2>1
  <2>3. Len(Script(p)) >= 1 /\ Script(p)[1] = Stop(Other)
    BY <2>2, <1>15 DEF Begins
  <2> QED
    BY <2>3, EmptySeq
<1> QED
  BY <1>6, <1>15, <1>16 DEF s

-----------------------------------------------------------------------------
(* Initial states.                                                         *)

LEMMA RestFacts ==
  ASSUME pending \in Seq(Octet), wire \in Seq(Octet)
  PROVE  /\ Len(pending) \in Nat /\ Len(wire) \in Nat
         /\ Rest \in Seq(Octet) /\ Len(Rest) = Len(pending) + Len(wire)
         /\ \A i \in 1..Len(pending) : Rest[i] = pending[i]
         /\ \A i \in 1..Len(wire) : Rest[Len(pending) + i] = wire[i]
         /\ pending = <<>> => Rest = wire
<1>1. Len(pending) \in Nat /\ Len(wire) \in Nat
  BY LenProperties
<1>2. /\ pending \o wire \in Seq(Octet)
      /\ Len(pending \o wire) = Len(pending) + Len(wire)
      /\ \A i \in 1..(Len(pending) + Len(wire)) :
           (pending \o wire)[i] = IF i <= Len(pending) THEN pending[i] ELSE wire[i - Len(pending)]
  BY ConcatProperties
<1>3. \A i \in 1..Len(wire) : Rest[Len(pending) + i] = wire[i]
  <2> SUFFICES ASSUME NEW i \in 1..Len(wire)
               PROVE  Rest[Len(pending) + i] = wire[i]
    OBVIOUS
  <2>1. /\ Len(pending) + i \in 1..(Len(pending) + Len(wire))
        /\ ~(Len(pending) + i <= Len(pending)) /\ (Len(pending) + i) - Len(pending) = i
    BY <1>1
  <2> QED
    BY <2>1, <1>2 DEF Rest
<1>4. pending = <<>> => Rest = wire
  BY ConcatEmptySeq DEF Rest
<1> QED
  BY <1>1, <1>2, <1>3, <1>4 DEF Rest

LEMMA InitFetch == Init => FInv
<1> SUFFICES ASSUME Init
             PROVE  FInv
  OBVIOUS
<1>1. /\ batch \in BOOLEAN /\ limit \in Limits /\ plan \in Plans /\ plan \in Plan
      /\ st = "SendCommand" /\ tagRequested = FALSE
      /\ pending = <<>> /\ scanned = 0 /\ remaining = 0 /\ streamPending = FALSE
      /\ outcome = "none" /\ endedBy = {}
      /\ current = 0 /\ sink = <<>> /\ committed = <<>>
      /\ wire = Script(plan) /\ closed = FALSE
  BY PlansAssumption DEF Init
<1>2. /\ raw = IF plan.stale = "line" THEN <<Start(Other)>> ELSE <<>>
      /\ literal = IF plan.stale = "literal" THEN 2 ELSE 0
  <2>1. LineOctets(Other) = <<Start(Other), Stop(Other)>>
    BY LineIsWhole, LineTypes DEF Written
  <2>2. Head(<<Start(Other), Stop(Other)>>) = Start(Other)
    OBVIOUS
  <2>3. Len(StaleLiteral) = 2
    BY DEF StaleLiteral
  <2> QED
    BY <2>1, <2>2, <2>3 DEF Init
<1>3. /\ wire \in Seq(Octet) /\ pending \in Seq(Octet) /\ Rest = wire
      /\ raw \in Seq(Octet)
  <2>1. wire \in Seq(Octet) /\ pending \in Seq(Octet)
    BY <1>1, ScriptIsWhole, EmptySeq
  <2>2. raw \in Seq(Octet)
    <3>1. Start(Other) \in Octet
      BY LineTypes, OctetTypes DEF Written
    <3>2. <<Start(Other)>> \in Seq(Octet) /\ <<>> \in Seq(Octet)
      BY <3>1
    <3> QED
      BY <3>2, <1>2
  <2> QED
    BY <2>1, <2>2, <1>1, RestFacts
<1>4. TypeOK
  <2>1. /\ sink \in Seq(Octet) /\ committed \in Seq([msg : Messages, octets : Seq(Octet)])
    BY <1>1, EmptySeq
  <2>2. current \in 0..Len(Bodies) /\ literal \in Nat
    BY <1>1, <1>2, Sizes
  <2> QED
    BY <1>1, <1>3, <2>1, <2>2 DEF TypeOK
<1>5. ScanSound
  BY <1>1, <1>3, EmptySeq DEF ScanSound
<1>6. Chain
  BY <1>1, <1>3, ScriptIsWhole DEF Chain, InStep, Whole
<1>7. AtLine
  <2> SUFFICES ASSUME InStep
               PROVE  /\ literal = 0
                      /\ Rest # <<>> => Rest[1] \in Opening
                      /\ \/ raw = <<>>
                         \/ raw = <<Start(Other)>> /\ (Rest # <<>> => Rest[1] = Stop(Other))
    BY DEF AtLine
  <2>1. literal = 0 /\ (Rest # <<>> => Rest[1] \in Opening)
    BY <1>1, <1>2, <1>3, ScriptIsWhole DEF InStep, Whole
  <2>2. plan.stale = "line" => raw = <<Start(Other)>> /\ Rest[1] = Stop(Other)
    BY <1>1, <1>2, <1>3, ScriptIsWhole
  <2>3. plan.stale # "line" => raw = <<>>
    BY <1>2
  <2> QED
    BY <2>1, <2>2, <2>3
<1>8. Lagging
  <2> SUFFICES ASSUME ~InStep
               PROVE  Behind(0)
    BY <1>1 DEF Lagging
  <2>1. raw = <<>> /\ literal = 2
    BY <1>2 DEF InStep
  <2>2. Begins(Rest, StaleScript)
    BY <1>1, <1>3, ScriptIsWhole DEF InStep
  <2>3. \A i \in 1..Len(Rest) : i + 0 <= 6 => Rest[i] = StaleScript[i + 0]
    BY <2>2, <1>3, StaleTypes DEF Begins
  <2> QED
    BY <2>1, <2>3 DEF Behind
<1>9. InBody /\ Waits /\ BodiesExact
  BY <1>1 DEF InBody, Waits, BodiesExact
<1> QED
  BY <1>4, <1>5, <1>6, <1>7, <1>8, <1>9 DEF FInv

-----------------------------------------------------------------------------
(* Lines.                                                                  *)

\* The line found is the first one: what was searched before holds no end.
LEMMA LineFound ==
  ASSUME pending \in Seq(Octet), scanned \in Nat, ScanSound, NewLines # {}
  PROVE  /\ LineEnd \in 1..Len(pending) /\ pending[LineEnd].nl
         /\ \A i \in 1..(LineEnd - 1) : ~pending[i].nl
<1>1. Len(pending) \in Nat
  BY LenProperties
<1>2. NewLines \in SUBSET Nat
  BY <1>1 DEF NewLines
<1>3. \E i \in NewLines : \A j \in NewLines : i <= j
  BY <1>2, Least
<1>4. LineEnd \in NewLines /\ \A j \in NewLines : LineEnd <= j
  BY <1>3 DEF LineEnd
<1>5. LineEnd \in 1..Len(pending) /\ pending[LineEnd].nl
  BY <1>1, <1>4 DEF NewLines
<1>6. ASSUME NEW i \in 1..(LineEnd - 1), pending[i].nl
      PROVE  FALSE
  <2>1. i \in 1..Len(pending) /\ i < LineEnd /\ i \in Nat
    BY <1>1, <1>5
  <2>2. i > scanned
    BY <2>1, <1>6 DEF ScanSound
  <2>3. i \in NewLines
    BY <2>1, <2>2, <1>6, <1>1 DEF NewLines
  <2> QED
    BY <2>1, <2>3, <1>4, <1>5
<1> QED
  BY <1>5, <1>6

\* What the fragmentizer holds once the line is enqueued, and the line it parses.
LEMMA Parsing ==
  ASSUME pending \in Seq(Octet), scanned \in Nat, ScanSound, NewLines # {},
         raw \in Seq(Octet), literal \in Nat
  PROVE  /\ Len(raw) \in Nat
         /\ Enqueued \in Seq(Octet) /\ Len(Enqueued) = Len(raw) + LineEnd
         /\ \A i \in 1..Len(raw) : Enqueued[i] = raw[i]
         /\ \A i \in 1..LineEnd : Enqueued[Len(raw) + i] = pending[i]
         /\ FirstEnd \in 1..Len(Enqueued) /\ Enqueued[FirstEnd].nl
         /\ \A j \in 1..(FirstEnd - 1) : ~Enqueued[j].nl
         /\ Parsed \in 0..Len(Enqueued)
         /\ SubSeq(Enqueued, Parsed + 1, Len(Enqueued)) \in Seq(Octet)
<1>1. /\ LineEnd \in 1..Len(pending) /\ pending[LineEnd].nl /\ Len(pending) \in Nat
      /\ Len(raw) \in Nat
  BY LineFound, LenProperties
<1> DEFINE t == SubSeq(pending, 1, LineEnd)
<1>2. /\ t \in Seq(Octet) /\ Len(t) = LineEnd
      /\ \A i \in 1..LineEnd : t[i] = pending[i]
  BY <1>1, Stretch
<1> HIDE DEF t
<1>3. /\ Enqueued \in Seq(Octet) /\ Len(Enqueued) = Len(raw) + LineEnd
      /\ \A i \in 1..(Len(raw) + LineEnd) :
           Enqueued[i] = IF i <= Len(raw) THEN raw[i] ELSE t[i - Len(raw)]
  <2>1. Enqueued = raw \o t
    BY DEF Enqueued, t
  <2> QED
    BY <2>1, <1>2, ConcatProperties
<1>4. \A i \in 1..LineEnd : Enqueued[Len(raw) + i] = pending[i]
  <2> SUFFICES ASSUME NEW i \in 1..LineEnd
               PROVE  Enqueued[Len(raw) + i] = pending[i]
    OBVIOUS
  <2>1. /\ Len(raw) + i \in 1..(Len(raw) + LineEnd) /\ ~(Len(raw) + i <= Len(raw))
        /\ (Len(raw) + i) - Len(raw) = i
    BY <1>1
  <2> QED
    BY <2>1, <1>2, <1>3
<1>5. \A i \in 1..Len(raw) : Enqueued[i] = raw[i]
  BY <1>1, <1>3
<1> DEFINE S == {i \in 1..Len(Enqueued) : Enqueued[i].nl}
<1>6. \E i \in S : \A j \in S : i <= j
  <2>1. Enqueued[Len(raw) + LineEnd].nl /\ Len(raw) + LineEnd \in 1..Len(Enqueued)
    BY <1>1, <1>3, <1>4
  <2>2. S \in SUBSET Nat /\ S # {}
    BY <2>1, <1>1
  <2> QED
    BY <2>2, Least
<1>7. \E i \in 1..Len(Enqueued) : Enqueued[i].nl /\ \A j \in 1..(i - 1) : ~Enqueued[j].nl
  <2>1. PICK i \in S : \A j \in S : i <= j
    BY <1>6
  <2>2. \A j \in 1..(i - 1) : j \in 1..Len(Enqueued) /\ ~(i <= j)
    BY <1>1, <1>3
  <2> QED
    BY <2>1, <2>2
<1>8. /\ FirstEnd \in 1..Len(Enqueued) /\ Enqueued[FirstEnd].nl
      /\ \A j \in 1..(FirstEnd - 1) : ~Enqueued[j].nl
  BY <1>7 DEF FirstEnd
<1>9. Parsed \in 0..Len(Enqueued)
  BY <1>1, <1>3, <1>8 DEF Parsed
<1>10. SubSeq(Enqueued, Parsed + 1, Len(Enqueued)) \in Seq(Octet)
  BY <1>1, <1>3, <1>9, Stretch
<1> QED
  BY <1>1, <1>3, <1>4, <1>5, <1>8, <1>9, <1>10

\* What the line says.
LEMMA SaidIsLine ==
  ASSUME Enqueued \in Seq(Octet), Parsed \in 1..Len(Enqueued)
  PROVE  Said \in Line
<1> DEFINE s == SubSeq(Enqueued, 1, Parsed)
<1> DEFINE o == s[Len(s)]
<1>1. Len(Enqueued) \in Nat
  BY LenProperties
<1>2. s \in Seq(Octet) /\ Len(s) = Parsed /\ \A i \in 1..Parsed : s[i] = Enqueued[i]
  BY <1>1, Stretch
<1>3. o \in Octet
  <2>1. Len(s) \in 1..Len(s)
    BY <1>1, <1>2
  <2> QED
    BY <2>1, <1>2, ElementOfSeq
<1>4. Said = IF "of" \in DOMAIN o /\ s = LineOctets(o.of) THEN o.of ELSE Other
  BY DEF Said
<1> HIDE DEF o, s
<1>5. "of" \in DOMAIN o => o.of \in Line
  <2>1. CASE o \in [of : Line, nl : BOOLEAN]
    BY <2>1
  <2>2. CASE o \in [msg : 0..Len(Bodies), pos : Nat, nl : BOOLEAN]
    BY <2>2
  <2> QED
    BY <2>1, <2>2, <1>3 DEF Octet
<1> QED
  BY <1>4, <1>5, LineTypes DEF Written

\* Taking the line off leaves the octets behind it.
LEMMA TakesOff ==
  ASSUME TypeOK, ScanSound, TakeLine, wire' = wire
  PROVE  /\ LineEnd \in 1..Len(pending) /\ LineEnd \in Nat
         /\ pending' \in Seq(Octet) /\ raw' \in Seq(Octet) /\ wire' \in Seq(Octet)
         /\ scanned' = 0
         /\ Within(Rest', Rest, LineEnd)
         /\ Rest' # <<>> => /\ Rest'[1] = Rest[LineEnd + 1]
                            /\ LineEnd \in 1..(Len(Rest) - 1)
<1>1. /\ pending \in Seq(Octet) /\ wire \in Seq(Octet) /\ raw \in Seq(Octet)
      /\ scanned \in Nat /\ literal \in Nat
  BY DEF TypeOK
<1>2. /\ NewLines # {} /\ scanned' = 0
      /\ pending' = SubSeq(pending, LineEnd + 1, Len(pending))
      /\ raw' = SubSeq(Enqueued, Parsed + 1, Len(Enqueued))
  BY DEF TakeLine, ScannedAfter
<1>3. /\ LineEnd \in 1..Len(pending) /\ Len(pending) \in Nat /\ LineEnd \in Nat
      /\ LineEnd \in 0..Len(pending) /\ Len(wire) \in Nat /\ Len(wire) \in 0..Len(wire)
  BY <1>1, <1>2, LineFound, LenProperties
<1>4. raw' \in Seq(Octet)
  BY <1>1, <1>2, Parsing
<1>5. pending' \in Seq(Octet)
  BY <1>1, <1>2, <1>3, Stretch
<1>6. Within(Rest', Rest, LineEnd)
  <2>1. wire' = SubSeq(wire, 1, Len(wire))
    BY <1>1, SubSeqFull
  <2>2. Rest' = SubSeq(pending, LineEnd + 1, Len(pending)) \o SubSeq(wire, 1, Len(wire))
    BY <2>1, <1>2 DEF Rest
  <2> QED
    BY <2>2, <1>1, <1>3, Remains DEF Rest
<1>7. Rest' # <<>> => Rest'[1] = Rest[LineEnd + 1] /\ LineEnd \in 1..(Len(Rest) - 1)
  <2>1. /\ Rest' \in Seq(Octet) /\ Len(Rest') + LineEnd <= Len(Rest) /\ Len(Rest) \in Nat
        /\ \A i \in 1..Len(Rest') : Rest'[i] = Rest[i + LineEnd]
    BY <1>6, LenProperties DEF Within
  <2>2. Rest' # <<>> => Len(Rest') \in Nat \ {0}
    BY <2>1, EmptySeq
  <2> QED
    BY <2>1, <2>2, <1>3
<1> QED
  BY <1>1, <1>2, <1>3, <1>4, <1>5, <1>6, <1>7

\* The line parsed is the line taken: a line the server wrote, and what comes
\* next is the body it announces, or another line.
LEMMA LineInStep ==
  ASSUME TypeOK, ScanSound, Chain, AtLine, InStep, TakeLine, wire' = wire
  PROVE  /\ literal = 0 /\ raw' = <<>> /\ Said \in Written /\ Rest[LineEnd] = Stop(Said)
         /\ Rest' # <<>> => IF Said \in Announcing THEN Rest'[1] = InBodyAt(Said.msg, 1)
                            ELSE Rest'[1] \in Opening
<1>1. /\ pending \in Seq(Octet) /\ wire \in Seq(Octet) /\ raw \in Seq(Octet)
      /\ scanned \in Nat /\ literal \in Nat /\ NewLines # {}
      /\ raw' = SubSeq(Enqueued, Parsed + 1, Len(Enqueued))
  BY DEF TypeOK, TakeLine
<1>2. /\ LineEnd \in 1..Len(pending) /\ pending[LineEnd].nl /\ LineEnd \in Nat
      /\ \A i \in 1..(LineEnd - 1) : ~pending[i].nl
  BY <1>1, LineFound, LenProperties
<1>3. /\ Len(pending) \in Nat /\ Rest \in Seq(Octet) /\ Len(Rest) \in Nat
      /\ Len(pending) <= Len(Rest) /\ \A i \in 1..Len(pending) : Rest[i] = pending[i]
  BY <1>1, RestFacts
<1>4. Rest # <<>> /\ Rest[1] = pending[1]
  <2>1. Len(Rest) > 0 /\ 1 \in 1..Len(pending)
    BY <1>2, <1>3
  <2> QED
    BY <2>1, <1>3, EmptySeq
<1>5. /\ literal = 0 /\ pending[1] \in Opening
      /\ \/ raw = <<>>
         \/ raw = <<Start(Other)>> /\ pending[1] = Stop(Other)
  BY <1>4 DEF AtLine, TakeLine, AwaitsLine
<1>6. \A i \in 1..(Len(Rest) - 1) : Follows(Rest[i], Rest[i + 1])
  BY DEF Chain, Chained
<1>7. /\ Len(Enqueued) = Len(raw) + LineEnd /\ Enqueued \in Seq(Octet)
      /\ \A i \in 1..Len(raw) : Enqueued[i] = raw[i]
      /\ \A i \in 1..LineEnd : Enqueued[Len(raw) + i] = pending[i]
      /\ FirstEnd \in 1..Len(Enqueued) /\ Enqueued[FirstEnd].nl
      /\ \A j \in 1..(FirstEnd - 1) : ~Enqueued[j].nl
      /\ Parsed = FirstEnd
  <2>1. Parsed = FirstEnd
    BY <1>5 DEF Parsed, TakesLiteral
  <2> QED
    BY <2>1, <1>1, Parsing
<1>8. /\ \A l : Start(l).nl = FALSE /\ Stop(l).nl = TRUE /\ Start(l).of = l /\ Stop(l).of = l
      /\ \A l : "of" \in DOMAIN Stop(l) /\ "of" \in DOMAIN Start(l)
  BY DEF Start, Stop
<1>9. Rest' # <<>> => Rest'[1] = Rest[LineEnd + 1] /\ Follows(Rest[LineEnd], Rest[LineEnd + 1])
  BY <1>6, TakesOff
\* All that is parsed is one line.
<1>10. FirstEnd = Len(Enqueued)
  <2>1. CASE raw = <<>>
    <3>1. Len(raw) = 0
      BY <2>1
    <3>2. Len(Enqueued) = LineEnd /\ \A i \in 1..LineEnd : Enqueued[i] = pending[i]
      BY <3>1, <1>2, <1>7
    <3> QED
      BY <3>2, <1>2, <1>7
  <2>2. CASE raw = <<Start(Other)>> /\ pending[1] = Stop(Other)
    <3>1. Len(raw) = 1 /\ raw[1] = Start(Other)
      BY <2>2
    <3>2. LineEnd = 1
      <4>1. pending[1].nl
        BY <2>2, <1>8
      <4> QED
        BY <4>1, <1>2
    <3>3. Len(Enqueued) = 2 /\ Enqueued[1] = Start(Other)
      BY <3>1, <3>2, <1>7
    <3>4. FirstEnd # 1
      BY <3>3, <1>7, <1>8
    <3> QED
      BY <3>3, <3>4, <1>7
  <2> QED
    BY <2>1, <2>2, <1>5
<1>11. raw' = <<>>
  <2>1. Len(Enqueued) \in Nat
    BY <1>7, LenProperties
  <2> QED
    BY <2>1, <1>1, <1>7, <1>10, SubSeqEmpty
<1> DEFINE s == SubSeq(Enqueued, 1, Parsed)
<1>12. s = Enqueued
  BY <1>7, <1>10, SubSeqFull
<1>13. Said = IF "of" \in DOMAIN Enqueued[Len(Enqueued)]
                   /\ Enqueued = LineOctets(Enqueued[Len(Enqueued)].of)
              THEN Enqueued[Len(Enqueued)].of ELSE Other
  BY <1>12 DEF Said
<1>14. Enqueued[Len(Enqueued)] = pending[LineEnd] /\ Rest[LineEnd] = pending[LineEnd]
  BY <1>2, <1>3, <1>7
<1>15. ASSUME pending[LineEnd] = Stop(Other), Said = Other
       PROVE  /\ Said \in Written /\ (Rest' # <<>> => Rest'[1] \in Opening)
              /\ Said \notin Announcing /\ Rest[LineEnd] = Stop(Said)
  <2>1. Other \in Written \ Announcing /\ Stop(Other) \in Closing
    BY LineTypes DEF Closing
  <2> QED
    BY <2>1, <1>9, <1>14, <1>15 DEF Follows
<1>16. pending[LineEnd] = Stop(Other) => Said = Other
  BY <1>13, <1>14, <1>8
<1>17. CASE pending[1] = Stop(Other)
  <2>1. LineEnd = 1
    <3>1. pending[1].nl
      BY <1>17, <1>8
    <3> QED
      BY <3>1, <1>2
  <2> QED
    BY <2>1, <1>5, <1>11, <1>15, <1>16, <1>17
<1>18. CASE \E l \in Written : pending[1] = Start(l)
  <2>1. PICK l \in Written : pending[1] = Start(l)
    BY <1>18
  <2>2. raw = <<>> /\ Len(raw) = 0
    BY <2>1, <1>5, Distinct
  <2>3. LineEnd >= 2
    <3>1. ~pending[1].nl
      BY <2>1, <1>8
    <3> QED
      BY <3>1, <1>2
  <2>4. \A i \in 1..(LineEnd - 1) : Follows(pending[i], pending[i + 1])
    BY <1>2, <1>3, <1>6
  <2>5. pending[2] = Stop(l) \/ (l = Other /\ pending[2] = Start(Other))
    BY <2>1, <2>3, <2>4, <1>2 DEF Follows
  <2>6. CASE pending[2] = Stop(l)
    <3>1. LineEnd = 2
      <4>1. pending[2].nl
        BY <2>6, <1>8
      <4> QED
        BY <4>1, <2>3, <1>2
    <3>2. Len(Enqueued) = 2 /\ Enqueued[1] = Start(l) /\ Enqueued[2] = Stop(l)
      BY <3>1, <2>1, <2>2, <2>6, <1>7
    <3>3. l \in Line
      BY DEF Written
    <3>4. Enqueued = LineOctets(l)
      BY <3>2, <3>3, <1>7, LineOfTwo
    <3>5. Said = l
      BY <3>2, <3>4, <1>8, <1>13
    <3>6. CASE l \in Announcing
      BY <3>1, <3>5, <3>6, <2>6, <1>5, <1>9, <1>11, <1>14 DEF Follows
    <3>7. CASE l \notin Announcing
      <4>1. Stop(l) \in Closing
        BY <3>7 DEF Closing
      <4> QED
        BY <4>1, <3>1, <3>5, <3>7, <2>6, <1>5, <1>9, <1>11, <1>14 DEF Follows
    <3> QED
      BY <3>6, <3>7
  <2>7. CASE l = Other
    <3> DEFINE B == {i \in 1..LineEnd : pending[i] \notin {Start(Other), Stop(Other)}}
    <3>1. B = {}
      <4>1. SUFFICES ASSUME B # {}
                     PROVE  FALSE
        OBVIOUS
      <4>2. B \in SUBSET Nat
        BY <1>2
      <4>3. PICK k \in B : \A j \in B : k <= j
        BY <4>1, <4>2, Least
      <4>4. k # 1 /\ k \in 1..LineEnd
        BY <2>1, <2>7
      <4>5. k - 1 \in 1..(LineEnd - 1) /\ (k - 1) + 1 = k /\ k - 1 \notin B
        BY <4>3, <4>4, <1>2
      <4>6. pending[k - 1] \in {Start(Other), Stop(Other)}
        BY <4>5, <1>2
      <4>7. pending[k - 1] = Start(Other)
        BY <4>5, <4>6, <1>2, <1>8
      <4>8. Follows(Start(Other), pending[k]) /\ Other \in Written
        BY <4>5, <4>7, <2>4, LineTypes
      <4>9. pending[k] \in {Start(Other), Stop(Other)}
        BY <4>8 DEF Follows
      <4> QED
        BY <4>3, <4>9
    <3>2. pending[LineEnd] \in {Start(Other), Stop(Other)}
      BY <3>1, <1>2
    <3>3. pending[LineEnd] = Stop(Other)
      BY <3>2, <1>2, <1>8
    <3> QED
      BY <3>3, <1>5, <1>11, <1>15, <1>16
  <2> QED
    BY <2>5, <2>6, <2>7
<1> QED
  BY <1>5, <1>17, <1>18 DEF Opening

\* Behind a literal of the command before, no line is parsed when it is taken,
\* and the first that says something is the late completion.
LEMMA LineBehind ==
  ASSUME TypeOK, ScanSound, TakeLine, wire' = wire, NEW k \in {0, 1, 4, 6}, Behind(k)
  PROVE  /\ k = 0 => TakesLiteral /\ Parsed = 0 /\ (literal' = 2 => Behind(1)')
         /\ k = 1 => TakesLiteral /\ Parsed = 2 /\ (literal' = 0 => Behind(4)')
         /\ k = 4 => ~TakesLiteral /\ Said = Other /\ (literal' = 0 => Behind(6)')
         /\ k = 6 => ~TakesLiteral /\ Said = Tagged(FALSE, TRUE)
<1>1. /\ pending \in Seq(Octet) /\ wire \in Seq(Octet) /\ raw \in Seq(Octet)
      /\ scanned \in Nat /\ literal \in Nat /\ NewLines # {}
      /\ raw' = SubSeq(Enqueued, Parsed + 1, Len(Enqueued))
  BY DEF TypeOK, TakeLine
<1>2. /\ LineEnd \in 1..Len(pending) /\ pending[LineEnd].nl /\ LineEnd \in Nat
      /\ \A i \in 1..(LineEnd - 1) : ~pending[i].nl
      /\ Len(pending) \in Nat
  BY <1>1, LineFound, LenProperties
<1>3. /\ Len(raw) \in Nat /\ Enqueued \in Seq(Octet) /\ Len(Enqueued) = Len(raw) + LineEnd
      /\ \A i \in 1..Len(raw) : Enqueued[i] = raw[i]
      /\ \A i \in 1..LineEnd : Enqueued[Len(raw) + i] = pending[i]
      /\ FirstEnd \in 1..Len(Enqueued) /\ Enqueued[FirstEnd].nl
      /\ \A j \in 1..(FirstEnd - 1) : ~Enqueued[j].nl
  BY <1>1, Parsing
<1>4. \A i \in 1..Len(pending) : i + k <= 6 => pending[i] = StaleScript[i + k]
  BY <1>1, <1>2, RestFacts DEF Behind
<1>5. \A i \in 1..Len(Rest') : i + (k + LineEnd) <= 6 => Rest'[i] = StaleScript[i + (k + LineEnd)]
  <2> SUFFICES ASSUME NEW i \in 1..Len(Rest'), i + (k + LineEnd) <= 6
               PROVE  Rest'[i] = StaleScript[i + (k + LineEnd)]
    OBVIOUS
  <2>1. /\ Rest' \in Seq(Octet) /\ Rest \in Seq(Octet) /\ Len(Rest') + LineEnd <= Len(Rest)
        /\ Rest'[i] = Rest[i + LineEnd]
    BY TakesOff DEF Within
  <2>2. Len(Rest') \in Nat /\ Len(Rest) \in Nat
    BY <2>1, LenProperties
  <2>3. i + LineEnd \in 1..Len(Rest) /\ (i + LineEnd) + k <= 6 /\ (i + LineEnd) + k = i + (k + LineEnd)
    BY <2>1, <2>2, <1>2
  <2> QED
    BY <2>1, <2>3 DEF Behind
<1>6. /\ StaleScript[3] = Start(Other) /\ StaleScript[4] = Stop(Other)
      /\ StaleScript[5] = Start(Tagged(FALSE, TRUE)) /\ StaleScript[6] = Stop(Tagged(FALSE, TRUE))
  BY StaleTypes
<1>7. \A l : ~Start(l).nl /\ Stop(l).nl /\ Stop(l).of = l /\ "of" \in DOMAIN Stop(l)
  BY DEF Start, Stop
<1>15. /\ StaleScript[1].nl /\ ~StaleScript[2].nl /\ ~StaleScript[3].nl
       /\ StaleScript[4].nl /\ ~StaleScript[5].nl /\ StaleScript[6].nl
  BY StaleTypes, <1>6, <1>7
<1>8. Other \in Line /\ Tagged(FALSE, TRUE) \in Line
  BY LineTypes DEF Written
<1> DEFINE s1 == SubSeq(StaleScript, 1, 1)
<1>9. s1 \in Seq(Octet) /\ Len(s1) = 1 /\ s1[1] = StaleScript[1]
  <2>1. StaleScript \in Seq(Octet) /\ 1 \in 0..Len(StaleScript)
    BY StaleTypes
  <2> QED
    BY <2>1, Stretch
<1> HIDE DEF s1
\* A line held is parsed before the one taken.
<1>10. ASSUME NEW l \in Line, raw = LineOctets(l), literal = 0
       PROVE  /\ Parsed = 2 /\ Said = l /\ ~TakesLiteral /\ Len(raw) = 2
              /\ raw' = SubSeq(Enqueued, 3, 2 + LineEnd)
  <2>1. Len(raw) = 2 /\ raw[1] = Start(l) /\ raw[2] = Stop(l)
    BY <1>10, LineIsTwo
  <2>2. Enqueued[1] = Start(l) /\ Enqueued[2] = Stop(l) /\ Len(Enqueued) = 2 + LineEnd
    BY <2>1, <1>3
  <2>3. FirstEnd = 2
    <3>1. Enqueued[2].nl /\ ~Enqueued[1].nl
      BY <2>2, <1>7
    <3> QED
      BY <3>1, <1>3, <2>2, <1>2
  <2>4. Parsed = 2 /\ ~TakesLiteral
    BY <2>3, <1>10 DEF Parsed, TakesLiteral
  <2> DEFINE s == SubSeq(Enqueued, 1, 2)
  <2>5. s \in Seq(Octet) /\ Len(s) = 2 /\ s[1] = Start(l) /\ s[2] = Stop(l)
    BY <2>2, <1>2, <1>3, Stretch
  <2>6. s = LineOctets(l)
    BY <2>5, LineOfTwo
  <2>7. Said = IF "of" \in DOMAIN s[Len(s)] /\ s = LineOctets(s[Len(s)].of)
               THEN s[Len(s)].of ELSE Other
    BY <2>4 DEF Said
  <2> HIDE DEF s
  <2>8. Said = l
    BY <2>5, <2>6, <2>7, <1>7
  <2> QED
    BY <2>1, <2>2, <2>4, <2>8, <1>1
<1>11. CASE k = 0
  <2>1. literal = 2 /\ raw = <<>> /\ Len(raw) = 0
    BY <1>11 DEF Behind
  <2>2. LineEnd = 1
    <3>1. pending[1] = StaleScript[1]
      BY <1>2, <1>4, <1>11
    <3> QED
      BY <3>1, <1>2, <1>15
  <2>3. Len(Enqueued) = 1 /\ Enqueued[1] = StaleScript[1]
    BY <2>1, <2>2, <1>2, <1>3, <1>4, <1>11
  <2>4. TakesLiteral /\ Parsed = 0
    BY <2>1, <2>3 DEF TakesLiteral, Parsed
  <2>5. raw' = s1
    <3>1. raw' = Enqueued
      BY <2>3, <2>4, <1>1, <1>3, SubSeqFull
    <3>2. \A i \in 1..1 : Enqueued[i] = s1[i]
      BY <2>3, <1>9
    <3>3. Enqueued = s1
      BY <3>2, <2>3, <1>3, <1>9, SeqEqual
    <3> QED
      BY <3>1, <3>3
  <2>6. literal' = 2 => Behind(1)'
    BY <2>2, <2>5, <1>5, <1>11 DEF Behind, s1
  <2> QED
    BY <2>4, <2>6, <1>11
<1>12. CASE k = 1
  <2>1. literal = 2 /\ raw = s1
    BY <1>12 DEF Behind, s1
  <2>2. LineEnd = 3
    <3>1. /\ LineEnd >= 1 => pending[1] = StaleScript[2]
          /\ LineEnd >= 2 => pending[2] = StaleScript[3]
          /\ LineEnd >= 3 => pending[3] = StaleScript[4]
      BY <1>2, <1>4, <1>12
    <3>2. LineEnd # 1 /\ LineEnd # 2
      BY <3>1, <1>2, <1>15
    <3>3. ~(LineEnd > 3)
      <4>1. SUFFICES ASSUME LineEnd > 3
                     PROVE  FALSE
        OBVIOUS
      <4>2. ~pending[3].nl
        BY <4>1, <1>2
      <4> QED
        BY <4>1, <4>2, <3>1, <1>2, <1>15
    <3> QED
      BY <3>2, <3>3, <1>2
  <2>3. Len(Enqueued) = 4 /\ Enqueued[3] = StaleScript[3] /\ Enqueued[4] = StaleScript[4]
    <3>1. Len(raw) = 1 /\ pending[2] = StaleScript[3] /\ pending[3] = StaleScript[4]
      BY <2>1, <2>2, <1>2, <1>4, <1>9, <1>12
    <3>2. Enqueued[1 + 2] = pending[2] /\ Enqueued[1 + 3] = pending[3]
      BY <3>1, <2>2, <1>3
    <3> QED
      BY <3>1, <3>2, <2>2, <1>3
  <2>4. TakesLiteral /\ Parsed = 2
    BY <2>1, <2>3 DEF TakesLiteral, Parsed
  <2>5. raw' = LineOctets(Other)
    <3>1. raw' = SubSeq(Enqueued, 3, 4) /\ Enqueued \in Seq(Octet) /\ 4 \in 0..Len(Enqueued)
      BY <2>3, <2>4, <1>1, <1>3
    <3>2. /\ raw' \in Seq(Octet) /\ Len(raw') = 2
          /\ raw'[1] = Enqueued[3] /\ raw'[2] = Enqueued[4]
      BY <3>1, Stretch
    <3> QED
      BY <3>2, <2>3, <1>6, <1>8, LineOfTwo
  <2>6. literal' = 0 => Behind(4)'
    BY <2>2, <2>5, <1>5, <1>12 DEF Behind
  <2> QED
    BY <2>4, <2>6, <1>12
<1>13. CASE k = 4
  <2>1. literal = 0 /\ raw = LineOctets(Other)
    BY <1>13 DEF Behind
  <2>2. Parsed = 2 /\ Said = Other /\ ~TakesLiteral /\ Len(raw) = 2
        /\ raw' = SubSeq(Enqueued, 3, 2 + LineEnd)
    BY <2>1, <1>8, <1>10
  <2>3. LineEnd = 2
    <3>1. /\ LineEnd >= 1 => pending[1] = StaleScript[5]
          /\ LineEnd >= 2 => pending[2] = StaleScript[6]
      BY <1>2, <1>4, <1>13
    <3>2. LineEnd # 1
      BY <3>1, <1>2, <1>15
    <3>3. ~(LineEnd > 2)
      <4>1. SUFFICES ASSUME LineEnd > 2
                     PROVE  FALSE
        OBVIOUS
      <4>2. ~pending[2].nl
        BY <4>1, <1>2
      <4> QED
        BY <4>1, <4>2, <3>1, <1>2, <1>15
    <3> QED
      BY <3>2, <3>3, <1>2
  <2>4. Len(Enqueued) = 4 /\ Enqueued[3] = StaleScript[5] /\ Enqueued[4] = StaleScript[6]
    <3>1. pending[1] = StaleScript[5] /\ pending[2] = StaleScript[6]
      BY <2>3, <1>2, <1>4, <1>13
    <3>2. Enqueued[2 + 1] = pending[1] /\ Enqueued[2 + 2] = pending[2]
      BY <2>2, <2>3, <1>3
    <3> QED
      BY <3>1, <3>2, <2>2, <2>3, <1>3
  <2>5. raw' = LineOctets(Tagged(FALSE, TRUE))
    <3>1. raw' = SubSeq(Enqueued, 3, 4) /\ Enqueued \in Seq(Octet) /\ 4 \in 0..Len(Enqueued)
      BY <2>2, <2>3, <2>4, <1>3
    <3>2. /\ raw' \in Seq(Octet) /\ Len(raw') = 2
          /\ raw'[1] = Enqueued[3] /\ raw'[2] = Enqueued[4]
      BY <3>1, Stretch
    <3> QED
      BY <3>2, <2>4, <1>6, <1>8, LineOfTwo
  <2>6. literal' = 0 => Behind(6)'
    BY <2>3, <2>5, <1>5, <1>13 DEF Behind
  <2> QED
    BY <2>2, <2>6, <1>13
<1>14. CASE k = 6
  <2>1. literal = 0 /\ raw = LineOctets(Tagged(FALSE, TRUE))
    BY <1>14 DEF Behind
  <2>2. Said = Tagged(FALSE, TRUE) /\ ~TakesLiteral
    BY <2>1, <1>8, <1>10
  <2> QED
    BY <2>2, <1>14
<1> QED
  BY <1>11, <1>12, <1>13, <1>14

-----------------------------------------------------------------------------
(* Bodies.                                                                 *)

\* What is read while a body is under way is the body, up to its end.
LEMMA BodyRuns ==
  ASSUME pending \in Seq(Octet), wire \in Seq(Octet), Chain, InBody, st = "Stream",
         remaining > 0, NEW c \in 0..remaining, c <= Len(Rest)
  PROVE  /\ \A i \in 1..c : Rest[i] = InBodyAt(current, (Size(current) - remaining) + i)
         /\ c < Len(Rest) =>
              IF remaining - c > 0
                THEN Rest[c + 1] = InBodyAt(current, Size(current) - (remaining - c) + 1)
                ELSE Rest[c + 1] \in Opening
<1> DEFINE a == Size(current) - remaining
<1>1. /\ InStep /\ current \in Messages /\ remaining \in 1..Size(current) /\ Size(current) \in Nat
      /\ Rest # <<>> => Rest[1] = InBodyAt(current, a + 1)
  <2>1. InStep /\ current \in Messages /\ remaining \in 0..Size(current)
    BY DEF InBody
  <2>2. Size(current) \in Nat
    BY <2>1, Sizes
  <2>3. Rest # <<>> => Rest[1] = InBodyAt(current, a + 1)
    BY DEF InBody
  <2> QED
    BY <2>1, <2>2, <2>3
<1>2. /\ a \in Nat /\ remaining \in Nat /\ c \in Nat /\ Len(Rest) \in Nat /\ Rest \in Seq(Octet)
      /\ a + remaining = Size(current)
      /\ Rest = <<>> => Len(Rest) = 0
  BY <1>1, RestFacts
<1>3. \A i \in 1..(Len(Rest) - 1) : Follows(Rest[i], Rest[i + 1])
  BY <1>1 DEF Chain, Chained
<1>4. \A i \in 1..c : Rest[i] = InBodyAt(current, a + i)
  <2> DEFINE B == {i \in 1..c : Rest[i] # InBodyAt(current, a + i)}
  <2>1. SUFFICES ASSUME B # {}
                 PROVE  FALSE
    OBVIOUS
  <2>2. B \in SUBSET Nat
    OBVIOUS
  <2>3. PICK k \in B : \A j \in B : k <= j
    BY <2>1, <2>2, Least
  <2>4. k \in 1..c /\ k # 1 /\ Rest # <<>>
    BY <1>1, <1>2
  <2>5. /\ k - 1 \in 1..c /\ ~(k <= k - 1) /\ (k - 1) + 1 = k /\ k - 1 \in 1..(Len(Rest) - 1)
        /\ a + (k - 1) \in 1..(Size(current) - 1) /\ (a + (k - 1)) + 1 = a + k
    BY <2>4, <1>2
  <2>6. Rest[k - 1] = InBodyAt(current, a + (k - 1))
    BY <2>3, <2>5
  <2>7. Follows(InBodyAt(current, a + (k - 1)), Rest[k])
    BY <2>5, <2>6, <1>3
  <2>8. Rest[k] = InBodyAt(current, (a + (k - 1)) + 1)
    BY <2>5, <2>7, <1>1 DEF Follows
  <2>9. Rest[k] = InBodyAt(current, a + k)
    BY <2>5, <2>8
  <2> QED
    BY <2>3, <2>9
<1>5. ASSUME c < Len(Rest), remaining - c > 0
      PROVE  Rest[c + 1] = InBodyAt(current, Size(current) - (remaining - c) + 1)
  <2>1. Size(current) - (remaining - c) + 1 = a + (c + 1)
    BY <1>2
  <2>2. CASE c = 0
    BY <2>1, <2>2, <1>1, <1>2, <1>5
  <2>3. CASE c > 0
    <3>1. c \in 1..(Len(Rest) - 1) /\ a + c \in 1..(Size(current) - 1) /\ c \in 1..c
          /\ (a + c) + 1 = a + (c + 1)
      BY <2>3, <1>2, <1>5
    <3>2. Follows(InBodyAt(current, a + c), Rest[c + 1])
      BY <3>1, <1>3, <1>4
    <3>3. Rest[c + 1] = InBodyAt(current, (a + c) + 1)
      BY <3>1, <3>2, <1>1 DEF Follows
    <3> QED
      BY <3>1, <3>3, <2>1
  <2> QED
    BY <2>2, <2>3, <1>2
<1>6. ASSUME c < Len(Rest), ~(remaining - c > 0)
      PROVE  Rest[c + 1] \in Opening
  <2>1. c = remaining /\ c \in 1..c /\ c \in 1..(Len(Rest) - 1) /\ a + c = Size(current)
        /\ Size(current) > 0
    BY <1>1, <1>2, <1>6
  <2>2. Rest[c] = InBodyAt(current, Size(current))
    BY <2>1, <1>4
  <2>3. Rest[c] \in Closing
    BY <2>1, <2>2, <1>1 DEF Closing
  <2> QED
    BY <2>1, <2>3, <1>3 DEF Follows
<1> QED
  BY <1>4, <1>5, <1>6

\* The sink, with the next octets of the body.
LEMMA SinkGrows ==
  ASSUME NEW m \in Messages, NEW a \in 0..Size(m), NEW t \in Seq(Octet), a + Len(t) <= Size(m),
         \A i \in 1..Len(t) : t[i] = InBodyAt(m, a + i)
  PROVE  SubSeq(BodyOctets(m), 1, a) \o t = SubSeq(BodyOctets(m), 1, a + Len(t))
<1> DEFINE b == BodyOctets(m)
<1> DEFINE s == SubSeq(b, 1, a)
<1> DEFINE u == SubSeq(b, 1, a + Len(t))
<1>1. /\ b \in Seq(Octet) /\ Len(b) = Size(m) /\ Size(m) \in Nat
      /\ \A i \in 1..Size(m) : b[i] = InBodyAt(m, i)
  BY OctetTypes, Sizes
<1>2. Len(t) \in Nat /\ a \in Nat /\ a \in 0..Len(b) /\ a + Len(t) \in 0..Len(b)
  BY <1>1, LenProperties
<1>3. s \in Seq(Octet) /\ Len(s) = a /\ \A i \in 1..a : s[i] = b[i]
  BY <1>1, <1>2, Stretch
<1>4. u \in Seq(Octet) /\ Len(u) = a + Len(t) /\ \A i \in 1..(a + Len(t)) : u[i] = b[i]
  BY <1>1, <1>2, Stretch
<1> HIDE DEF b, s, u
<1>5. /\ s \o t \in Seq(Octet) /\ Len(s \o t) = a + Len(t)
      /\ \A i \in 1..(a + Len(t)) : (s \o t)[i] = IF i <= a THEN s[i] ELSE t[i - a]
  BY <1>3, ConcatProperties
<1>6. \A i \in 1..(a + Len(t)) : (s \o t)[i] = u[i]
  <2> SUFFICES ASSUME NEW i \in 1..(a + Len(t))
               PROVE  (s \o t)[i] = u[i]
    OBVIOUS
  <2>1. CASE i <= a
    BY <2>1, <1>2, <1>3, <1>4, <1>5
  <2>2. CASE ~(i <= a)
    <3>1. i - a \in 1..Len(t) /\ a + (i - a) = i /\ i \in 1..Size(m)
      BY <2>2, <1>1, <1>2
    <3>2. (s \o t)[i] = InBodyAt(m, i)
      BY <2>2, <3>1, <1>5
    <3> QED
      BY <3>1, <3>2, <1>1, <1>4
  <2> QED
    BY <2>1, <2>2
<1>7. s \o t = u
  BY <1>4, <1>5, <1>6, SeqEqual
<1> QED
  BY <1>7 DEF s, u, b

-----------------------------------------------------------------------------
(* The steps that take no octet off.                                       *)

LEMMA QuietStep ==
  ASSUME FInv, RequestTag \/ SendCommand \/ AnswerNoTag \/ FailLine \/ ReadEof
  PROVE  FInv'
<1>1. /\ st \notin {"Stream", "Done"} /\ st' \notin {"Stream"}
      /\ st' \in {st, FirstState, "Done"}
      /\ UNCHANGED <<pending, scanned, remaining, streamPending, raw, literal,
                     current, sink, committed, wire, batch, limit, plan, closed>>
  BY DEF RequestTag, SendCommand, AnswerNoTag, FailLine, ReadEof, Fails, Goto, Idle, Env,
         AwaitsLine, FirstState, sinkVars
<1>2. TypeOK'
  <2>1. /\ st' \in {"SendCommand", "Header", "NextItem", "Stream", "Trailer", "Done"}
        /\ tagRequested' \in BOOLEAN /\ endedBy' \subseteq Line
        /\ outcome' \in {"none", "Ok", "No", "Err"} /\ (outcome' = "none" <=> st' # "Done")
    BY DEF RequestTag, SendCommand, AnswerNoTag, FailLine, ReadEof, Fails, Goto,
           AwaitsLine, FInv, TypeOK, FirstState
  <2> QED
    BY <1>1, <2>1 DEF FInv, TypeOK
<1>3. Rest' = Rest /\ InStep' = InStep /\ FirstState' = FirstState
  BY <1>1 DEF Rest, InStep, FirstState
<1>4. ScanSound' /\ Chain' /\ BodiesExact' /\ Waits' /\ InBody'
  BY <1>1, <1>3 DEF FInv, ScanSound, Chain, BodiesExact, Waits, InBody, BodyOctets
<1>5. AtLine'
  BY <1>1, <1>3 DEF FInv, AtLine
<1>6. Lagging'
  BY <1>1, <1>3 DEF FInv, Lagging, Behind
<1> QED
  BY <1>2, <1>4, <1>5, <1>6 DEF FInv

LEMMA ReadStep ==
  ASSUME FInv, NEW n \in 1..Len(wire), ReadBytes(n)
  PROVE  FInv'
<1>1. /\ pending \in Seq(Octet) /\ wire \in Seq(Octet) /\ scanned \in Nat
      /\ st \notin {"Stream", "Done"} /\ NewLines = {}
      /\ scanned' = Len(pending)
      /\ pending' = pending \o SubSeq(wire, 1, n) /\ wire' = SubSeq(wire, n + 1, Len(wire))
      /\ UNCHANGED <<st, tagRequested, remaining, streamPending, outcome, endedBy, raw, literal,
                     current, sink, committed, closed, batch, limit, plan>>
  BY DEF FInv, TypeOK, ReadBytes, AwaitsLine, Env, sinkVars
<1>2. /\ Len(wire) \in Nat /\ Len(pending) \in Nat
      /\ SubSeq(wire, 1, n) \in Seq(Octet) /\ wire' \in Seq(Octet)
  BY <1>1, LenProperties, Stretch
<1> DEFINE t == SubSeq(wire, 1, n)
<1>3. /\ pending' \in Seq(Octet) /\ Len(pending') = Len(pending) + Len(t) /\ Len(t) \in Nat
      /\ \A i \in 1..Len(pending) : pending'[i] = pending[i]
  <2>1. t \in Seq(Octet) /\ Len(t) \in Nat /\ pending' = pending \o t
    BY <1>1, <1>2, LenProperties
  <2> HIDE DEF t
  <2>2. /\ pending \o t \in Seq(Octet) /\ Len(pending \o t) = Len(pending) + Len(t)
        /\ \A i \in 1..(Len(pending) + Len(t)) :
             (pending \o t)[i] = IF i <= Len(pending) THEN pending[i] ELSE t[i - Len(pending)]
    BY <2>1, <1>1, ConcatProperties
  <2> QED
    BY <2>1, <2>2, <1>2
<1>4. TypeOK'
  BY <1>1, <1>2, <1>3 DEF FInv, TypeOK
<1>5. Rest' = Rest /\ InStep' = InStep /\ FirstState' = FirstState
  <2>1. (pending \o SubSeq(wire, 1, n)) \o SubSeq(wire, n + 1, Len(wire)) = pending \o wire
    <3>1. n \in 0..Len(wire)
      BY <1>2
    <3> QED
      BY <3>1, <1>1, Rejoined
  <2> QED
    BY <1>1, <2>1 DEF Rest, InStep, FirstState
<1>6. ScanSound'
  <2>1. ASSUME NEW i \in 1..Len(pending)
        PROVE  ~pending'[i].nl
    <3>1. i <= scanned => ~pending[i].nl
      BY <1>1, <1>2 DEF FInv, ScanSound
    <3>2. ASSUME i > scanned, pending[i].nl
          PROVE  FALSE
      <4>1. i \in (scanned + 1)..Len(pending)
        BY <3>2, <1>1, <1>2
      <4>2. i \in NewLines
        BY <4>1, <3>2 DEF NewLines
      <4> QED
        BY <4>2, <1>1
    <3> QED
      BY <3>1, <3>2, <1>1, <1>2, <1>3
  <2> QED
    BY <2>1, <1>1, <1>2, <1>3 DEF ScanSound
<1>7. Chain' /\ AtLine' /\ Lagging'
  BY <1>1, <1>5 DEF FInv, Chain, AtLine, Lagging, Behind
<1>8. InBody' /\ Waits' /\ BodiesExact'
  BY <1>1 DEF FInv, InBody, Waits, BodiesExact, BodyOctets
<1> QED
  BY <1>4, <1>6, <1>7, <1>8 DEF FInv

\* A connection that breaks leaves the octets in order.
LEMMA CutStep ==
  ASSUME FInv, NEW n \in 0..Len(wire), Cut(n)
  PROVE  FInv'
<1>1. /\ pending \in Seq(Octet) /\ wire \in Seq(Octet)
      /\ closed' = TRUE /\ wire' = SubSeq(wire, 1, n)
      /\ UNCHANGED <<st, tagRequested, pending, scanned, remaining, streamPending, outcome, endedBy,
                     raw, literal, current, sink, committed, batch, limit, plan>>
  BY DEF FInv, TypeOK, Cut, Env, sinkVars, fetchVars
<1>2. Len(wire) \in Nat /\ Len(pending) \in Nat /\ wire' \in Seq(Octet)
  BY <1>1, LenProperties, Stretch
<1>3. TypeOK'
  BY <1>1, <1>2 DEF FInv, TypeOK
<1>4. Within(Rest', Rest, 0)
  <2>1. pending' = SubSeq(pending, 0 + 1, Len(pending))
    BY <1>1, SubSeqFull
  <2>2. Within(SubSeq(pending, 0 + 1, Len(pending)) \o SubSeq(wire, 1, n), pending \o wire, 0)
    BY <1>1, <1>2, Remains
  <2> QED
    BY <2>1, <2>2, <1>1 DEF Rest
<1>5. /\ Len(Rest') \in Nat /\ Len(Rest) \in Nat /\ Len(Rest') <= Len(Rest)
      /\ \A i \in 1..Len(Rest') : Rest'[i] = Rest[i]
      /\ Rest' # <<>> => Rest # <<>> /\ Rest'[1] = Rest[1]
  <2>1. /\ Rest' \in Seq(Octet) /\ Rest \in Seq(Octet) /\ Len(Rest') + 0 <= Len(Rest)
        /\ \A i \in 1..Len(Rest') : Rest'[i] = Rest[i + 0]
    BY <1>4 DEF Within
  <2>2. Len(Rest') \in Nat /\ Len(Rest) \in Nat
    BY <2>1, LenProperties
  <2>3. \A i \in 1..Len(Rest') : Rest'[i] = Rest[i]
    BY <2>1, <2>2
  <2>4. Rest' # <<>> => Len(Rest') \in Nat \ {0}
    BY <2>1, EmptySeq
  <2>5. Rest = <<>> => Len(Rest) = 0
    BY EmptySeq
  <2> QED
    BY <2>1, <2>2, <2>3, <2>4, <2>5
<1>6. InStep' = InStep /\ FirstState' = FirstState
  BY <1>1 DEF InStep, FirstState
<1>7. Chain'
  BY <1>4, <1>6, ChainedWithin DEF FInv, Chain
<1>8. AtLine'
  BY <1>1, <1>5, <1>6 DEF FInv, AtLine
<1>9. InBody'
  BY <1>1, <1>5, <1>6 DEF FInv, InBody, BodyOctets
<1>10. Lagging'
  <2>1. ASSUME NEW k \in {0, 1, 4, 6}, Behind(k)
        PROVE  Behind(k)'
    <3>1. \A i \in 1..Len(Rest') : i + k <= 6 => Rest'[i] = StaleScript[i + k]
      BY <2>1, <1>5 DEF Behind
    <3> QED
      BY <3>1, <2>1, <1>1 DEF Behind
  <2> QED
    BY <2>1, <1>1, <1>6 DEF FInv, Lagging
<1>11. ScanSound' /\ Waits' /\ BodiesExact'
  BY <1>1 DEF FInv, ScanSound, Waits, BodiesExact, BodyOctets
<1> QED
  BY <1>3, <1>7, <1>8, <1>9, <1>10, <1>11 DEF FInv

-----------------------------------------------------------------------------
(* The steps that take a line off.                                         *)

\* What holds after each of them.
LEMMA LineStep ==
  ASSUME FInv, TakeLine, wire' = wire, plan' = plan
  PROVE  /\ pending' \in Seq(Octet) /\ raw' \in Seq(Octet) /\ wire' \in Seq(Octet)
         /\ scanned' = 0
         /\ ScanSound' /\ Chain' /\ InStep' = InStep
         /\ st \notin {"Stream", "Done"} /\ streamPending = FALSE
<1>1. /\ pending' \in Seq(Octet) /\ raw' \in Seq(Octet) /\ wire' \in Seq(Octet)
      /\ scanned' = 0 /\ Within(Rest', Rest, LineEnd) /\ LineEnd \in Nat
  BY TakesOff DEF FInv
<1>2. InStep' = InStep
  BY DEF InStep
<1>3. Chain'
  BY <1>1, <1>2, ChainedWithin DEF FInv, Chain
<1>4. ScanSound'
  <2>1. Len(pending') \in Nat
    BY <1>1, LenProperties
  <2> QED
    BY <2>1, <1>1 DEF ScanSound
<1>5. st \notin {"Stream", "Done"} /\ streamPending = FALSE
  BY DEF TakeLine, AwaitsLine, FInv, Waits, TypeOK
<1> QED
  BY <1>1, <1>2, <1>3, <1>4, <1>5

\* A line parsed is one the server wrote.
LEMMA SaidTyped ==
  ASSUME FInv, TakeLine, ~TakesLiteral
  PROVE  Said \in Line
<1>1. /\ Enqueued \in Seq(Octet) /\ FirstEnd \in 1..Len(Enqueued) /\ Parsed = FirstEnd
  BY Parsing DEF FInv, TypeOK, TakeLine, TakesLiteral, Parsed
<1> QED
  BY <1>1, SaidIsLine

\* A line passed over.
LEMMA SkipStep ==
  ASSUME FInv, SkipFragment \/ SkipLine
  PROVE  FInv'
<1>1. /\ TakeLine /\ wire' = wire /\ literal' \in {0, literal}
      /\ UNCHANGED <<st, tagRequested, remaining, streamPending, outcome, endedBy,
                     current, sink, committed, wire, closed, batch, limit, plan>>
  BY DEF SkipFragment, SkipLine, Env, sinkVars
<1>2. /\ pending' \in Seq(Octet) /\ raw' \in Seq(Octet) /\ wire' \in Seq(Octet)
      /\ scanned' = 0 /\ ScanSound' /\ Chain' /\ InStep' = InStep
      /\ st \notin {"Stream", "Done"} /\ streamPending = FALSE
  BY <1>1, LineStep
<1>3. TypeOK'
  BY <1>1, <1>2 DEF FInv, TypeOK
<1>4. AtLine'
  <2> SUFFICES ASSUME InStep
               PROVE  /\ literal' = 0 /\ (Rest' # <<>> => Rest'[1] \in Opening)
                      /\ raw' = <<>>
    BY <1>2 DEF AtLine
  <2>1. /\ literal = 0 /\ raw' = <<>>
        /\ Rest' # <<>> => IF Said \in Announcing THEN Rest'[1] = InBodyAt(Said.msg, 1)
                           ELSE Rest'[1] \in Opening
    BY <1>1, LineInStep DEF FInv
  <2>2. Said = Other
    BY <2>1 DEF SkipFragment, SkipLine, TakesLiteral
  <2>3. Other \notin Announcing
    BY LineTypes
  <2> QED
    BY <2>1, <2>2, <2>3, <1>1
<1>5. Lagging'
  <2> SUFFICES ASSUME ~InStep
               PROVE  \E k \in {0, 1, 4, 6} : Behind(k)'
    BY <1>1, <1>2 DEF FInv, Lagging, FirstState
  <2>1. PICK k \in {0, 1, 4, 6} : Behind(k)
    BY <1>2 DEF FInv, Lagging
  <2>2. /\ k = 0 => TakesLiteral /\ Parsed = 0 /\ (literal' = 2 => Behind(1)')
        /\ k = 1 => TakesLiteral /\ Parsed = 2 /\ (literal' = 0 => Behind(4)')
        /\ k = 4 => ~TakesLiteral /\ Said = Other /\ (literal' = 0 => Behind(6)')
        /\ k = 6 => ~TakesLiteral /\ Said = Tagged(FALSE, TRUE)
    BY <2>1, <1>1, LineBehind DEF FInv
  <2>3. literal = IF k < 2 THEN 2 ELSE 0
    BY <2>1 DEF Behind
  <2>4. CASE k = 0
    <3>1. SkipFragment /\ literal' = 2
      BY <2>2, <2>3, <2>4 DEF SkipFragment, SkipLine
    <3> QED
      BY <3>1, <2>2, <2>4
  <2>5. CASE k = 1
    <3>1. SkipFragment /\ literal' = 0
      BY <2>2, <2>3, <2>5 DEF SkipFragment, SkipLine
    <3> QED
      BY <3>1, <2>2, <2>5
  <2>6. CASE k = 4
    <3>1. literal' = 0
      BY <2>3, <2>6, <1>1
    <3> QED
      BY <3>1, <2>2, <2>6
  <2>7. CASE k = 6
    <3>1. Said = Other
      BY <2>2, <2>7 DEF SkipFragment, SkipLine
    <3>2. Tagged(FALSE, TRUE).type = "tagged" /\ Other.type = "other"
      BY DEF Tagged, Other
    <3> QED
      BY <3>1, <3>2, <2>2, <2>7
  <2> QED
    BY <2>4, <2>5, <2>6, <2>7
<1>6. InBody' /\ Waits' /\ BodiesExact'
  BY <1>1, <1>2 DEF FInv, InBody, Waits, BodiesExact, BodyOctets
<1> QED
  BY <1>2, <1>3, <1>4, <1>5, <1>6 DEF FInv

\* A line that ends the fetch.
LEMMA EndStep ==
  ASSUME FInv, EndOfFetch \/ RefuseBody
  PROVE  FInv'
<1>1. /\ TakeLine /\ ~TakesLiteral /\ st' = "Done" /\ wire' = wire
      /\ UNCHANGED <<tagRequested, remaining, streamPending,
                     current, sink, committed, wire, closed, batch, limit, plan>>
  BY DEF EndOfFetch, RefuseBody, Announces, Env, sinkVars
<1>2. /\ pending' \in Seq(Octet) /\ raw' \in Seq(Octet) /\ wire' \in Seq(Octet)
      /\ scanned' = 0 /\ ScanSound' /\ Chain' /\ InStep' = InStep
      /\ st \notin {"Stream", "Done"} /\ streamPending = FALSE
  BY <1>1, LineStep
<1>3. Said \in Line
  BY <1>1, SaidTyped
<1>4. outcome' \in {"Ok", "No", "Err"} /\ endedBy' \subseteq Line /\ literal' \in Nat
  <2>1. CASE EndOfFetch
    BY <2>1, <1>3 DEF EndOfFetch, Verdict, FInv, TypeOK
  <2>2. CASE RefuseBody
    <3>1. Said.msg \in Messages
      BY <2>2, <1>3 DEF RefuseBody, Announces, Line
    <3>2. literal' = Size(Said.msg)
      BY <2>2 DEF RefuseBody, Announces, Size
    <3> QED
      BY <2>2, <3>1, <3>2, Sizes DEF RefuseBody
  <2> QED
    BY <2>1, <2>2
<1>5. TypeOK'
  BY <1>1, <1>2, <1>4 DEF FInv, TypeOK
<1>6. AtLine' /\ Lagging' /\ InBody' /\ Waits' /\ BodiesExact'
  BY <1>1, <1>2 DEF FInv, AtLine, Lagging, InBody, Waits, BodiesExact, BodyOctets
<1> QED
  BY <1>2, <1>5, <1>6 DEF FInv

\* A header that is accepted: the sink opened is that of its message.
LEMMA HeaderStep ==
  ASSUME FInv, StartBody \/ StartMessage
  PROVE  /\ InStep /\ raw' = <<>> /\ Said \in Written
         /\ Rest' # <<>> => IF Said \in Announcing THEN Rest'[1] = InBodyAt(Said.msg, 1)
                            ELSE Rest'[1] \in Opening
         /\ Said.msg \in Messages /\ current' = Said.msg
<1>1. /\ TakeLine /\ ~TakesLiteral /\ Said.type = "header" /\ wire' = wire
      /\ st' = "Stream" /\ st \in {"Header", "NextItem"}
      /\ literal' = Size(Said.msg) /\ remaining' = Size(Said.msg) /\ sink' = <<>>
      /\ UNCHANGED <<tagRequested, outcome, endedBy, streamPending, committed, wire, closed,
                     batch, limit, plan>>
  BY DEF StartBody, StartMessage, Announces, Goto, Env, Size
<1>2. /\ pending' \in Seq(Octet) /\ raw' \in Seq(Octet) /\ wire' \in Seq(Octet)
      /\ scanned' = 0 /\ ScanSound' /\ Chain' /\ InStep' = InStep
      /\ st \notin {"Stream", "Done"} /\ streamPending = FALSE
  BY <1>1, LineStep
<1>3. InStep
  <2> SUFFICES ASSUME ~InStep
               PROVE  FALSE
    OBVIOUS
  <2>1. PICK k \in {0, 1, 4, 6} : Behind(k)
    BY <1>2 DEF FInv, Lagging
  <2>2. Said = Other \/ Said = Tagged(FALSE, TRUE)
    BY <2>1, <1>1, LineBehind DEF FInv
  <2>3. Tagged(FALSE, TRUE).type = "tagged" /\ Other.type = "other"
    BY DEF Tagged, Other
  <2> QED
    BY <2>2, <2>3, <1>1
<1>4. /\ raw' = <<>> /\ Said \in Written
      /\ Rest' # <<>> => IF Said \in Announcing THEN Rest'[1] = InBodyAt(Said.msg, 1)
                         ELSE Rest'[1] \in Opening
  BY <1>1, <1>3, LineInStep DEF FInv
<1>5. Said.msg \in Messages /\ Said.uid \in {0, Said.msg}
  BY <1>1, <1>4 DEF Written, Line
<1>6. current' = Said.msg
  BY <1>5 DEF StartBody, StartMessage, Accepts
<1> QED
  BY <1>3, <1>4, <1>5, <1>6

\* A header, after which the body comes.
LEMMA StartStep ==
  ASSUME FInv, StartBody \/ StartMessage
  PROVE  FInv'
<1>1. /\ TakeLine /\ ~TakesLiteral /\ Said.type = "header" /\ wire' = wire
      /\ st' = "Stream" /\ st \in {"Header", "NextItem"}
      /\ literal' = Size(Said.msg) /\ remaining' = Size(Said.msg) /\ sink' = <<>>
      /\ UNCHANGED <<tagRequested, outcome, endedBy, streamPending, committed, wire, closed,
                     batch, limit, plan>>
  BY DEF StartBody, StartMessage, Announces, Goto, Env, Size
<1>2. /\ pending' \in Seq(Octet) /\ raw' \in Seq(Octet) /\ wire' \in Seq(Octet)
      /\ scanned' = 0 /\ ScanSound' /\ Chain' /\ InStep' = InStep
      /\ st \notin {"Stream", "Done"} /\ streamPending = FALSE
  BY <1>1, LineStep
<1>3. InStep
  BY HeaderStep
<1>4. /\ raw' = <<>> /\ Said \in Written
      /\ Rest' # <<>> => IF Said \in Announcing THEN Rest'[1] = InBodyAt(Said.msg, 1)
                         ELSE Rest'[1] \in Opening
  BY HeaderStep
<1>5. Said.msg \in Messages
  BY HeaderStep
<1>6. current' = Said.msg
  BY HeaderStep
<1>7. Size(Said.msg) \in Nat /\ Said.msg \in 0..Len(Bodies)
  BY <1>5, Sizes DEF Messages
<1>8. TypeOK'
  <2>1. sink' \in Seq(Octet)
    BY <1>1, EmptySeq
  <2> QED
    BY <1>1, <1>2, <1>6, <1>7, <2>1 DEF FInv, TypeOK
<1>9. sink' = SubSeq(BodyOctets(Said.msg), 1, 0)
  BY <1>1, SubSeqEmpty
<1>10. InBody'
  <2>1. Rest' # <<>> =>
          IF remaining' > 0
            THEN Rest'[1] = InBodyAt(current', Size(current') - remaining' + 1)
            ELSE Rest'[1] \in Opening
    <3>1. Said \in Announcing <=> remaining' > 0
      BY <1>1, <1>4 DEF Announcing
    <3>2. Size(current') - remaining' + 1 = 1
      BY <1>1, <1>6, <1>7
    <3> QED
      BY <3>1, <3>2, <1>4, <1>6
  <2>2. remaining' \in 0..Size(current') /\ Size(current') - remaining' = 0
    BY <1>1, <1>6, <1>7
  <2> QED
    BY <2>1, <2>2, <1>2, <1>3, <1>4, <1>5, <1>6, <1>9 DEF InBody, Size, BodyOctets, InBodyAt
<1>11. BodiesExact'
  <2>1. 0 \in 0..Size(current')
    BY <1>6, <1>7
  <2>2. sink' = SubSeq(BodyOctets(current'), 1, 0)
    BY <1>6, <1>9
  <2> QED
    BY <2>1, <2>2, <1>1 DEF FInv, BodiesExact, BodyOctets, Size
<1>12. AtLine' /\ Lagging' /\ Waits'
  BY <1>1, <1>2, <1>3 DEF AtLine, Lagging, Waits
<1> QED
  BY <1>2, <1>8, <1>10, <1>11, <1>12 DEF FInv

-----------------------------------------------------------------------------
(* The steps within a body.                                                *)

LEMMA ChunkStep ==
  ASSUME FInv, BodyChunk
  PROVE  FInv'
<1>1. /\ st = "Stream" /\ remaining \in Nat /\ remaining > 0 /\ pending # <<>>
      /\ pending \in Seq(Octet) /\ wire \in Seq(Octet)
      /\ sink' = sink \o SubSeq(pending, 1, Chunk)
      /\ pending' = SubSeq(pending, Chunk + 1, Len(pending))
      /\ UNCHANGED <<st, tagRequested, scanned, streamPending, outcome, endedBy, raw, literal,
                     current, committed, wire, closed, batch, limit, plan>>
  BY DEF FInv, TypeOK, BodyChunk, Env
<1>2. Len(pending) \in Nat /\ Len(pending) > 0 /\ Len(wire) \in Nat
  BY <1>1, LenProperties, EmptySeq
<1>3. /\ Chunk \in 1..remaining /\ Chunk \in 1..Len(pending)
      /\ remaining' = remaining - Chunk /\ remaining' \in Nat
  <2>1. Chunk \in 1..remaining /\ Chunk \in 1..Len(pending)
    BY <1>1, <1>2 DEF Chunk
  <2>2. remaining' = IF Chunk < remaining THEN remaining - Chunk ELSE 0
    BY DEF BodyChunk
  <2> QED
    BY <2>1, <2>2, <1>1
<1> DEFINE c == Chunk
<1> HIDE DEF c
<1> DEFINE t == SubSeq(pending, 1, c)
<1>4. /\ t \in Seq(Octet) /\ Len(t) = c /\ \A i \in 1..c : t[i] = pending[i]
      /\ pending' \in Seq(Octet)
  BY <1>1, <1>2, <1>3, Stretch DEF c
<1> HIDE DEF t
<1>5. /\ Rest \in Seq(Octet) /\ Len(Rest) = Len(pending) + Len(wire)
      /\ \A i \in 1..Len(pending) : Rest[i] = pending[i]
  BY <1>1, RestFacts
<1>6. /\ current \in Messages /\ remaining \in 0..Size(current) /\ InStep /\ raw = <<>>
      /\ sink = SubSeq(BodyOctets(current), 1, Size(current) - remaining)
  BY <1>1 DEF FInv, InBody
<1>7. Size(current) \in Nat
  BY <1>6, Sizes
<1>8. /\ \A i \in 1..c : Rest[i] = InBodyAt(current, (Size(current) - remaining) + i)
      /\ c < Len(Rest) =>
           IF remaining - c > 0
             THEN Rest[c + 1] = InBodyAt(current, Size(current) - (remaining - c) + 1)
             ELSE Rest[c + 1] \in Opening
  <2>1. c \in 0..remaining /\ c <= Len(Rest)
    BY <1>1, <1>2, <1>3, <1>5 DEF c
  <2> QED
    BY <2>1, <1>1, BodyRuns DEF FInv
<1>9. sink' = SubSeq(BodyOctets(current), 1, Size(current) - remaining')
  <2> DEFINE a == Size(current) - remaining
  <2>1. a \in 0..Size(current) /\ a + Len(t) <= Size(current)
        /\ a + Len(t) = Size(current) - remaining'
    BY <1>3, <1>4, <1>6, <1>7 DEF c
  <2>2. \A i \in 1..Len(t) : t[i] = InBodyAt(current, a + i)
    BY <1>2, <1>3, <1>4, <1>5, <1>8 DEF c
  <2>3. sink' = SubSeq(BodyOctets(current), 1, a) \o t
    BY <1>1, <1>6 DEF t, c
  <2> HIDE DEF a
  <2>4. SubSeq(BodyOctets(current), 1, a) \o t = SubSeq(BodyOctets(current), 1, a + Len(t))
    BY <2>1, <2>2, <1>4, <1>6, SinkGrows
  <2> QED
    BY <2>1, <2>3, <2>4
<1>10. Within(Rest', Rest, c)
  <2>1. wire' = SubSeq(wire, 1, Len(wire))
    BY <1>1, SubSeqFull
  <2>2. Within(SubSeq(pending, c + 1, Len(pending)) \o SubSeq(wire, 1, Len(wire)),
               pending \o wire, c)
    BY <1>1, <1>2, <1>3, Remains DEF c
  <2>3. Rest' = SubSeq(pending, c + 1, Len(pending)) \o SubSeq(wire, 1, Len(wire))
    BY <2>1, <1>1 DEF Rest, c
  <2> QED
    BY <2>2, <2>3 DEF Rest
<1>11. Rest' # <<>> => c < Len(Rest) /\ Rest'[1] = Rest[c + 1]
  <2>1. /\ Rest' \in Seq(Octet) /\ Len(Rest') + c <= Len(Rest) /\ Len(Rest) \in Nat
        /\ \A i \in 1..Len(Rest') : Rest'[i] = Rest[i + c]
    BY <1>10, LenProperties DEF Within
  <2>2. Rest' # <<>> => Len(Rest') \in Nat \ {0}
    BY <2>1, EmptySeq
  <2> QED
    BY <2>1, <2>2, <1>2, <1>3 DEF c
<1>12. InBody'
  <2>1. Rest' # <<>> =>
          IF remaining' > 0 THEN Rest'[1] = InBodyAt(current, Size(current) - remaining' + 1)
          ELSE Rest'[1] \in Opening
    BY <1>3, <1>8, <1>11 DEF c
  <2>2. remaining' \in 0..Size(current)
    BY <1>3, <1>6, <1>7
  <2> QED
    BY <2>1, <2>2, <1>1, <1>6, <1>9 DEF InBody, BodyOctets, InStep
<1>13. Size(current) - remaining' \in 0..Size(current)
  BY <1>3, <1>6, <1>7
<1>14. BodiesExact'
  BY <1>1, <1>9, <1>13 DEF FInv, BodiesExact, BodyOctets, Size
<1>15. TypeOK'
  <2>1. sink' \in Seq(Octet)
    BY <1>6, <1>7, <1>9, <1>13, OctetTypes, Stretch
  <2> QED
    BY <2>1, <1>1, <1>3, <1>4 DEF FInv, TypeOK
<1>16. ScanSound'
  <2>1. Len(pending') \in Nat /\ scanned' = 0
    BY <1>1, <1>4, LenProperties DEF FInv, ScanSound
  <2> QED
    BY <2>1 DEF ScanSound
<1>17. Chain'
  <2>1. Chained(Rest) => Chained(Rest')
    BY <1>2, <1>3, <1>10, ChainedWithin DEF c
  <2> QED
    BY <2>1, <1>1 DEF FInv, Chain, InStep
<1>18. AtLine' /\ Lagging' /\ Waits'
  BY <1>1, <1>6 DEF FInv, AtLine, Lagging, Waits, InStep
<1> QED
  BY <1>12, <1>14, <1>15, <1>16, <1>17, <1>18 DEF FInv

\* The caller is asked to copy the rest.
LEMMA YieldStep ==
  ASSUME FInv, YieldStream
  PROVE  FInv'
<1>1. /\ st = "Stream" /\ remaining > 0 /\ pending = <<>> /\ streamPending' = TRUE
      /\ UNCHANGED <<st, tagRequested, pending, scanned, remaining, outcome, endedBy, raw, literal,
                     current, sink, committed, wire, closed, batch, limit, plan>>
  BY DEF YieldStream, Idle, Env, sinkVars
<1>2. Rest' = Rest /\ InStep' = InStep /\ FirstState' = FirstState
  BY <1>1 DEF Rest, InStep, FirstState
<1>3. TypeOK'
  BY <1>1 DEF FInv, TypeOK
<1> QED
  BY <1>1, <1>2, <1>3
     DEF FInv, ScanSound, Chain, AtLine, InBody, Waits, Lagging, BodiesExact, BodyOctets

\* The caller copies what there is of it.
LEMMA CopyStep ==
  ASSUME FInv, CopyBody \/ CopyShort
  PROVE  FInv'
<1> DEFINE c == IF Len(wire) >= remaining THEN remaining ELSE Len(wire)
<1>1. /\ st = "Stream" /\ streamPending /\ remaining \in Nat /\ pending \in Seq(Octet)
      /\ wire \in Seq(Octet) /\ raw \in Seq(Octet) /\ plan' = plan
      /\ UNCHANGED <<tagRequested, pending, scanned, raw, literal, current, committed, closed,
                     batch, limit, plan>>
  BY DEF FInv, TypeOK, CopyBody, CopyShort, Env
<1>2. pending = <<>> /\ remaining > 0 /\ Rest = wire /\ Len(wire) \in Nat /\ scanned = 0
  BY <1>1, RestFacts DEF FInv, Waits, ScanSound
<1>3. /\ c \in 0..remaining /\ c <= Len(wire) /\ c \in 0..Len(wire)
      /\ sink' = sink \o SubSeq(wire, 1, c) /\ wire' = SubSeq(wire, c + 1, Len(wire))
      /\ streamPending' = FALSE
  <2>1. CASE CopyBody
    <3>1. Len(wire) >= remaining /\ c = remaining /\ Copied = remaining
      BY <2>1, <1>1, <1>2 DEF CopyBody, Copied
    <3>2. /\ sink' = sink \o SubSeq(wire, 1, Copied) /\ wire' = SubSeq(wire, Copied + 1, Len(wire))
          /\ streamPending' = FALSE
      BY <2>1 DEF CopyBody
    <3> QED
      BY <3>1, <3>2, <1>1, <1>2
  <2>2. CASE CopyShort
    <3>1. /\ c = Len(wire) /\ c < remaining
          /\ sink' = sink \o wire /\ wire' = <<>> /\ streamPending' = FALSE
      BY <2>2, <1>1, <1>2 DEF CopyShort
    <3>2. SubSeq(wire, 1, Len(wire)) = wire
      BY <1>1, SubSeqFull
    <3>3. SubSeq(wire, Len(wire) + 1, Len(wire)) = <<>>
      BY <1>2, SubSeqEmpty
    <3>4. c \in 0..remaining /\ c <= Len(wire) /\ c \in 0..Len(wire)
      BY <3>1, <1>1, <1>2
    <3> HIDE DEF c
    <3>5. SubSeq(wire, 1, c) = wire /\ SubSeq(wire, c + 1, Len(wire)) = <<>>
      BY <3>1, <3>2, <3>3
    <3> QED
      BY <3>1, <3>4, <3>5
  <2> QED
    BY <2>1, <2>2
<1>4. \/ st' = "Stream" /\ remaining' = 0 /\ c = remaining /\ UNCHANGED <<outcome, endedBy>>
      \/ st' = "Done" /\ outcome' = "Err" /\ endedBy' = {} /\ UNCHANGED remaining
  BY <1>1 DEF CopyBody, CopyShort
<1> HIDE DEF c
<1> DEFINE t == SubSeq(wire, 1, c)
<1>5. /\ t \in Seq(Octet) /\ Len(t) = c /\ \A i \in 1..c : t[i] = wire[i]
      /\ wire' \in Seq(Octet) /\ Len(wire') = Len(wire) - c
      /\ \A i \in 1..(Len(wire) - c) : wire'[i] = wire[c + i]
  BY <1>1, <1>2, <1>3, Stretch
<1> HIDE DEF t
<1>6. /\ current \in Messages /\ remaining \in 0..Size(current) /\ InStep /\ raw = <<>>
      /\ sink = SubSeq(BodyOctets(current), 1, Size(current) - remaining)
  BY <1>1 DEF FInv, InBody
<1>7. Size(current) \in Nat
  BY <1>6, Sizes
<1>8. /\ \A i \in 1..c : wire[i] = InBodyAt(current, (Size(current) - remaining) + i)
      /\ c < Len(wire) =>
           IF remaining - c > 0
             THEN wire[c + 1] = InBodyAt(current, Size(current) - (remaining - c) + 1)
             ELSE wire[c + 1] \in Opening
  <2>1. c <= Len(Rest)
    BY <1>2, <1>3
  <2> QED
    BY <2>1, <1>1, <1>2, <1>3, BodyRuns DEF FInv
<1>9. /\ sink' = SubSeq(BodyOctets(current), 1, Size(current) - remaining + c)
      /\ Size(current) - remaining + c \in 0..Size(current)
  <2> DEFINE a == Size(current) - remaining
  <2>1. a \in 0..Size(current) /\ a + Len(t) <= Size(current) /\ a + Len(t) = a + c
        /\ a + c \in 0..Size(current)
    BY <1>3, <1>5, <1>6, <1>7
  <2>2. \A i \in 1..Len(t) : t[i] = InBodyAt(current, a + i)
    BY <1>5, <1>8
  <2>3. sink' = SubSeq(BodyOctets(current), 1, a) \o t
    BY <1>3, <1>6 DEF t
  <2> HIDE DEF a
  <2>4. SubSeq(BodyOctets(current), 1, a) \o t = SubSeq(BodyOctets(current), 1, a + Len(t))
    BY <2>1, <2>2, <1>5, <1>6, SinkGrows
  <2>5. sink' = SubSeq(BodyOctets(current), 1, a + c) /\ a + c \in 0..Size(current)
    BY <2>1, <2>3, <2>4
  <2> QED
    BY <2>5 DEF a
<1>10. Rest' = wire' /\ pending' = pending
  BY <1>1, <1>2, <1>5, ConcatEmptySeq DEF Rest
<1>11. Within(Rest', Rest, c)
  <2>1. \A i \in 1..Len(wire') : wire'[i] = wire[i + c]
    BY <1>2, <1>3, <1>5
  <2> QED
    BY <2>1, <1>1, <1>2, <1>3, <1>5, <1>10 DEF Within
<1>12. TypeOK'
  <2>1. sink' \in Seq(Octet)
    <3>1. BodyOctets(current) \in Seq(Octet) /\ Len(BodyOctets(current)) = Size(current)
      BY <1>6, OctetTypes
    <3> DEFINE e == Size(current) - remaining + c
    <3>2. e \in 0..Len(BodyOctets(current)) /\ sink' = SubSeq(BodyOctets(current), 1, e)
      BY <3>1, <1>9
    <3> HIDE DEF e
    <3> QED
      BY <3>1, <3>2, Stretch
  <2>2. wire' \in Seq(Octet) /\ streamPending' \in BOOLEAN
    BY <1>3, <1>5
  <2>4. remaining' \in Nat
    BY <1>1, <1>4
  <2>3. /\ st' \in {"Stream", "Done"} /\ endedBy' \subseteq Line
        /\ outcome' \in {"none", "Ok", "No", "Err"} /\ (outcome' = "none" <=> st' # "Done")
    BY <1>1, <1>4 DEF FInv, TypeOK
  <2> QED
    BY <2>1, <2>2, <2>3, <2>4, <1>1 DEF FInv, TypeOK
<1>13. BodiesExact'
  BY <1>1, <1>9 DEF FInv, BodiesExact, BodyOctets, Size
<1>14. Chain'
  <2>1. Chained(Rest) => Chained(Rest')
    BY <1>3, <1>11, ChainedWithin
  <2> QED
    BY <2>1, <1>1 DEF FInv, Chain, InStep
<1>15. InBody'
  <2> SUFFICES ASSUME st' = "Stream"
               PROVE  InBody'
    BY DEF InBody
  <2>1. remaining' = 0 /\ c = remaining
    BY <1>4
  <2>2. sink' = SubSeq(BodyOctets(current), 1, Size(current) - remaining')
    <3>1. Size(current) - remaining + c = Size(current) - remaining'
      BY <2>1, <1>1, <1>7
    <3> QED
      BY <3>1, <1>9
  <2>3. Rest' # <<>> => Rest'[1] \in Opening
    <3>1. Rest' # <<>> => Len(wire') > 0
      BY <1>5, <1>10, EmptySeq
    <3>2. Len(wire') > 0 => c < Len(wire) /\ wire'[1] = wire[c + 1]
      BY <1>2, <1>3, <1>5
    <3> QED
      BY <3>1, <3>2, <2>1, <1>1, <1>8, <1>10
  <2> QED
    BY <2>1, <2>2, <2>3, <1>1, <1>6, <1>7 DEF InBody, BodyOctets, InStep, Size
<1>16. ScanSound'
  BY <1>1, <1>2, EmptySeq DEF ScanSound
<1>17. AtLine' /\ Lagging' /\ Waits'
  BY <1>1, <1>3, <1>4, <1>6 DEF AtLine, Lagging, Waits, InStep
<1> QED
  BY <1>12, <1>13, <1>14, <1>15, <1>16, <1>17 DEF FInv

\* What the sink holds when its body ends.
LEMMA SinkIsWhole ==
  ASSUME FInv, st = "Stream", remaining = 0
  PROVE  current \in Messages /\ sink = BodyOctets(current) /\ sink \in Seq(Octet)
<1>1. current \in Messages /\ sink = SubSeq(BodyOctets(current), 1, Size(current) - remaining)
  BY DEF FInv, InBody
<1>2. Size(current) \in Nat /\ Size(current) - remaining = Size(current)
  BY <1>1, Sizes
<1>3. BodyOctets(current) \in Seq(Octet) /\ Len(BodyOctets(current)) = Size(current)
  BY <1>1, OctetTypes
<1> QED
  BY <1>1, <1>2, <1>3, SubSeqFull

\* The body is whole, and what comes next is a line.
LEMMA WholeStep ==
  ASSUME FInv, EndBody
  PROVE  FInv'
<1>1. /\ st = "Stream" /\ remaining = 0 /\ literal' = 0 /\ st' \in {"NextItem", "Trailer"}
      /\ UNCHANGED <<tagRequested, outcome, endedBy, pending, scanned, remaining, streamPending,
                     raw, wire, closed, batch, limit, plan>>
      /\ \/ UNCHANGED <<current, sink, committed>>
         \/ /\ committed' = Append(committed, [msg |-> current, octets |-> sink])
            /\ current' = 0 /\ sink' = <<>>
  BY DEF EndBody, Goto, Env, LiteralSkipped, sinkVars
<1>2. /\ InStep /\ raw = <<>> /\ current \in Messages
      /\ sink = SubSeq(BodyOctets(current), 1, Size(current) - remaining)
      /\ Rest # <<>> => Rest[1] \in Opening
  BY <1>1 DEF FInv, InBody
<1>3. sink = BodyOctets(current) /\ sink \in Seq(Octet)
  BY <1>1, SinkIsWhole
<1>4. Rest' = Rest /\ InStep' = InStep
  BY <1>1 DEF Rest, InStep
<1> DEFINE R == [msg : Messages, octets : Seq(Octet)]
<1> DEFINE r == [msg |-> current, octets |-> sink]
<1>5. committed \in Seq(R) /\ r \in R
  BY <1>2, <1>3 DEF FInv, TypeOK
<1>6. /\ Append(committed, r) \in Seq(R) /\ Len(Append(committed, r)) = Len(committed) + 1
      /\ \A i \in 1..(Len(committed) + 1) :
           Append(committed, r)[i] = IF i <= Len(committed) THEN committed[i] ELSE r
      /\ Len(committed) \in Nat
  <2> HIDE DEF R, r
  <2> QED
    BY <1>5, AppendProperties, LenProperties
<1>7. TypeOK'
  <2>1. committed' = committed \/ committed' = Append(committed, r)
    BY <1>1
  <2>2. committed' \in Seq(R)
    <3> HIDE DEF R, r
    <3> QED
      BY <2>1, <1>5, <1>6
  <2>3. current' \in 0..Len(Bodies) /\ sink' \in Seq(Octet)
    <3>1. current' \in {0, current} /\ sink' \in {<<>>, sink}
      BY <1>1
    <3>2. current \in 0..Len(Bodies) /\ 0 \in 0..Len(Bodies) /\ <<>> \in Seq(Octet)
      BY Sizes, EmptySeq DEF FInv, TypeOK
    <3> QED
      BY <3>1, <3>2, <1>3
  <2> QED
    BY <2>2, <2>3, <1>1 DEF FInv, TypeOK
<1>8. BodiesExact'
  <2>1. CASE UNCHANGED <<current, sink, committed>>
    BY <2>1 DEF FInv, BodiesExact, BodyOctets
  <2>2. CASE committed' = Append(committed, r) /\ current' = 0
    <3>1. r.msg = current /\ r.octets = sink
      OBVIOUS
    <3> HIDE DEF r
    <3>2. ASSUME NEW i \in 1..Len(committed')
          PROVE  committed'[i].octets = BodyOctets(committed'[i].msg)
      <4>1. CASE i <= Len(committed)
        <5>1. i \in 1..Len(committed) /\ committed'[i] = committed[i]
          BY <4>1, <2>2, <1>6
        <5> QED
          BY <5>1 DEF FInv, BodiesExact
      <4>2. CASE ~(i <= Len(committed))
        <5>1. committed'[i] = r
          BY <4>2, <2>2, <1>6
        <5> QED
          BY <5>1, <3>1, <1>3
      <4> QED
        BY <4>1, <4>2
    <3> QED
      BY <3>2, <2>2 DEF BodiesExact, BodyOctets
  <2> QED
    BY <2>1, <2>2, <1>1
<1>9. streamPending = FALSE
  BY <1>1 DEF FInv, Waits, TypeOK
<1>10. AtLine'
  BY <1>1, <1>2, <1>4 DEF AtLine
<1> QED
  BY <1>1, <1>2, <1>4, <1>7, <1>8, <1>9, <1>10
     DEF FInv, ScanSound, Chain, InBody, Waits, Lagging

-----------------------------------------------------------------------------
(* The theorems.                                                           *)

LEMMA NextFetch == FInv /\ [Next]_vars => FInv'
<1> SUFFICES ASSUME FInv, [Next]_vars
             PROVE  FInv'
  OBVIOUS
<1>1. CASE RequestTag \/ SendCommand \/ AnswerNoTag \/ FailLine \/ ReadEof
  BY <1>1, QuietStep
<1>2. CASE \E n \in 1..Len(wire) : ReadBytes(n)
  BY <1>2, ReadStep
<1>3. CASE \E n \in 0..Len(wire) : Cut(n)
  BY <1>3, CutStep
<1>4. CASE SkipFragment \/ SkipLine
  BY <1>4, SkipStep
<1>5. CASE EndOfFetch \/ RefuseBody
  BY <1>5, EndStep
<1>6. CASE StartBody \/ StartMessage
  BY <1>6, StartStep
<1>7. CASE BodyChunk
  BY <1>7, ChunkStep
<1>8. CASE YieldStream
  BY <1>8, YieldStep
<1>9. CASE CopyBody \/ CopyShort
  BY <1>9, CopyStep
<1>10. CASE EndBody
  BY <1>10, WholeStep
<1>11. CASE UNCHANGED vars
  <2>1. UNCHANGED <<batch, limit, st, tagRequested, pending, scanned, remaining, streamPending,
                    outcome, endedBy, raw, literal, current, sink, committed, plan, wire, closed>>
    BY <1>11 DEF vars, fetchVars, sinkVars
  <2>2. Rest' = Rest /\ InStep' = InStep /\ FirstState' = FirstState
    BY <2>1 DEF Rest, InStep, FirstState
  <2>3. TypeOK' /\ ScanSound'
    BY <2>1 DEF FInv, TypeOK, ScanSound
  <2>4. Chain' /\ AtLine' /\ Lagging'
    BY <2>1, <2>2 DEF FInv, Chain, AtLine, Lagging, Behind
  <2>5. InBody' /\ Waits' /\ BodiesExact'
    BY <2>1, <2>2 DEF FInv, InBody, Waits, BodiesExact, BodyOctets
  <2> QED
    BY <2>3, <2>4, <2>5 DEF FInv
<1> QED
  BY <1>1, <1>2, <1>3, <1>4, <1>5, <1>6, <1>7, <1>8, <1>9, <1>10, <1>11 DEF Next, Resume

LEMMA Fetches == Spec => []FInv
<1>1. Init => FInv
  BY InitFetch
<1>2. FInv /\ [Next]_vars => FInv'
  BY NextFetch
<1> QED
  BY <1>1, <1>2, PTL DEF Spec

(* Every variable keeps its type, whatever the server sends and wherever   *)
(* its octets are split or cut (fetch_stream.rs, fetch_stream_batch.rs).   *)
THEOREM TypeCorrect == Spec => []TypeOK
<1>1. FInv => TypeOK
  BY DEF FInv
<1> QED
  BY <1>1, Fetches, PTL

(* No end of a line is skipped by the search for it, and the mark is at    *)
(* the start whenever a body begins (fetch_stream.rs:298-305, 378-403).    *)
THEOREM ScanIsSound == Spec => []ScanSound
<1>1. FInv => ScanSound
  BY DEF FInv
<1> QED
  BY <1>1, Fetches, PTL

(* A sink holds the beginning of its own body and nothing else, and a sink *)
(* that is committed the whole of it, for any bodies and any splits        *)
(* (fetch_stream_batch.rs:294-341; client.rs:1078-1112).                   *)
THEOREM BodiesAreExact == Spec => []BodiesExact
<1>1. FInv => BodiesExact
  BY DEF FInv
<1> QED
  BY <1>1, Fetches, PTL
-----------------------------------------------------------------------------
(***************************************************************************)
(* How a streamed FETCH ends: an OK of its own command means that every    *)
(* body the server sent was handed over, and the next exchange finds the   *)
(* octets sent after the completion and no other.                          *)
(*                                                                         *)
(* The script is read by the lines that say something: the header of each  *)
(* message, then the completion (Lines, at the places Mark).  The octets   *)
(* taken so far are a beginning of the script, and what was handed over is *)
(* told by how many of those lines they hold (Handed).                     *)
(***************************************************************************)

\* The lines that make a difference: those of the command, and a BYE.
Own == {Tagged(TRUE, TRUE), Tagged(TRUE, FALSE)}
Telling == {l \in Written : l.type \in {"header", "bye"} \/ l \in Own}

\* The lines of s that make a difference are ls, and the k-th ends at f[k].
Tells(s, ls, f) ==
  /\ s \in Seq(Octet) /\ ls \in Seq(Telling)
  /\ \A k \in 1..Len(ls) : f[k] \in 1..Len(s) /\ s[f[k]] = Stop(ls[k])
  /\ \A j, k \in 1..Len(ls) : j < k => f[j] < f[k]
  /\ \A i \in 1..Len(s) : \A l \in Telling : s[i] = Stop(l) => \E k \in 1..Len(ls) : i = f[k]
Says(s, ls) == \E f : Tells(s, ls, f)

-----------------------------------------------------------------------------
(* What a piece of the script says.                                        *)

LEMMA SaysNothing ==
  ASSUME NEW s \in Seq(Octet), \A i \in 1..Len(s) : \A l \in Telling : s[i] # Stop(l)
  PROVE  Says(s, <<>>)
<1>1. <<>> \in Seq(Telling) /\ Len(<<>>) = 0
  BY EmptySeq
<1>2. Tells(s, <<>>, <<>>)
  BY <1>1 DEF Tells
<1> QED
  BY <1>2 DEF Says

LEMMA SaysBoth ==
  ASSUME NEW s, NEW t, NEW a, NEW b, Says(s, a), Says(t, b)
  PROVE  Says(s \o t, a \o b)
<1>1. PICK f : Tells(s, a, f)
  BY DEF Says
<1>2. PICK g : Tells(t, b, g)
  BY DEF Says
<1> DEFINE u == s \o t
           c == a \o b
           m == Len(a)
           n == Len(b)
           z == Len(s)
<1>3. /\ s \in Seq(Octet) /\ t \in Seq(Octet) /\ a \in Seq(Telling) /\ b \in Seq(Telling)
      /\ m \in Nat /\ n \in Nat /\ z \in Nat /\ Len(t) \in Nat
  BY <1>1, <1>2, LenProperties DEF Tells
<1>4. /\ u \in Seq(Octet) /\ Len(u) = z + Len(t)
      /\ \A i \in 1..(z + Len(t)) : u[i] = IF i <= z THEN s[i] ELSE t[i - z]
  BY <1>3, ConcatProperties
<1>5. /\ c \in Seq(Telling) /\ Len(c) = m + n
      /\ \A i \in 1..(m + n) : c[i] = IF i <= m THEN a[i] ELSE b[i - m]
  BY <1>3, ConcatProperties
<1> DEFINE h == [k \in 1..(m + n) |-> IF k <= m THEN f[k] ELSE z + g[k - m]]
<1>6. \A k \in 1..(m + n) : h[k] = IF k <= m THEN f[k] ELSE z + g[k - m]
  OBVIOUS
<1>7. /\ \A k \in 1..m : f[k] \in 1..z /\ s[f[k]] = Stop(a[k])
      /\ \A j, k \in 1..m : j < k => f[j] < f[k]
      /\ \A i \in 1..z : \A l \in Telling : s[i] = Stop(l) => \E k \in 1..m : i = f[k]
  BY <1>1 DEF Tells
<1>8. /\ \A k \in 1..n : g[k] \in 1..Len(t) /\ t[g[k]] = Stop(b[k])
      /\ \A j, k \in 1..n : j < k => g[j] < g[k]
      /\ \A i \in 1..Len(t) : \A l \in Telling : t[i] = Stop(l) => \E k \in 1..n : i = g[k]
  BY <1>2 DEF Tells
<1> HIDE DEF u, c, m, n, z, h
<1>9. ASSUME NEW k \in 1..(m + n)
      PROVE  \/ k \in 1..m /\ h[k] = f[k] /\ c[k] = a[k]
             \/ /\ k > m /\ k - m \in 1..n /\ h[k] = z + g[k - m] /\ c[k] = b[k - m]
  <2>1. CASE k <= m
    BY <2>1, <1>3, <1>5, <1>6
  <2>2. CASE ~(k <= m)
    <3>1. k > m /\ k - m \in 1..n
      BY <2>2, <1>3
    <3> QED
      BY <2>2, <3>1, <1>5, <1>6
  <2> QED
    BY <2>1, <2>2
<1>10. /\ \A i \in 1..z : i \in 1..Len(u) /\ u[i] = s[i]
       /\ \A i \in 1..Len(t) : z + i \in 1..Len(u) /\ u[z + i] = t[i]
  <2>1. ASSUME NEW i \in 1..z
        PROVE  i \in 1..Len(u) /\ u[i] = s[i]
    BY <1>3, <1>4
  <2>2. ASSUME NEW i \in 1..Len(t)
        PROVE  z + i \in 1..Len(u) /\ u[z + i] = t[i]
    <3>1. z + i \in 1..(z + Len(t)) /\ ~(z + i <= z) /\ (z + i) - z = i
      BY <1>3
    <3> QED
      BY <3>1, <1>4
  <2> QED
    BY <2>1, <2>2
<1>11. ASSUME NEW k \in 1..(m + n)
       PROVE  h[k] \in 1..Len(u) /\ u[h[k]] = Stop(c[k])
  <2>1. CASE k \in 1..m /\ h[k] = f[k] /\ c[k] = a[k]
    BY <2>1, <1>7, <1>10
  <2>2. CASE k > m /\ k - m \in 1..n /\ h[k] = z + g[k - m] /\ c[k] = b[k - m]
    <3>1. g[k - m] \in 1..Len(t) /\ t[g[k - m]] = Stop(b[k - m])
      BY <2>2, <1>8
    <3> QED
      BY <2>2, <3>1, <1>10
  <2> QED
    BY <1>9, <2>1, <2>2
<1>12. ASSUME NEW j \in 1..(m + n), NEW k \in 1..(m + n), j < k
       PROVE  h[j] < h[k]
  <2>1. CASE k \in 1..m /\ h[k] = f[k]
    <3>1. j \in 1..m /\ h[j] = f[j]
      BY <2>1, <1>3, <1>9, <1>12
    <3> QED
      BY <2>1, <3>1, <1>7, <1>12
  <2>2. CASE k > m /\ k - m \in 1..n /\ h[k] = z + g[k - m]
    <3>1. g[k - m] \in 1..Len(t)
      BY <2>2, <1>8
    <3>2. CASE j \in 1..m /\ h[j] = f[j]
      <4>1. f[j] \in 1..z
        BY <3>2, <1>7
      <4> QED
        BY <2>2, <3>1, <3>2, <4>1, <1>3
    <3>3. CASE j > m /\ j - m \in 1..n /\ h[j] = z + g[j - m]
      <4> DEFINE x == j - m
                 y == k - m
      <4>1. x \in 1..n /\ y \in 1..n /\ x < y /\ h[j] = z + g[x] /\ h[k] = z + g[y]
        BY <2>2, <3>3, <1>3, <1>12
      <4> HIDE DEF x, y
      <4>2. g[x] < g[y] /\ g[x] \in Nat /\ g[y] \in Nat
        BY <4>1, <1>3, <1>8
      <4> QED
        BY <4>1, <4>2, <1>3
    <3> QED
      BY <3>2, <3>3, <1>9
  <2> QED
    BY <1>9, <2>1, <2>2
<1>13. ASSUME NEW i \in 1..Len(u), NEW l \in Telling, u[i] = Stop(l)
       PROVE  \E k \in 1..(m + n) : i = h[k]
  <2>1. CASE i <= z
    <3>1. i \in 1..z /\ s[i] = Stop(l)
      BY <2>1, <1>3, <1>4, <1>13
    <3>2. PICK k \in 1..m : i = f[k]
      BY <3>1, <1>7
    <3>3. k \in 1..(m + n) /\ h[k] = f[k]
      BY <1>3, <1>6
    <3> QED
      BY <3>2, <3>3
  <2>2. CASE ~(i <= z)
    <3>1. i - z \in 1..Len(t) /\ t[i - z] = Stop(l)
      BY <2>2, <1>3, <1>4, <1>13
    <3>2. PICK k \in 1..n : i - z = g[k]
      BY <3>1, <1>8
    <3>3. m + k \in 1..(m + n) /\ ~(m + k <= m) /\ (m + k) - m = k
      BY <1>3
    <3>4. h[m + k] = z + g[k]
      BY <3>3, <1>6
    <3>5. i = z + (i - z)
      BY <1>3, <1>4
    <3> QED
      BY <3>2, <3>3, <3>4, <3>5
  <2> QED
    BY <2>1, <2>2
<1>14. Tells(u, c, h)
  BY <1>4, <1>5, <1>11, <1>12, <1>13 DEF Tells
<1> QED
  BY <1>14 DEF Says, u, c

LEMMA SaysLine ==
  /\ \A l \in Telling : Says(LineOctets(l), <<l>>)
  /\ \A l \in Line \ Telling : Says(LineOctets(l), <<>>)
<1>1. ASSUME NEW l \in Telling
      PROVE  Says(LineOctets(l), <<l>>)
  <2>1. l \in Line
    BY DEF Telling, Written
  <2>2. /\ LineOctets(l) \in Seq(Octet) /\ Len(LineOctets(l)) = 2
        /\ LineOctets(l)[1] = Start(l) /\ LineOctets(l)[2] = Stop(l)
    BY <2>1, LineIsTwo
  <2>3. <<l>> \in Seq(Telling) /\ Len(<<l>>) = 1 /\ <<l>>[1] = l /\ <<2>>[1] = 2
    OBVIOUS
  <2> DEFINE s == LineOctets(l)
             ls == <<l>>
             f == <<2>>
  <2> HIDE DEF s, ls, f
  <2>4. /\ s \in Seq(Octet) /\ Len(s) = 2 /\ s[1] = Start(l) /\ s[2] = Stop(l)
        /\ ls \in Seq(Telling) /\ Len(ls) = 1 /\ ls[1] = l /\ f[1] = 2
    BY <2>2, <2>3 DEF s, ls, f
  <2>5. \A k : s[1] # Stop(k)
    BY <2>4, Distinct
  <2>6. Tells(s, ls, f)
    BY <2>4, <2>5 DEF Tells
  <2> QED
    BY <2>6 DEF Says, s, ls
<1>2. ASSUME NEW l \in Line \ Telling
      PROVE  Says(LineOctets(l), <<>>)
  <2>1. /\ LineOctets(l) \in Seq(Octet) /\ Len(LineOctets(l)) = 2
        /\ LineOctets(l)[1] = Start(l) /\ LineOctets(l)[2] = Stop(l)
    BY LineIsTwo
  <2>2. \A i \in 1..2 : \A k \in Telling : LineOctets(l)[i] # Stop(k)
    BY <2>1, Distinct
  <2> QED
    BY <2>1, <2>2, SaysNothing
<1> QED
  BY <1>1, <1>2

LEMMA SaysBody ==
  ASSUME NEW m \in Messages
  PROVE  Says(BodyOctets(m), <<>>)
<1>1. /\ BodyOctets(m) \in Seq(Octet) /\ Len(BodyOctets(m)) = Size(m)
      /\ \A i \in 1..Size(m) : BodyOctets(m)[i] = InBodyAt(m, i)
  BY OctetTypes
<1>2. \A i \in 1..Size(m) : \A l \in Telling : BodyOctets(m)[i] # Stop(l)
  BY <1>1, Distinct
<1> QED
  BY <1>1, <1>2, SaysNothing

LEMMA TellingLines ==
  /\ Other \in Line \ Telling /\ Tagged(FALSE, TRUE) \in Line \ Telling
  /\ \A m \in Messages, named \in BOOLEAN : Header(m, named) \in Telling
  /\ \A l \in Ends : l \in Telling /\ l.type # "header"
  /\ \A l \in Own : l \in Telling /\ l.type = "tagged"
<1>0. \A l \in Own : l \in Line /\ l.type = "tagged"
  <2>1. Tagged(TRUE, TRUE) \in Line /\ Tagged(TRUE, TRUE).type = "tagged"
    BY DEF Tagged, Line
  <2>2. Tagged(TRUE, FALSE) \in Line /\ Tagged(TRUE, FALSE).type = "tagged"
    BY DEF Tagged, Line
  <2> QED
    BY <2>1, <2>2 DEF Own
<1>1. Other \in Line \ Telling
  <2>1. Other \in Line /\ Other.type = "other"
    BY LineTypes DEF Written
  <2>2. Other \notin Own
    BY <2>1, <1>0
  <2> QED
    BY <2>1, <2>2 DEF Telling
<1>2. Tagged(FALSE, TRUE) \in Line \ Telling
  <2>1. Tagged(FALSE, TRUE) \in Line /\ Tagged(FALSE, TRUE).type = "tagged"
    BY DEF Tagged, Line
  <2>2. Tagged(FALSE, TRUE) \notin Own
    <3>1. Tagged(FALSE, TRUE).own = FALSE /\ \A ok : Tagged(TRUE, ok).own = TRUE
      BY DEF Tagged
    <3> QED
      BY <3>1 DEF Own
  <2> QED
    BY <2>1, <2>2 DEF Telling
<1>3. \A m \in Messages, named \in BOOLEAN : Header(m, named) \in Telling
  BY LineTypes DEF Telling
<1>4. \A l \in Own : l \in Telling /\ l.type = "tagged"
  BY <1>0 DEF Telling, Written
<1>5. \A l \in Ends : l \in Telling /\ l.type # "header"
  BY <1>4, LineTypes DEF Ends, Own, Telling
<1> QED
  BY <1>1, <1>2, <1>3, <1>4, <1>5

LEMMA SaysMessage ==
  ASSUME NEW m \in Messages, NEW named \in BOOLEAN
  PROVE  Says(LineOctets(Header(m, named)) \o BodyOctets(m) \o LineOctets(Other),
              <<Header(m, named)>>)
<1> DEFINE h == Header(m, named)
<1>1. Says(LineOctets(h), <<h>>) /\ Says(BodyOctets(m), <<>>) /\ Says(LineOctets(Other), <<>>)
  BY TellingLines, SaysLine, SaysBody
<1> HIDE DEF h
<1>2. Says((LineOctets(h) \o BodyOctets(m)) \o LineOctets(Other), (<<h>> \o <<>>) \o <<>>)
  BY <1>1, SaysBoth
<1>3. (<<h>> \o <<>>) \o <<>> = <<h>>
  OBVIOUS
<1> QED
  BY <1>2, <1>3 DEF h

LEMMA SaysStray == \A s \in Strays : Says(s, <<>>)
<1>1. Says(<<>>, <<>>)
  <2>1. <<>> \in Seq(Octet) /\ Len(<<>>) = 0 /\ 1..0 = {}
    BY EmptySeq
  <2> QED
    BY <2>1, SaysNothing
<1>2. Says(LineOctets(Other), <<>>)
  BY TellingLines, SaysLine
<1>3. Says(LongLine, <<>>)
  <2>1. MaxLine \in Nat /\ LongLine \in Seq(Octet)
    BY MaxLineAssumption, LineIsWhole DEF Whole
  <2>2. \A i \in 1..(MaxLine + 1) : LongLine[i] \in {Start(Other), Stop(Other)}
    BY DEF LongLine, Start, Stop
  <2>3. Len(LongLine) = MaxLine + 1
    <3>1. DOMAIN LongLine = 1..(MaxLine + 1)
      BY DEF LongLine
    <3> QED
      BY <2>1, <3>1
  <2>4. \A l \in Telling : Stop(l) # Stop(Other) /\ Stop(l) # Start(Other)
    BY TellingLines, Distinct
  <2>5. \A i \in 1..Len(LongLine) : \A l \in Telling : LongLine[i] # Stop(l)
    BY <2>2, <2>3, <2>4
  <2> QED
    BY <2>1, <2>5, SaysNothing
<1> QED
  BY <1>1, <1>2, <1>3 DEF Strays

-----------------------------------------------------------------------------
(* What the script says.                                                   *)

\* The lines of a plan that make a difference.
Head1(p, i) == IF i > Len(p.msgs) THEN <<>> ELSE <<Header(p.msgs[i], p.named)>>
Lines(p) == Head1(p, 1) \o Head1(p, 2) \o <<p.end>>

LEMMA PlanMessages ==
  ASSUME NEW p \in Plan
  PROVE  /\ p.named \in BOOLEAN /\ p.stray \in Strays /\ p.after \in Strays /\ p.end \in Ends
         /\ p.msgs \in Seq(Messages) /\ Len(p.msgs) \in 0..2
         /\ \A i \in 1..Len(p.msgs) : p.msgs[i] \in Messages
<1>1. /\ p.named \in BOOLEAN /\ p.msgs \in Answers /\ p.stray \in Strays
      /\ p.end \in Ends /\ p.after \in Strays
  BY DEF Plan
<1>2. p.msgs \in Seq(Messages) /\ Len(p.msgs) \in 0..2
  <2>1. CASE p.msgs = <<>>
    BY <2>1
  <2>2. CASE \E m \in Messages : p.msgs = <<m>>
    BY <2>2
  <2>3. CASE \E a, b \in Messages : p.msgs = <<a, b>>
    BY <2>3
  <2> QED
    BY <2>1, <2>2, <2>3, <1>1 DEF Answers
<1>3. \A i \in 1..Len(p.msgs) : p.msgs[i] \in Messages
  BY <1>2
<1> QED
  BY <1>1, <1>2, <1>3

LEMMA LinesAre ==
  ASSUME NEW p \in Plan
  PROVE  LET n == Len(p.msgs) IN
         /\ Lines(p) \in Seq(Telling) /\ Len(Lines(p)) = n + 1
         /\ \A k \in 1..n : Lines(p)[k] = Header(p.msgs[k], p.named)
         /\ Lines(p)[n + 1] = p.end
<1> DEFINE n == Len(p.msgs)
           a == Header(p.msgs[1], p.named)
           b == Header(p.msgs[2], p.named)
           e == p.end
<1>1. n \in 0..2 /\ e \in Telling
  BY PlanMessages, TellingLines
<1>2. (n >= 1 => a \in Telling) /\ (n >= 2 => b \in Telling)
  <2>1. ASSUME NEW i \in 1..n
        PROVE  Header(p.msgs[i], p.named) \in Telling
    BY PlanMessages, TellingLines
  <2>2. (n >= 1 => 1 \in 1..n) /\ (n >= 2 => 2 \in 1..n)
    BY <1>1
  <2> QED
    BY <2>1, <2>2
<1> DEFINE G(k) == Header(p.msgs[k], p.named)
           h == Head1(p, 1)
           k == Head1(p, 2)
           t == <<e>>
<1>3. G(1) = a /\ G(2) = b
  OBVIOUS
<1>4. /\ h = IF n >= 1 THEN <<a>> ELSE <<>>
      /\ k = IF n >= 2 THEN <<b>> ELSE <<>>
      /\ Lines(p) = (h \o k) \o t
  BY <1>1 DEF Head1, Lines
<1> HIDE DEF n, a, b, e, G, h, k
<1>5. /\ h \in Seq(Telling) /\ Len(h) = (IF n >= 1 THEN 1 ELSE 0) /\ (n >= 1 => h[1] = a)
      /\ k \in Seq(Telling) /\ Len(k) = (IF n >= 2 THEN 1 ELSE 0) /\ (n >= 2 => k[1] = b)
      /\ t \in Seq(Telling) /\ Len(t) = 1 /\ t[1] = e
  BY <1>1, <1>2, <1>4
<1> HIDE DEF t
<1> DEFINE u == h \o k
           w == u \o t
<1>6. /\ u \in Seq(Telling) /\ Len(u) = Len(h) + Len(k)
      /\ \A i \in 1..(Len(h) + Len(k)) : u[i] = IF i <= Len(h) THEN h[i] ELSE k[i - Len(h)]
  BY <1>5, ConcatProperties
<1> HIDE DEF u
<1>7. /\ w \in Seq(Telling) /\ Len(w) = Len(u) + Len(t)
      /\ \A i \in 1..(Len(u) + Len(t)) : w[i] = IF i <= Len(u) THEN u[i] ELSE t[i - Len(u)]
  BY <1>5, <1>6, ConcatProperties
<1> HIDE DEF w
<1>8. n \in {0, 1, 2}
  BY <1>1
<1>9. Len(w) = n + 1 /\ w[n + 1] = e /\ \A i \in 1..n : w[i] = G(i)
  <2>1. CASE n = 0
    BY <2>1, <1>5, <1>6, <1>7
  <2>2. CASE n = 1
    <3>1. Len(u) = 1 /\ u[1] = a
      BY <2>2, <1>5, <1>6
    <3>2. Len(w) = 2 /\ w[1] = a /\ w[2] = e /\ 1..n = {1}
      BY <2>2, <3>1, <1>5, <1>7
    <3> QED
      BY <2>2, <3>2, <1>3
  <2>3. CASE n = 2
    <3>1. Len(u) = 2 /\ u[1] = a /\ u[2] = b
      BY <2>3, <1>5, <1>6
    <3>2. Len(w) = 3 /\ w[1] = a /\ w[2] = b /\ w[3] = e /\ 1..n = {1, 2}
      BY <2>3, <3>1, <1>5, <1>7
    <3> QED
      BY <2>3, <3>2, <1>3
  <2> QED
    BY <2>1, <2>2, <2>3, <1>8
<1>10. Lines(p) = w
  BY <1>4 DEF w, u
<1> QED
  BY <1>7, <1>9, <1>10 DEF n, e, G

LEMMA SaysMessageOctets ==
  ASSUME NEW p \in Plan, NEW i \in {1, 2}
  PROVE  Says(MessageOctets(p, i), Head1(p, i))
<1> DEFINE a == IF p.at = i THEN p.stray ELSE <<>>
           b == IF i > Len(p.msgs) THEN <<>>
                ELSE LineOctets(Header(p.msgs[i], p.named)) \o BodyOctets(p.msgs[i])
                       \o LineOctets(Other)
<1>1. MessageOctets(p, i) = a \o b
  BY DEF MessageOctets
<1>2. <<>> \in Strays
  BY DEF Strays
<1>3. Says(<<>>, <<>>)
  BY <1>2, SaysStray
<1>4. Says(a, <<>>)
  BY <1>3, PlanMessages, SaysStray
<1>5. Says(b, Head1(p, i))
  <2>1. CASE i > Len(p.msgs)
    BY <2>1, <1>3 DEF Head1
  <2>2. CASE ~(i > Len(p.msgs))
    <3>1. i \in 1..Len(p.msgs)
      BY <2>2, PlanMessages
    <3>2. p.msgs[i] \in Messages /\ p.named \in BOOLEAN
      BY <3>1, PlanMessages
    <3> QED
      BY <2>2, <3>2, SaysMessage DEF Head1
  <2> QED
    BY <2>1, <2>2
<1> HIDE DEF a, b
<1>6. Says(a \o b, <<>> \o Head1(p, i))
  BY <1>4, <1>5, SaysBoth
<1>7. <<>> \o Head1(p, i) = Head1(p, i)
  BY ConcatEmptySeq, <1>5 DEF Says, Tells
<1> QED
  BY <1>1, <1>6, <1>7

\* Where the completion ends.
EndAt(p) == Len(Script(p)) - Len(p.after)

LEMMA ScriptSays ==
  ASSUME NEW p \in Plan, p.stale # "literal"
  PROVE  /\ Says(Script(p), Lines(p))
         /\ Len(p.after) \in Nat /\ EndAt(p) \in 1..Len(Script(p))
         /\ Script(p)[EndAt(p)] = Stop(p.end)
         /\ \A i \in 1..Len(p.after) : Script(p)[EndAt(p) + i] = p.after[i]
<1>1. p.stale \in {"none", "late", "line"}
  BY DEF Plan
<1>2. Says(<<>>, <<>>) /\ \A s \in Strays : Says(s, <<>>)
  BY SaysStray DEF Strays
<1>3. Says(StaleOctets(p), <<>>)
  <2>1. CASE p.stale = "none"
    BY <2>1, <1>2 DEF StaleOctets
  <2>2. CASE p.stale = "late"
    <3>1. StaleOctets(p) = LineOctets(Tagged(FALSE, TRUE))
      BY <2>2 DEF StaleOctets
    <3> QED
      BY <3>1, TellingLines, SaysLine
  <2>3. CASE p.stale = "line"
    <3>1. StaleOctets(p) = Tail(LineOctets(Other))
      BY <2>3 DEF StaleOctets
    <3>2. LineOctets(Other) = <<Start(Other), Stop(Other)>>
      BY LineIsWhole, LineTypes DEF Written
    <3>3. Tail(<<Start(Other), Stop(Other)>>) = <<Stop(Other)>>
      OBVIOUS
    <3>4. <<Stop(Other)>> \in Seq(Octet) /\ Len(<<Stop(Other)>>) = 1
          /\ <<Stop(Other)>>[1] = Stop(Other)
      BY LineTypes, OctetTypes DEF Written
    <3>5. \A l \in Telling : Stop(Other) # Stop(l)
      BY TellingLines, Distinct
    <3>6. Says(<<Stop(Other)>>, <<>>)
      <4> DEFINE s == <<Stop(Other)>>
      <4>1. s \in Seq(Octet) /\ \A i \in 1..Len(s) : s[i] = Stop(Other)
        BY <3>4
      <4> HIDE DEF s
      <4>2. Says(s, <<>>)
        BY <4>1, <3>5, SaysNothing
      <4> QED
        BY <4>2 DEF s
    <3> QED
      BY <3>1, <3>2, <3>3, <3>6
  <2> QED
    BY <2>1, <2>2, <2>3, <1>1
<1>4. Says(MessageOctets(p, 1), Head1(p, 1)) /\ Says(MessageOctets(p, 2), Head1(p, 2))
  BY SaysMessageOctets
<1> DEFINE b == IF p.at = 0 THEN p.stray ELSE <<>>
<1>5. Says(b, <<>>) /\ Says(p.after, <<>>)
  BY <1>2, PlanMessages
<1>6. Says(LineOctets(p.end), <<p.end>>)
  BY PlanMessages, TellingLines, SaysLine
<1> HIDE DEF b
<1> DEFINE h == Head1(p, 1)
           k == Head1(p, 2)
           e == <<p.end>>
           s4 == (((StaleOctets(p) \o MessageOctets(p, 1)) \o MessageOctets(p, 2)) \o b)
<1> HIDE DEF h, k, e
<1>7. Says(s4, ((<<>> \o h) \o k) \o <<>>)
  BY <1>3, <1>4, <1>5, SaysBoth DEF h, k
<1> HIDE DEF s4
<1>8. Says((s4 \o LineOctets(p.end)) \o p.after, ((((<<>> \o h) \o k) \o <<>>) \o e) \o <<>>)
  BY <1>5, <1>6, <1>7, SaysBoth DEF e
<1>9. h \in Seq(Telling) /\ k \in Seq(Telling) /\ e \in Seq(Telling)
  BY <1>4, <1>6 DEF Says, Tells, h, k, e
<1>10. ((((<<>> \o h) \o k) \o <<>>) \o e) \o <<>> = (h \o k) \o e
  <2>1. <<>> \o h = h /\ h \o k \in Seq(Telling)
    BY <1>9, ConcatEmptySeq, ConcatProperties
  <2>2. (h \o k) \o <<>> = h \o k /\ (h \o k) \o e \in Seq(Telling)
    BY <2>1, <1>9, ConcatEmptySeq, ConcatProperties
  <2>3. ((h \o k) \o e) \o <<>> = (h \o k) \o e
    BY <2>2, ConcatEmptySeq
  <2> QED
    BY <2>1, <2>2, <2>3
<1>11. Script(p) = (s4 \o LineOctets(p.end)) \o p.after
  BY DEF Script, s4, b
<1>12. Says(Script(p), Lines(p))
  BY <1>8, <1>10, <1>11 DEF Lines, h, k, e
<1> DEFINE c == LineOctets(p.end)
           z == p.after
<1>13. /\ s4 \in Seq(Octet) /\ c \in Seq(Octet) /\ z \in Seq(Octet)
       /\ Len(s4) \in Nat /\ Len(z) \in Nat
  <2>1. s4 \in Seq(Octet) /\ c \in Seq(Octet) /\ z \in Seq(Octet)
    BY <1>5, <1>6, <1>7 DEF Says, Tells
  <2> QED
    BY <2>1, LenProperties
<1>14. Len(c) = 2 /\ c[2] = Stop(p.end)
  <2>1. p.end \in Line
    BY PlanMessages, TellingLines DEF Telling, Written
  <2> QED
    BY <2>1, LineIsTwo
<1> HIDE DEF c, z
<1>15. /\ s4 \o c \in Seq(Octet) /\ Len(s4 \o c) = Len(s4) + 2
       /\ (s4 \o c)[Len(s4) + 2] = Stop(p.end)
  <2>1. /\ s4 \o c \in Seq(Octet) /\ Len(s4 \o c) = Len(s4) + Len(c)
        /\ \A i \in 1..(Len(s4) + Len(c)) :
             (s4 \o c)[i] = IF i <= Len(s4) THEN s4[i] ELSE c[i - Len(s4)]
    BY <1>13, ConcatProperties
  <2>2. /\ Len(s4) + 2 \in 1..(Len(s4) + 2) /\ ~(Len(s4) + 2 <= Len(s4))
        /\ (Len(s4) + 2) - Len(s4) = 2
    BY <1>13
  <2> QED
    BY <2>1, <2>2, <1>14
<1> DEFINE d == s4 \o c
           n == Len(s4) + 2
<1> HIDE DEF d, n
<1>16. d \in Seq(Octet) /\ Len(d) = n /\ n \in Nat /\ n >= 1 /\ d[n] = Stop(p.end)
  BY <1>13, <1>15 DEF d, n
<1>17. /\ Len(d \o z) = n + Len(z)
       /\ \A i \in 1..(n + Len(z)) : (d \o z)[i] = IF i <= n THEN d[i] ELSE z[i - n]
  BY <1>13, <1>16, ConcatProperties
<1>18. Script(p) = d \o z
  BY <1>11 DEF d, c, z
<1>19. EndAt(p) = n
  BY <1>13, <1>16, <1>17, <1>18 DEF EndAt, z
<1>20. n \in 1..Len(Script(p)) /\ Script(p)[n] = Stop(p.end)
  BY <1>13, <1>16, <1>17, <1>18
<1>21. ASSUME NEW i \in 1..Len(z)
       PROVE  Script(p)[n + i] = z[i]
  <2>1. n + i \in 1..(n + Len(z)) /\ ~(n + i <= n) /\ (n + i) - n = i
    BY <1>13, <1>16
  <2> QED
    BY <2>1, <1>17, <1>18
<1> QED
  BY <1>12, <1>13, <1>19, <1>20, <1>21 DEF z

\* Where each of the lines ends.
Mark(p) == CHOOSE f : Tells(Script(p), Lines(p), f)

LEMMA MarksAre ==
  ASSUME NEW p \in Plan, p.stale # "literal"
  PROVE  /\ Tells(Script(p), Lines(p), Mark(p))
         /\ Mark(p)[Len(p.msgs) + 1] = EndAt(p)
<1>1. Tells(Script(p), Lines(p), Mark(p))
  <2>1. \E f : Tells(Script(p), Lines(p), f)
    BY ScriptSays DEF Says
  <2> QED
    BY <2>1, Zenon DEF Mark
<1>2. /\ EndAt(p) \in 1..Len(Script(p)) /\ Script(p)[EndAt(p)] = Stop(p.end)
      /\ p.end \in Telling /\ p.end.type # "header"
  BY ScriptSays, PlanMessages, TellingLines
<1>3. PICK k \in 1..Len(Lines(p)) : EndAt(p) = Mark(p)[k]
  BY <1>1, <1>2 DEF Tells
<1>4. Lines(p)[k] = p.end
  <2>1. Stop(Lines(p)[k]) = Stop(p.end)
    BY <1>1, <1>2, <1>3 DEF Tells
  <2> QED
    BY <2>1, Distinct
<1>5. k = Len(p.msgs) + 1
  <2>1. Len(p.msgs) \in Nat /\ Len(Lines(p)) = Len(p.msgs) + 1
    BY PlanMessages, LinesAre
  <2>2. ASSUME k \in 1..Len(p.msgs)
        PROVE  FALSE
    <3>1. Lines(p)[k] = Header(p.msgs[k], p.named)
      BY <2>2, LinesAre
    <3>2. p.msgs[k] \in Messages /\ p.named \in BOOLEAN
      BY <2>2, PlanMessages
    <3>3. Header(p.msgs[k], p.named).type = "header"
      BY <3>2, LineTypes
    <3> QED
      BY <3>1, <3>3, <1>2, <1>4
  <2> QED
    BY <2>1, <2>2
<1> QED
  BY <1>1, <1>3, <1>5

-----------------------------------------------------------------------------
(* How far the fetch is.                                                   *)

\* Of the script the first off octets were taken; unless the connection broke,
\* all the others are still to come.
Sent(off) ==
  /\ off \in Nat /\ off + Len(Rest) <= Len(Script(plan))
  /\ \A i \in 1..Len(Rest) : Rest[i] = Script(plan)[off + i]
  /\ ~closed => off + Len(Rest) = Len(Script(plan))

\* They hold the first n lines that make a difference.
Past(n, off) == \A k \in 1..(Len(plan.msgs) + 1) : Mark(plan)[k] <= off <=> k <= n

\* What was handed over once they hold the headers of n messages.
Committed(n) == Len(committed) = n /\ \A k \in 1..n : committed[k].msg = plan.msgs[k]
Handed(n) ==
  /\ n \in 0..Len(plan.msgs)
  /\ st = "Stream" => n >= 1 /\ current = plan.msgs[n]
  /\ batch => /\ st \notin {"Header", "Trailer"}
              /\ Committed(IF st = "Stream" THEN n - 1 ELSE n)
  /\ ~batch => /\ st # "NextItem"
               /\ st \in {"SendCommand", "Header"} => n = 0 /\ sink = <<>>
               /\ st \in {"Stream", "Trailer"} => n = 1
               /\ st = "Trailer" => sink = BodyOctets(plan.msgs[1])

Told == st # "Done" /\ InStep => \E off, n \in Nat : Sent(off) /\ Past(n, off) /\ Handed(n)
Unended == st # "Done" => endedBy = {}

\* LeftInStep, told of all the octets: those that went with the coroutine too.
AllTaken ==
  EndedOwn /\ ~closed => raw = <<>> /\ literal = 0 /\ pending \o wire = plan.after

EInv == Told /\ Unended /\ OkMeansAll /\ AllTaken

LEMMA ThePlan ==
  ASSUME TypeOK
  PROVE  plan \in Plan /\ Script(plan) \in Seq(Octet) /\ Len(Script(plan)) \in Nat
<1>1. plan \in Plan
  BY PlansAssumption DEF TypeOK
<1> QED
  BY <1>1, ScriptIsWhole, LenProperties

\* Octets that stay put or are taken.
LEMMA SentOn ==
  ASSUME TypeOK, NEW off, Sent(off), NEW e \in Nat, Within(Rest', Rest, e), plan' = plan,
         ~closed' => ~closed /\ Len(Rest') + e = Len(Rest)
  PROVE  Sent(off + e)'
<1> DEFINE r == Rest
           t == Rest'
           s == Script(plan)
<1>1. /\ Len(r) \in Nat /\ Len(t) \in Nat /\ Len(t) + e <= Len(r)
      /\ \A i \in 1..Len(t) : t[i] = r[i + e]
  BY LenProperties DEF Within
<1>2. /\ off \in Nat /\ off + Len(r) <= Len(s) /\ Len(s) \in Nat
      /\ \A i \in 1..Len(r) : r[i] = s[off + i]
      /\ ~closed => off + Len(r) = Len(s)
  BY ThePlan DEF Sent
<1>3. Script(plan)' = s
  BY DEF Script, StaleOctets, MessageOctets
<1>4. ~closed' => ~closed /\ Len(t) + e = Len(r)
  OBVIOUS
<1> HIDE DEF r, t
<1>5. ASSUME NEW i \in 1..Len(t)
      PROVE  t[i] = s[(off + e) + i]
  <2>1. i + e \in 1..Len(r) /\ off + (i + e) = (off + e) + i
    BY <1>1, <1>2
  <2> QED
    BY <2>1, <1>1, <1>2
<1> HIDE DEF s
<1>6. /\ off + e \in Nat /\ (off + e) + Len(t) <= Len(s)
      /\ ~closed' => (off + e) + Len(t) = Len(s)
  BY <1>1, <1>2, <1>4
<1> QED
  BY <1>3, <1>5, <1>6 DEF Sent, t, s

\* None of the lines that make a difference ends in what is taken.
LEMMA PastOn ==
  ASSUME TypeOK, InStep, NEW off, Sent(off), NEW n \in Nat, Past(n, off),
         NEW e \in 0..Len(Rest), \A i \in 1..e : \A l \in Telling : Rest[i] # Stop(l)
  PROVE  Past(n, off + e)
<1> DEFINE s == Script(plan)
           f == Mark(plan)
           N == Len(plan.msgs) + 1
<1>1. plan \in Plan /\ plan.stale # "literal" /\ Len(s) \in Nat
  BY ThePlan DEF InStep
<1>2. /\ Tells(s, Lines(plan), f) /\ Len(Lines(plan)) = N /\ Lines(plan) \in Seq(Telling)
      /\ N \in Nat
  BY <1>1, MarksAre, LinesAre, PlanMessages
<1>3. \A k \in 1..N : Lines(plan)[k] \in Telling
  BY <1>2
<1>4. \A k \in 1..N : f[k] \in 1..Len(s) /\ s[f[k]] = Stop(Lines(plan)[k])
  BY <1>2 DEF Tells
<1>5. off \in Nat /\ Len(Rest) \in Nat /\ \A i \in 1..Len(Rest) : Rest[i] = s[off + i]
  BY RestFacts DEF Sent, TypeOK
<1> HIDE DEF s, f, N
<1>6. ASSUME NEW k \in 1..N
      PROVE  f[k] <= off + e <=> f[k] <= off
  <2>1. f[k] \in Nat
    BY <1>1, <1>4
  <2>2. ASSUME f[k] <= off + e, ~(f[k] <= off)
        PROVE  FALSE
    <3> DEFINE i == f[k] - off
    <3>1. i \in 1..e /\ i \in 1..Len(Rest) /\ off + i = f[k]
      BY <2>1, <2>2, <1>5
    <3> HIDE DEF i
    <3>2. Rest[i] = Stop(Lines(plan)[k])
      BY <3>1, <1>4, <1>5
    <3> QED
      BY <3>1, <3>2, <1>3
  <2>3. f[k] <= off => f[k] <= off + e
    BY <2>1, <1>5
  <2> QED
    BY <2>2, <2>3
<1> QED
  BY <1>6 DEF Past, f, N

\* The plan stays.
LEMMA PastStays ==
  ASSUME plan' = plan, NEW n, NEW off, Past(n, off)
  PROVE  Past(n, off)'
BY DEF Past

\* A line is taken: one that makes a difference is the next one of them.
LEMMA LineTaken ==
  ASSUME FInv, InStep, NEW off, Sent(off), NEW n \in Nat, Past(n, off), n <= Len(plan.msgs) + 1,
         TakeLine, wire' = wire, plan' = plan, closed' = closed, NEW e, e = LineEnd
  PROVE  /\ Sent(off + e)'
         /\ Said \notin Telling => Past(n, off + e)
         /\ Said \in Telling =>
              /\ n + 1 <= Len(plan.msgs) + 1 /\ Said = Lines(plan)[n + 1]
              /\ Mark(plan)[n + 1] = off + e /\ Past(n + 1, off + e)
<1> DEFINE s == Script(plan)
           f == Mark(plan)
           N == Len(plan.msgs) + 1
<1>1. plan \in Plan /\ plan.stale # "literal" /\ Len(s) \in Nat
  BY ThePlan DEF InStep, FInv
<1>2. /\ Tells(s, Lines(plan), f) /\ Len(Lines(plan)) = N /\ Lines(plan) \in Seq(Telling)
      /\ N \in Nat
  BY <1>1, MarksAre, LinesAre, PlanMessages
<1>3. /\ \A k \in 1..N : Lines(plan)[k] \in Telling
      /\ \A k \in 1..N : f[k] \in 1..Len(s) /\ s[f[k]] = Stop(Lines(plan)[k])
      /\ \A j, k \in 1..N : j < k => f[j] < f[k]
      /\ \A i \in 1..Len(s) : \A l \in Telling : s[i] = Stop(l) => \E k \in 1..N : i = f[k]
  BY <1>2 DEF Tells
<1>4. /\ pending \in Seq(Octet) /\ wire \in Seq(Octet) /\ scanned \in Nat /\ ScanSound
      /\ NewLines # {}
  BY DEF FInv, TypeOK, TakeLine
<1>5. /\ off \in Nat /\ Len(Rest) \in Nat /\ off + Len(Rest) <= Len(s)
      /\ \A i \in 1..Len(Rest) : Rest[i] = s[off + i]
      /\ Len(pending) \in Nat /\ Len(wire) \in Nat /\ Len(Rest) = Len(pending) + Len(wire)
      /\ \A i \in 1..Len(pending) : Rest[i] = pending[i]
  BY <1>4, RestFacts DEF Sent
<1>6. e \in 1..Len(pending) /\ e \in 1..Len(Rest) /\ e \in Nat /\ \A i \in 1..(e - 1) : ~pending[i].nl
  BY <1>4, <1>5, LineFound
<1>7. Rest[e] = Stop(Said)
  BY LineInStep DEF FInv
<1>8. Sent(off + e)'
  <2>1. Within(Rest', Rest, e) /\ pending' \in Seq(Octet)
    BY TakesOff DEF FInv
  <2>2. Len(pending') = Len(pending) - e
    <3>1. pending' = SubSeq(pending, e + 1, Len(pending))
      BY DEF TakeLine
    <3>2. e + 1 \in Nat \ {0} /\ Len(pending) \in 0..Len(pending)
          /\ (IF e + 1 <= Len(pending) THEN Len(pending) - (e + 1) + 1 ELSE 0) = Len(pending) - e
      BY <1>5, <1>6
    <3> QED
      BY <3>1, <3>2, <1>4, Stretch
  <2>3. Len(Rest') = Len(pending') + Len(wire)
    <3>1. Len(pending' \o wire) = Len(pending') + Len(wire)
      BY <2>1, <1>4, ConcatProperties
    <3> QED
      BY <3>1 DEF Rest
  <2>4. Len(Rest') + e = Len(Rest)
    BY <2>2, <2>3, <1>5, <1>6
  <2> QED
    BY <2>1, <2>4, <1>6, SentOn DEF FInv
<1>9. \A l : Stop(l).nl
  BY DEF Stop
<1> HIDE DEF s, f, N
<1>10. ASSUME NEW i \in 1..(e - 1), NEW l
       PROVE  Rest[i] # Stop(l)
  <2>1. i \in 1..Len(pending)
    BY <1>5, <1>6
  <2> QED
    BY <2>1, <1>5, <1>6, <1>9
<1>11. ASSUME Said \notin Telling
       PROVE  Past(n, off + e)
  <2>1. ASSUME NEW i \in 1..e, NEW l \in Telling
        PROVE  Rest[i] # Stop(l)
    <3>1. CASE i = e
      BY <3>1, <1>7, <1>11, Distinct
    <3>2. CASE i # e
      <4>1. i \in 1..(e - 1)
        BY <3>2, <1>6
      <4> QED
        BY <4>1, <1>10
    <3> QED
      BY <3>1, <3>2
  <2>2. e \in 0..Len(Rest)
    BY <1>5, <1>6
  <2> QED
    BY <2>1, <2>2, PastOn DEF FInv
<1>12. ASSUME Said \in Telling
       PROVE  n + 1 <= N /\ Said = Lines(plan)[n + 1] /\ f[n + 1] = off + e /\ Past(n + 1, off + e)
  <2>1. off + e \in 1..Len(s) /\ s[off + e] = Stop(Said)
    BY <1>1, <1>5, <1>6, <1>7
  <2>2. PICK k \in 1..N : off + e = f[k]
    BY <2>1, <1>3, <1>12
  <2>3. Said = Lines(plan)[k]
    BY <2>1, <2>2, <1>3, Distinct
  <2>4. Past(n, off + (e - 1))
    <3>1. e - 1 \in 0..Len(Rest)
      BY <1>5, <1>6
    <3> QED
      BY <3>1, <1>10, PastOn DEF FInv
  <2>5. \A j \in 1..N : f[j] <= off + (e - 1) <=> j <= n
    BY <2>4 DEF Past, f, N
  <2>6. ~(k <= n)
    <3>1. ~(off + e <= off + (e - 1))
      BY <1>5, <1>6
    <3> QED
      BY <3>1, <2>2, <2>5
  <2>7. k = n + 1
    <3>1. SUFFICES ASSUME k # n + 1
                   PROVE  FALSE
      OBVIOUS
    <3>2. n + 1 \in 1..N /\ n + 1 < k /\ ~(n + 1 <= n)
      BY <3>1, <2>6, <1>2
    <3>3. f[n + 1] < f[k] /\ ~(f[n + 1] <= off + (e - 1)) /\ f[n + 1] \in Nat
      BY <3>2, <2>5, <1>1, <1>3
    <3> QED
      BY <3>3, <2>2, <1>5, <1>6
  <2>8. ASSUME NEW j \in 1..N
        PROVE  f[j] <= off + e <=> j <= n + 1
    <3>1. f[j] \in Nat
      BY <1>1, <1>3
    <3>2. CASE j <= n + 1
      <4>1. j = k \/ j < k
        BY <3>2, <2>7, <1>2
      <4>2. f[j] <= f[k]
        BY <4>1, <3>1, <1>3
      <4> QED
        BY <3>2, <4>2, <2>2
    <3>3. CASE ~(j <= n + 1)
      <4>1. k < j
        BY <3>3, <2>7, <1>2
      <4>2. f[k] < f[j]
        BY <4>1, <1>3
      <4>3. ~(f[j] <= off + e)
        BY <4>2, <3>1, <2>2, <1>5, <1>6
      <4> QED
        BY <3>3, <4>3
    <3> QED
      BY <3>2, <3>3
  <2>9. Past(n + 1, off + e)
    BY <2>8 DEF Past, f, N
  <2> QED
    BY <2>2, <2>3, <2>7, <2>9, <1>2
<1> QED
  BY <1>8, <1>11, <1>12 DEF N, f

-----------------------------------------------------------------------------
(* The steps.                                                              *)

\* A plan's piece of the state, by its octets.
LEMMA PlanKept ==
  ASSUME plan' = plan
  PROVE  InStep' = InStep /\ Script(plan)' = Script(plan)
BY DEF InStep, Script, StaleOctets, MessageOctets

LEMMA NotOwn ==
  ASSUME NEW S, S \in {{Tagged(TRUE, TRUE)}, {Tagged(TRUE, FALSE)}}
  PROVE  S # {} /\ \A l \in S : l \in Own
<1> DEFINE a == Tagged(TRUE, TRUE)
           b == Tagged(TRUE, FALSE)
<1> HIDE DEF a, b
<1>1. S \in {{a}, {b}}
  BY DEF a, b
<1>2. S # {} /\ \A l \in S : l = a \/ l = b
  BY <1>1
<1>3. a \in Own /\ b \in Own
  BY DEF Own, a, b
<1> QED
  BY <1>2, <1>3

\* A step that does not end the fetch on a line says nothing of its end.
LEMMA StillOpen ==
  ASSUME EInv, st # "Done", endedBy' = endedBy \/ endedBy' = {}
  PROVE  Unended' /\ OkMeansAll' /\ AllTaken'
<1>1. endedBy' = {}
  BY DEF EInv, Unended
<1>2. ~EndedOwn'
  BY <1>1, NotOwn DEF EndedOwn, Tagged
<1> QED
  BY <1>1, <1>2 DEF Unended, OkMeansAll, AllTaken

\* The fetch fails.
LEMMA FailingStep ==
  ASSUME EInv, AnswerNoTag \/ FailLine \/ ReadEof \/ CopyShort \/ RefuseBody
  PROVE  EInv'
<1>1. st # "Done" /\ st' = "Done" /\ endedBy' = {}
  BY DEF AnswerNoTag, FailLine, ReadEof, CopyShort, RefuseBody, Announces, TakeLine, Fails,
         AwaitsLine
<1> QED
  BY <1>1, StillOpen DEF EInv, Told

\* The octets still to come stay the same, or are cut short.
LEMMA StayingStep ==
  ASSUME FInv, EInv, st # "Done", plan' = plan, endedBy' = endedBy, Within(Rest', Rest, 0),
         ~closed' => ~closed /\ Len(Rest') = Len(Rest),
         \A n \in Nat : Handed(n) => Handed(n)'
  PROVE  EInv'
<1>1. Told'
  <2> SUFFICES ASSUME InStep
               PROVE  \E off, n \in Nat : Sent(off)' /\ Past(n, off)' /\ Handed(n)'
    BY PlanKept DEF Told
  <2>1. PICK off \in Nat, n \in Nat : Sent(off) /\ Past(n, off) /\ Handed(n)
    BY DEF EInv, Told
  <2>2. Past(n, off)' /\ Handed(n)'
    BY <2>1, PastStays
  <2>3. Sent(off + 0)'
    <3>1. 0 \in Nat /\ (~closed' => ~closed /\ Len(Rest') + 0 = Len(Rest))
      <4>1. Len(Rest) \in Nat
        BY RestFacts DEF FInv, TypeOK
      <4> QED
        BY <4>1
    <3> QED
      BY <3>1, <2>1, SentOn DEF FInv
  <2>4. off + 0 = off
    BY <2>1
  <2> QED
    BY <2>1, <2>2, <2>3, <2>4
<1> QED
  BY <1>1, StillOpen DEF EInv

LEMMA WaitingStep ==
  ASSUME FInv, EInv, RequestTag \/ SendCommand \/ YieldStream
  PROVE  EInv'
<1>1. /\ st \in {"SendCommand", "Stream"}
      /\ st' = st \/ (st = "SendCommand" /\ st' = FirstState)
      /\ UNCHANGED <<endedBy, pending, wire, current, sink, committed, batch, plan, closed>>
  BY DEF RequestTag, SendCommand, YieldStream, Goto, Idle, Env, sinkVars
<1>2. Rest' = Rest /\ Rest \in Seq(Octet)
  BY <1>1, RestFacts DEF Rest, FInv, TypeOK
<1>3. Within(Rest', Rest, 0)
  <2>1. Len(Rest) \in Nat
    BY <1>2, LenProperties
  <2> QED
    BY <1>2, <2>1 DEF Within
<1>4. ASSUME NEW n \in Nat, Handed(n)
      PROVE  Handed(n)'
  BY <1>1, <1>4 DEF Handed, Committed, FirstState, BodyOctets
<1> QED
  BY <1>1, <1>2, <1>3, <1>4, StayingStep

LEMMA ReadingStep ==
  ASSUME FInv, EInv, NEW n \in 1..Len(wire), ReadBytes(n)
  PROVE  EInv'
<1>1. /\ pending' = pending \o SubSeq(wire, 1, n) /\ wire' = SubSeq(wire, n + 1, Len(wire))
      /\ UNCHANGED <<st, endedBy, current, sink, committed, batch, plan, closed>>
      /\ st # "Done" /\ pending \in Seq(Octet) /\ wire \in Seq(Octet)
  BY DEF ReadBytes, AwaitsLine, Env, sinkVars, FInv, TypeOK
<1>2. Rest' = Rest /\ Rest \in Seq(Octet) /\ Len(Rest) \in Nat
  <2>1. n \in 0..Len(wire)
    BY <1>1, LenProperties
  <2>2. (pending \o SubSeq(wire, 1, n)) \o SubSeq(wire, n + 1, Len(wire)) = pending \o wire
    BY <2>1, <1>1, Rejoined
  <2> QED
    BY <1>1, <2>2, RestFacts, LenProperties DEF Rest
<1>3. Within(Rest', Rest, 0)
  BY <1>2 DEF Within
<1>4. ASSUME NEW k \in Nat, Handed(k)
      PROVE  Handed(k)'
  BY <1>1, <1>4 DEF Handed, Committed, BodyOctets
<1> QED
  BY <1>1, <1>2, <1>3, <1>4, StayingStep

LEMMA BreakingStep ==
  ASSUME FInv, EInv, NEW n \in 0..Len(wire), Cut(n)
  PROVE  EInv'
<1>1. /\ pending \in Seq(Octet) /\ wire \in Seq(Octet)
      /\ closed' = TRUE /\ wire' = SubSeq(wire, 1, n) /\ st # "Done"
      /\ UNCHANGED <<st, pending, endedBy, current, sink, committed, batch, plan>>
  BY DEF FInv, TypeOK, Cut, Env, sinkVars, fetchVars
<1>2. Within(Rest', Rest, 0)
  <2>1. Len(pending) \in Nat
    BY <1>1, LenProperties
  <2>2. pending' = SubSeq(pending, 0 + 1, Len(pending))
    BY <1>1, SubSeqFull
  <2>3. Within(SubSeq(pending, 0 + 1, Len(pending)) \o SubSeq(wire, 1, n), pending \o wire, 0)
    BY <2>1, <1>1, Remains
  <2> QED
    BY <2>2, <2>3, <1>1 DEF Rest
<1>3. ASSUME NEW k \in Nat, Handed(k)
      PROVE  Handed(k)'
  BY <1>1, <1>3 DEF Handed, Committed, BodyOctets
<1> QED
  BY <1>1, <1>2, <1>3, StayingStep

\* A line passed over.
LEMMA SkippingStep ==
  ASSUME FInv, EInv, SkipFragment \/ SkipLine
  PROVE  EInv'
<1>1. /\ TakeLine /\ st # "Done"
      /\ UNCHANGED <<st, endedBy, wire, current, sink, committed, batch, plan, closed>>
  BY DEF SkipFragment, SkipLine, TakeLine, AwaitsLine, Env, sinkVars
<1>2. Told'
  <2> SUFFICES ASSUME InStep
               PROVE  \E off, n \in Nat : Sent(off)' /\ Past(n, off)' /\ Handed(n)'
    BY <1>1, PlanKept DEF Told
  <2>1. Said = Other
    <3>1. literal = 0
      BY <1>1, LineInStep DEF FInv
    <3> QED
      BY <3>1 DEF SkipFragment, SkipLine, TakesLiteral
  <2>2. PICK off \in Nat, n \in Nat : Sent(off) /\ Past(n, off) /\ Handed(n)
    BY <1>1 DEF EInv, Told
  <2>3. PICK e \in Nat : e = LineEnd
    BY <1>1, TakesOff DEF FInv
  <2>4. n <= Len(plan.msgs) + 1
    BY <2>2, ThePlan, PlanMessages DEF Handed, FInv
  <2>5. Said \notin Telling
    BY <2>1, TellingLines
  <2>6. Sent(off + e)' /\ Past(n, off + e)
    BY <1>1, <2>2, <2>3, <2>4, <2>5, LineTaken
  <2>7. Past(n, off + e)'
    BY <1>1, <2>6, PastStays
  <2>8. Handed(n)'
    BY <1>1, <2>2 DEF Handed, Committed, BodyOctets
  <2>9. off + e \in Nat
    BY <2>2, <2>3
  <2> QED
    BY <2>2, <2>6, <2>7, <2>8, <2>9
<1> QED
  BY <1>1, <1>2, StillOpen DEF EInv

\* A header taken is that of the next message.
LEMMA StartingStep ==
  ASSUME FInv, EInv, StartBody \/ StartMessage
  PROVE  EInv'
<1>1. /\ TakeLine /\ Said.type = "header" /\ st' = "Stream"
      /\ (st = "Header" \/ st = "NextItem")
      /\ UNCHANGED <<endedBy, committed, wire, closed, batch, plan>>
  BY DEF StartBody, StartMessage, Announces, Goto, Env
<1>2. InStep /\ Said \in Written /\ current' = Said.msg
  BY HeaderStep
<1>3. PICK off \in Nat, n \in Nat : Sent(off) /\ Past(n, off) /\ Handed(n)
  BY <1>1, <1>2 DEF EInv, Told
<1>4. PICK e \in Nat : e = LineEnd
  BY <1>1, TakesOff DEF FInv
<1>5. plan \in Plan /\ Len(plan.msgs) \in Nat /\ n \in 0..Len(plan.msgs)
  BY <1>3, ThePlan, PlanMessages DEF Handed, FInv
<1>6. Said \in Telling
  BY <1>1, <1>2 DEF Telling
<1>7. /\ Sent(off + e)' /\ Past(n + 1, off + e)
      /\ n + 1 <= Len(plan.msgs) + 1 /\ Said = Lines(plan)[n + 1]
  BY <1>1, <1>2, <1>3, <1>4, <1>5, <1>6, LineTaken
<1>8. n + 1 \in 1..Len(plan.msgs) /\ Said.msg = plan.msgs[n + 1]
  <2>1. n + 1 # Len(plan.msgs) + 1
    <3>1. Lines(plan)[Len(plan.msgs) + 1] = plan.end /\ plan.end.type # "header"
      BY <1>5, LinesAre, PlanMessages, TellingLines
    <3> QED
      BY <3>1, <1>1, <1>7
  <2>2. n + 1 \in 1..Len(plan.msgs)
    BY <2>1, <1>5
  <2>3. plan.msgs[n + 1] \in Messages /\ plan.named \in BOOLEAN
    BY <2>2, <1>5, PlanMessages
  <2>4. Said = Header(plan.msgs[n + 1], plan.named)
    BY <2>2, <1>5, <1>7, LinesAre
  <2> QED
    BY <2>2, <2>3, <2>4, LineTypes
<1>9. Handed(n + 1)'
  <2>1. n + 1 \in 0..Len(plan.msgs) /\ n + 1 >= 1 /\ (n + 1) - 1 = n
    BY <1>5, <1>8
  <2>2. batch => Committed(n)'
    BY <1>1, <1>3 DEF Handed, Committed
  <2>3. ~batch => n + 1 = 1
    BY <1>1, <1>3 DEF Handed
  <2> QED
    BY <2>1, <2>2, <2>3, <1>1, <1>2, <1>8 DEF Handed
<1>10. Past(n + 1, off + e)'
  BY <1>1, <1>7, PastStays
<1>11. off + e \in Nat /\ n + 1 \in Nat
  BY <1>3, <1>4
<1>12. Told'
  BY <1>7, <1>9, <1>10, <1>11 DEF Told
<1>13. st # "Done"
  BY <1>1
<1> QED
  BY <1>1, <1>12, <1>13, StillOpen DEF EInv

\* Octets of a body end no line that makes a difference.
LEMMA BodyTaken ==
  ASSUME FInv, EInv, st = "Stream", remaining > 0, NEW c \in 0..remaining, c <= Len(Rest),
         Within(Rest', Rest, c), Len(Rest') + c = Len(Rest),
         UNCHANGED <<st, endedBy, current, committed, batch, plan, closed>>
  PROVE  EInv'
<1>1. InStep /\ remaining \in Nat /\ Len(Rest) \in Nat
  BY RestFacts DEF FInv, InBody, TypeOK
<1>2. PICK off \in Nat, n \in Nat : Sent(off) /\ Past(n, off) /\ Handed(n)
  BY <1>1 DEF EInv, Told
<1>3. \A i \in 1..c : Rest[i] = InBodyAt(current, (Size(current) - remaining) + i)
  BY BodyRuns DEF FInv, TypeOK
<1>4. \A i \in 1..c : \A l \in Telling : Rest[i] # Stop(l)
  BY <1>3, Distinct
<1>5. c \in Nat /\ c \in 0..Len(Rest)
  BY <1>1
<1>6. Sent(off + c)'
  BY <1>2, <1>5, SentOn DEF FInv
<1>7. Past(n, off + c)
  BY <1>1, <1>2, <1>4, <1>5, PastOn DEF FInv
<1>8. Past(n, off + c)'
  BY <1>7, PastStays
<1>9. Handed(n)'
  BY <1>2 DEF Handed, Committed
<1>10. off + c \in Nat
  BY <1>2, <1>5
<1>11. Told'
  BY <1>2, <1>6, <1>8, <1>9, <1>10 DEF Told
<1> QED
  BY <1>11, StillOpen DEF EInv

LEMMA ChunkingStep ==
  ASSUME FInv, EInv, BodyChunk
  PROVE  EInv'
<1>1. /\ st = "Stream" /\ remaining \in Nat /\ remaining > 0 /\ pending # <<>>
      /\ pending \in Seq(Octet) /\ wire \in Seq(Octet)
      /\ pending' = SubSeq(pending, Chunk + 1, Len(pending))
      /\ UNCHANGED <<st, endedBy, current, committed, wire, closed, batch, plan>>
  BY DEF FInv, TypeOK, BodyChunk, Env
<1>2. Len(pending) \in Nat /\ Len(wire) \in Nat /\ Len(Rest) = Len(pending) + Len(wire)
  BY <1>1, RestFacts
<1>3. PICK c \in Nat : c = Chunk
  BY <1>1, <1>2 DEF Chunk
<1>4. c \in 0..remaining /\ c \in 0..Len(pending) /\ c <= Len(Rest)
  BY <1>1, <1>2, <1>3 DEF Chunk
<1>5. Within(Rest', Rest, c)
  <2>1. wire' = SubSeq(wire, 1, Len(wire))
    BY <1>1, SubSeqFull
  <2>2. Within(SubSeq(pending, c + 1, Len(pending)) \o SubSeq(wire, 1, Len(wire)),
               pending \o wire, c)
    BY <1>1, <1>2, <1>4, Remains
  <2>3. Rest' = SubSeq(pending, c + 1, Len(pending)) \o SubSeq(wire, 1, Len(wire))
    BY <2>1, <1>1, <1>3 DEF Rest
  <2> QED
    BY <2>2, <2>3 DEF Rest
<1>6. Len(Rest') + c = Len(Rest)
  <2>1. pending' \in Seq(Octet) /\ Len(pending') = Len(pending) - c
    BY <1>1, <1>2, <1>3, <1>4, Stretch
  <2>2. Len(pending' \o wire) = Len(pending') + Len(wire)
    BY <2>1, <1>1, ConcatProperties
  <2>3. Rest' = pending' \o wire
    BY <1>1 DEF Rest
  <2> QED
    BY <2>1, <2>2, <2>3, <1>2, <1>4
<1> QED
  BY <1>1, <1>4, <1>5, <1>6, BodyTaken

LEMMA CopyingStep ==
  ASSUME FInv, EInv, CopyBody
  PROVE  EInv'
<1>1. /\ st = "Stream" /\ streamPending /\ remaining \in Nat /\ remaining <= Len(wire)
      /\ pending \in Seq(Octet) /\ wire \in Seq(Octet)
      /\ wire' = SubSeq(wire, Copied + 1, Len(wire))
      /\ UNCHANGED <<st, endedBy, pending, current, committed, closed, batch, plan>>
  BY DEF FInv, TypeOK, CopyBody, Env
<1>2. pending = <<>> /\ remaining > 0 /\ Rest = wire /\ Len(wire) \in Nat
  BY <1>1, RestFacts DEF FInv, Waits
<1>3. PICK c \in Nat : c = Copied
  BY <1>1, <1>2 DEF Copied
<1>4. c \in 0..remaining /\ c \in 0..Len(wire) /\ c <= Len(Rest)
  BY <1>1, <1>2, <1>3 DEF Copied
<1>5. /\ wire' \in Seq(Octet) /\ Len(wire') = Len(wire) - c
      /\ \A i \in 1..(Len(wire) - c) : wire'[i] = wire[c + i]
  BY <1>1, <1>2, <1>3, <1>4, Stretch
<1>6. Rest' = wire'
  BY <1>1, <1>2, <1>5, ConcatEmptySeq DEF Rest
<1>7. Within(Rest', Rest, c) /\ Len(Rest') + c = Len(Rest)
  <2>1. ASSUME NEW i \in 1..Len(wire')
        PROVE  wire'[i] = wire[i + c]
    <3>1. i \in Nat /\ c + i = i + c /\ i \in 1..(Len(wire) - c)
      BY <1>3, <1>5
    <3> QED
      BY <3>1, <1>5
  <2>2. Len(wire') + c = Len(wire)
    BY <1>2, <1>3, <1>4, <1>5
  <2>3. Len(wire') + c <= Len(wire)
    BY <2>2, <1>2
  <2> QED
    BY <2>1, <2>2, <2>3, <1>1, <1>2, <1>5, <1>6 DEF Within
<1> QED
  BY <1>1, <1>2, <1>4, <1>7, BodyTaken

\* A body that is whole is handed over.
LEMMA HandingStep ==
  ASSUME FInv, EInv, EndBody
  PROVE  EInv'
<1>1. /\ st = "Stream" /\ remaining = 0
      /\ UNCHANGED <<endedBy, pending, wire, closed, batch, plan>>
      /\ IF batch THEN /\ st' = "NextItem"
                       /\ committed' = Append(committed, [msg |-> current, octets |-> sink])
                  ELSE st' = "Trailer" /\ UNCHANGED <<current, sink, committed>>
  BY DEF EndBody, Goto, Env, sinkVars
<1>2. InStep /\ sink = BodyOctets(current)
  BY <1>1, SinkIsWhole DEF FInv, InBody
<1>3. PICK off \in Nat, n \in Nat : Sent(off) /\ Past(n, off) /\ Handed(n)
  BY <1>1, <1>2 DEF EInv, Told
<1>4. n \in 0..Len(plan.msgs) /\ n >= 1 /\ current = plan.msgs[n]
  BY <1>1, <1>3 DEF Handed
<1>5. Sent(off)' /\ Past(n, off)'
  <2>1. Rest' = Rest /\ Script(plan)' = Script(plan)
    BY <1>1, PlanKept DEF Rest
  <2> QED
    BY <2>1, <1>1, <1>3, PastStays DEF Sent
<1>6. Handed(n)'
  <2>1. CASE batch
    <3> DEFINE R == [msg : Messages, octets : Seq(Octet)]
               r == [msg |-> current, octets |-> sink]
    <3>1. committed \in Seq(R) /\ r \in R /\ r.msg = current
      BY <1>1, SinkIsWhole DEF FInv, TypeOK
    <3>2. committed' = Append(committed, r)
      BY <2>1, <1>1
    <3>3. Len(committed) = n - 1 /\ \A k \in 1..(n - 1) : committed[k].msg = plan.msgs[k]
      BY <2>1, <1>1, <1>3 DEF Handed, Committed
    <3> HIDE DEF R, r
    <3>4. /\ Len(committed') = Len(committed) + 1
          /\ \A i \in 1..(Len(committed) + 1) :
               committed'[i] = IF i <= Len(committed) THEN committed[i] ELSE r
      BY <3>1, <3>2, AppendProperties
    <3>5. Len(committed') = n /\ \A k \in 1..n : committed'[k].msg = plan.msgs[k]
      <4>1. Len(committed') = n
        BY <3>3, <3>4, <1>4
      <4>2. ASSUME NEW k \in 1..n
            PROVE  committed'[k].msg = plan.msgs[k]
        <5>1. CASE k <= n - 1
          BY <5>1, <3>3, <3>4, <1>4
        <5>2. CASE k = n
          BY <5>2, <3>1, <3>3, <3>4, <1>4
        <5> QED
          BY <5>1, <5>2, <1>4
      <4> QED
        BY <4>1, <4>2
    <3> QED
      BY <2>1, <3>5, <1>1, <1>3 DEF Handed, Committed
  <2>2. CASE ~batch
    <3>1. n = 1
      BY <2>2, <1>1, <1>3 DEF Handed
    <3>2. sink' = BodyOctets(plan.msgs[1])
      BY <2>2, <3>1, <1>1, <1>2, <1>4
    <3> QED
      BY <2>2, <3>1, <3>2, <1>1, <1>4 DEF Handed, BodyOctets
  <2> QED
    BY <2>1, <2>2
<1>7. Told'
  BY <1>3, <1>5, <1>6 DEF Told
<1> QED
  BY <1>1, <1>7, StillOpen DEF EInv

\* The completion: every line that makes a difference was taken, and what is
\* left is what the server sent after it.
LEMMA EndingStep ==
  ASSUME FInv, EInv, EndOfFetch
  PROVE  EInv'
<1>1. /\ TakeLine /\ ~TakesLiteral /\ Terminates(Said) /\ st' = "Done" /\ endedBy' = {Said}
      /\ literal' = literal
      /\ UNCHANGED <<wire, current, sink, committed, closed, batch, plan>>
      /\ st \in {"Header", "NextItem", "Trailer"}
  BY DEF EndOfFetch, TakeLine, AwaitsLine, Env, sinkVars
<1>2. Told' /\ Unended'
  BY <1>1 DEF Told, Unended
<1>3. SUFFICES ASSUME EndedOwn'
               PROVE  OkMeansAll' /\ AllTaken'
  BY <1>2 DEF EInv, OkMeansAll, AllTaken
<1>4. Said \in Own
  <2>1. {Said} \in {{Tagged(TRUE, TRUE)}, {Tagged(TRUE, FALSE)}}
    BY <1>1, <1>3 DEF EndedOwn, Tagged
  <2>2. \A l \in {Said} : l \in Own
    BY <2>1, NotOwn
  <2> QED
    BY <2>2
<1>5. Said \in Telling /\ Said.type = "tagged"
  BY <1>4, TellingLines
<1>6. InStep
  <2> SUFFICES ASSUME ~InStep
               PROVE  FALSE
    OBVIOUS
  <2>1. PICK k \in {0, 1, 4, 6} : Behind(k)
    BY <1>1 DEF FInv, Lagging
  <2>2. Said = Other \/ Said = Tagged(FALSE, TRUE)
    BY <2>1, <1>1, LineBehind DEF FInv
  <2> QED
    BY <2>2, <1>5, TellingLines
<1>7. literal = 0 /\ raw' = <<>>
  BY <1>1, <1>6, LineInStep DEF FInv
<1>8. PICK off \in Nat, n \in Nat : Sent(off) /\ Past(n, off) /\ Handed(n)
  BY <1>1, <1>6 DEF EInv, Told
<1>9. PICK e \in Nat : e = LineEnd
  BY <1>1, TakesOff DEF FInv
<1>10. /\ plan \in Plan /\ plan.stale # "literal"
       /\ Len(plan.msgs) \in Nat /\ n \in 0..Len(plan.msgs)
  BY <1>6, <1>8, ThePlan, PlanMessages DEF Handed, FInv, InStep
<1>11. /\ Sent(off + e)' /\ n + 1 <= Len(plan.msgs) + 1 /\ Said = Lines(plan)[n + 1]
       /\ Mark(plan)[n + 1] = off + e
  BY <1>1, <1>5, <1>6, <1>8, <1>9, <1>10, LineTaken
<1>12. n = Len(plan.msgs)
  <2> SUFFICES ASSUME n # Len(plan.msgs)
               PROVE  FALSE
    OBVIOUS
  <2>1. n + 1 \in 1..Len(plan.msgs)
    BY <1>10
  <2>2. plan.msgs[n + 1] \in Messages /\ plan.named \in BOOLEAN
    BY <2>1, <1>10, PlanMessages
  <2>3. Said = Header(plan.msgs[n + 1], plan.named)
    BY <2>1, <1>10, <1>11, LinesAre
  <2> QED
    BY <2>2, <2>3, <1>5, LineTypes
<1>13. off + e = EndAt(plan)
  BY <1>10, <1>11, <1>12, MarksAre
<1>14. OkMeansAll'
  <2>1. CASE batch
    <3>1. Len(committed) = n /\ \A k \in 1..n : committed[k].msg = plan.msgs[k]
      BY <2>1, <1>1, <1>8 DEF Handed, Committed
    <3> DEFINE c == [i \in 1..Len(committed) |-> committed[i].msg]
    <3>2. DOMAIN c = 1..n /\ \A k \in 1..n : c[k] = plan.msgs[k]
      BY <3>1
    <3>3. plan.msgs \in Seq(Messages)
      BY <1>10, PlanMessages
    <3>4. c \in Seq(Messages) /\ Len(c) = n
      <4>1. \A k \in 1..n : plan.msgs[k] \in Messages
        BY <1>10, <1>12, PlanMessages
      <4>2. c \in [1..n -> Messages] /\ n \in Nat
        BY <4>1, <3>1
      <4> HIDE DEF c
      <4>3. c \in Seq(Messages)
        BY <4>2
      <4> QED
        BY <4>3, <3>2, LenProperties, <1>10
    <3> HIDE DEF c
    <3>5. c = plan.msgs
      BY <3>2, <3>3, <3>4, <1>12, SeqEqual
    <3>6. (IF batch THEN [i \in 1..Len(committed) |-> committed[i].msg] = plan.msgs
           ELSE (plan.msgs = <<>> /\ sink = <<>>) \/ sink = BodyOctets(plan.msgs[1]))
      BY <2>1, <3>5 DEF c
    <3> QED
      BY <3>6, <2>1, <1>1 DEF OkMeansAll
  <2>2. CASE ~batch
    <3>1. st \in {"Header", "Trailer"}
      BY <2>2, <1>1, <1>8 DEF Handed
    <3>2. CASE st = "Header"
      <4>1. n = 0 /\ sink = <<>>
        BY <2>2, <3>2, <1>8 DEF Handed
      <4>2. plan.msgs \in Seq(Messages) /\ Len(plan.msgs) = 0
        BY <4>1, <1>10, <1>12, PlanMessages
      <4>3. plan.msgs = <<>>
        BY <4>2, EmptySeq
      <4> QED
        BY <4>1, <4>3, <2>2, <1>1 DEF OkMeansAll
    <3>3. CASE st = "Trailer"
      <4>1. sink = BodyOctets(plan.msgs[1])
        BY <2>2, <3>3, <1>8 DEF Handed
      <4> QED
        BY <4>1, <2>2, <1>1 DEF OkMeansAll, BodyOctets
    <3> QED
      BY <3>1, <3>2, <3>3
  <2> QED
    BY <2>1, <2>2
<1>15. AllTaken'
  <2> SUFFICES ASSUME ~closed'
               PROVE  raw' = <<>> /\ literal' = 0 /\ Rest' = plan.after
    BY <1>1 DEF AllTaken, Rest
  <2>1. /\ Script(plan)' = Script(plan)
        /\ off + e + Len(Rest') = Len(Script(plan))
        /\ \A i \in 1..Len(Rest') : Rest'[i] = Script(plan)[off + e + i]
    BY <1>1, <1>11, PlanKept DEF Sent
  <2>2. Rest' \in Seq(Octet)
    BY <1>1, TakesOff DEF FInv, Within
  <2> DEFINE t == Rest'
             a == plan.after
             s == Script(plan)
  <2>3. a \in Seq(Octet) /\ Len(a) \in Nat /\ Len(s) \in Nat /\ EndAt(plan) = Len(s) - Len(a)
    <3>1. a \in Seq(Octet)
      BY <1>10, PlanMessages, SaysStray DEF Says, Tells
    <3>2. Len(s) \in Nat
      BY ThePlan DEF FInv
    <3> QED
      BY <3>1, <3>2, LenProperties DEF EndAt
  <2>4. \A i \in 1..Len(a) : s[EndAt(plan) + i] = a[i]
    BY <1>10, ScriptSays
  <2>5. t \in Seq(Octet) /\ Len(t) \in Nat
    BY <2>2, LenProperties
  <2>6. off + e + Len(t) = Len(s) /\ \A i \in 1..Len(t) : t[i] = s[off + e + i]
    BY <2>1
  <2> HIDE DEF t, a, s
  <2>7. Len(t) = Len(a)
    BY <2>3, <2>5, <2>6, <1>13
  <2>8. \A i \in 1..Len(t) : t[i] = a[i]
    BY <2>4, <2>6, <2>7, <1>13
  <2>9. t = a
    BY <2>3, <2>5, <2>7, <2>8, SeqEqual
  <2> QED
    BY <2>9, <1>1, <1>7 DEF t, a
<1> QED
  BY <1>14, <1>15

-----------------------------------------------------------------------------
(* The theorems.                                                           *)

LEMMA InitEnd == Init => EInv
<1> SUFFICES ASSUME Init
             PROVE  EInv
  OBVIOUS
<1>1. FInv
  BY InitFetch
<1>2. /\ plan \in Plan /\ st = "SendCommand" /\ endedBy = {} /\ pending = <<>>
      /\ wire = Script(plan) /\ sink = <<>> /\ committed = <<>> /\ ~closed
  BY PlansAssumption DEF Init
<1>3. ASSUME InStep
      PROVE  Sent(0) /\ Past(0, 0) /\ Handed(0)
  <2>1. Rest = Script(plan) /\ Len(Script(plan)) \in Nat
    BY <1>1, <1>2, RestFacts, ThePlan DEF FInv, TypeOK
  <2>2. Sent(0)
    BY <2>1, <1>2 DEF Sent
  <2>3. Past(0, 0)
    <3>1. /\ Tells(Script(plan), Lines(plan), Mark(plan))
          /\ Len(Lines(plan)) = Len(plan.msgs) + 1
      BY <1>2, <1>3, MarksAre, LinesAre DEF InStep
    <3>2. \A k \in 1..(Len(plan.msgs) + 1) : Mark(plan)[k] \in 1..Len(Script(plan))
      BY <3>1 DEF Tells
    <3>3. Len(plan.msgs) \in Nat
      BY <1>2, PlanMessages
    <3>4. ASSUME NEW k \in 1..(Len(plan.msgs) + 1)
          PROVE  ~(Mark(plan)[k] <= 0) /\ ~(k <= 0)
      <4>1. Mark(plan)[k] \in 1..Len(Script(plan))
        BY <3>2
      <4> DEFINE z == Mark(plan)[k]
      <4> HIDE DEF z
      <4>2. ~(z <= 0)
        BY <4>1, <2>1 DEF z
      <4> QED
        BY <4>2, <3>3 DEF z
    <3> QED
      BY <3>4 DEF Past
  <2>4. Handed(0)
    <3>1. Len(plan.msgs) \in Nat /\ Len(committed) = 0
      BY <1>2, PlanMessages, EmptySeq
    <3> QED
      BY <3>1, <1>2 DEF Handed, Committed
  <2> QED
    BY <2>2, <2>3, <2>4
<1>4. Told
  BY <1>3 DEF Told
<1>5. ~EndedOwn
  BY <1>2, NotOwn DEF EndedOwn
<1> QED
  BY <1>2, <1>4, <1>5 DEF EInv, Unended, OkMeansAll, AllTaken

LEMMA StutterStep ==
  ASSUME FInv, EInv, UNCHANGED vars
  PROVE  EInv'
<1>1. UNCHANGED <<batch, limit, st, tagRequested, pending, scanned, remaining, streamPending,
                  outcome, endedBy, raw, literal, current, sink, committed, plan, wire, closed>>
  BY DEF vars, fetchVars, sinkVars
<1>2. CASE st # "Done"
  <2>1. Rest' = Rest /\ Rest \in Seq(Octet) /\ Len(Rest) \in Nat
    BY <1>1, RestFacts, LenProperties DEF Rest, FInv, TypeOK
  <2>2. Within(Rest', Rest, 0)
    BY <2>1 DEF Within
  <2>3. ASSUME NEW n \in Nat, Handed(n)
        PROVE  Handed(n)'
    BY <1>1, <2>3 DEF Handed, Committed, BodyOctets
  <2> QED
    BY <1>1, <1>2, <2>1, <2>2, <2>3, StayingStep
<1>3. CASE st = "Done"
  <2>1. Told' /\ Unended'
    BY <1>1, <1>3 DEF Told, Unended
  <2>2. EndedOwn' = EndedOwn
    BY <1>1 DEF EndedOwn, Tagged
  <2>3. OkMeansAll' /\ AllTaken'
    BY <1>1, <2>2 DEF EInv, OkMeansAll, AllTaken, BodyOctets
  <2> QED
    BY <2>1, <2>3 DEF EInv
<1> QED
  BY <1>2, <1>3

LEMMA NextEnd == FInv /\ EInv /\ [Next]_vars => EInv'
<1> SUFFICES ASSUME FInv, EInv, [Next]_vars
             PROVE  EInv'
  OBVIOUS
<1>1. CASE AnswerNoTag \/ FailLine \/ ReadEof \/ CopyShort \/ RefuseBody
  BY <1>1, FailingStep
<1>2. CASE RequestTag \/ SendCommand \/ YieldStream
  BY <1>2, WaitingStep
<1>3. CASE \E n \in 1..Len(wire) : ReadBytes(n)
  BY <1>3, ReadingStep
<1>4. CASE \E n \in 0..Len(wire) : Cut(n)
  BY <1>4, BreakingStep
<1>5. CASE SkipFragment \/ SkipLine
  BY <1>5, SkippingStep
<1>6. CASE StartBody \/ StartMessage
  BY <1>6, StartingStep
<1>7. CASE BodyChunk
  BY <1>7, ChunkingStep
<1>8. CASE CopyBody
  BY <1>8, CopyingStep
<1>9. CASE EndBody
  BY <1>9, HandingStep
<1>10. CASE EndOfFetch
  BY <1>10, EndingStep
<1>11. CASE UNCHANGED vars
  BY <1>11, StutterStep
<1> QED
  BY <1>1, <1>2, <1>3, <1>4, <1>5, <1>6, <1>7, <1>8, <1>9, <1>10, <1>11 DEF Next, Resume

LEMMA EndsWell == Spec => [](FInv /\ EInv)
<1>1. Init => FInv /\ EInv
  BY InitFetch, InitEnd
<1>2. (FInv /\ EInv) /\ [Next]_vars => (FInv /\ EInv)'
  BY NextFetch, NextEnd
<1> QED
  BY <1>1, <1>2, PTL DEF Spec

(* A fetch that ends on its own OK handed over every body the server sent, *)
(* each once and in the server's order, for any bodies, any plan of the    *)
(* server and any splits of its octets (fetch_stream.rs:299-363,           *)
(* fetch_stream_batch.rs:294-341).                                         *)
THEOREM OkIsAll == Spec => []OkMeansAll
<1>1. EInv => OkMeansAll
  BY DEF EInv
<1> QED
  BY <1>1, EndsWell, PTL

\* The end of two sequences put together.
LEMMA EndOfConcat ==
  ASSUME NEW p \in Seq(Octet), NEW w \in Seq(Octet)
  PROVE  /\ Len(p) \in 0..Len(p \o w)
         /\ w = SubSeq(p \o w, Len(p) + 1, Len(p \o w))
<1> DEFINE q == p \o w
<1>1. Len(p) \in Nat /\ Len(w) \in Nat
  BY LenProperties
<1>2. /\ q \in Seq(Octet) /\ Len(q) = Len(p) + Len(w)
      /\ \A i \in 1..(Len(p) + Len(w)) :
           q[i] = IF i <= Len(p) THEN p[i] ELSE w[i - Len(p)]
  BY ConcatProperties
<1> HIDE DEF q
<1>3. /\ SubSeq(q, Len(p) + 1, Len(q)) \in Seq(Octet)
      /\ Len(SubSeq(q, Len(p) + 1, Len(q))) = Len(w)
      /\ \A i \in 1..Len(w) : SubSeq(q, Len(p) + 1, Len(q))[i] = q[Len(p) + i]
  BY <1>1, <1>2, Stretch
<1>4. \A i \in 1..Len(w) : SubSeq(q, Len(p) + 1, Len(q))[i] = w[i]
  <2> SUFFICES ASSUME NEW i \in 1..Len(w)
               PROVE  SubSeq(q, Len(p) + 1, Len(q))[i] = w[i]
    OBVIOUS
  <2>1. /\ Len(p) + i \in 1..(Len(p) + Len(w)) /\ ~(Len(p) + i <= Len(p))
        /\ (Len(p) + i) - Len(p) = i
    BY <1>1
  <2> QED
    BY <2>1, <1>2, <1>3
<1>5. w = SubSeq(q, Len(p) + 1, Len(q))
  BY <1>3, <1>4, SeqEqual
<1>6. Len(p) \in 0..Len(q)
  BY <1>1, <1>2
<1> QED
  BY <1>5, <1>6 DEF q

(* A fetch that ends on its own completion leaves nothing of its response  *)
(* to the next exchange: the fragmentizer is empty and waits for nothing,  *)
(* and what is left to read is a rest of what the server sent after the    *)
(* completion, for any bodies, plans, reads and splits of the octets       *)
(* (fetch_stream.rs:164, 288-297, 385-427; client.rs:995, 1062).           *)
THEOREM LeavesInStep == Spec => []LeftInStep
<1>1. FInv /\ EInv => LeftInStep
  <2> SUFFICES ASSUME FInv, AllTaken, EndedOwn, ~closed
               PROVE  \E n \in 0..Len(plan.after) :
                        wire = SubSeq(plan.after, n + 1, Len(plan.after))
    BY DEF EInv, AllTaken, LeftInStep
  <2>1. pending \in Seq(Octet) /\ wire \in Seq(Octet) /\ pending \o wire = plan.after
    BY DEF FInv, TypeOK, AllTaken
  <2> QED
    BY <2>1, EndOfConcat
<1> QED
  BY <1>1, EndsWell, PTL
=============================================================================
