------------------------ MODULE CommandsReturnProofs -------------------------
(***************************************************************************)
(* Proof that LIST and LSUB return the names the caller gave, and that the *)
(* fallback of SORT returns what the search found in the order of the      *)
(* criteria, for every set of names and of criteria, chunks of any size,   *)
(* and any number of commands and of changes by other clients.             *)
(*                                                                         *)
(* A name reaches the server in modified UTF-7 and comes back from it.     *)
(* Encode and Decode are folds: the proof follows the states of the one    *)
(* over the name and of the other over what was written of it (Holds).     *)
(* The server has the wire forms of the caller's names and no other but    *)
(* the strays (KeptWires), and answers with those (ListShows).             *)
(*                                                                         *)
(* The fallback sorts what it has fetched, in chunks of the ids that the   *)
(* search gave.  While nothing is announced the ids keep their meaning;    *)
(* every message sought and still there is fetched or will be (Chunks).    *)
(* The local sort places a message by how many others are before it in a   *)
(* strict order, so that each has a place of its own (PlacedFacts).        *)
(***************************************************************************)
EXTENDS CommandsToldProofs

-----------------------------------------------------------------------------
(* The states of the two folds over a mailbox name.                        *)

\* The states of Encode's fold over a name, one for each prefix.
Push(s, c) == IF c = "u" THEN [s EXCEPT !.shifted = @ + 1]
              ELSE [Flush(s) EXCEPT !.out = @ \o Escaped(c)]
\* The state before the first character of a name.
NoneHeld == [out |-> <<>>, shifted |-> 0]

\* The greatest number of a range from 1, and what it leaves of the range.
LEMMA MaxOfRange ==
  ASSUME NEW k \in Nat, k # 0
  PROVE  Max(1..k) = k /\ (1..k) \ {k} = 1..(k - 1)
<1> k \in 1..k /\ \A y \in 1..k : k >= y
  OBVIOUS
<1>1. \A x \in 1..k : (\A y \in 1..k : x >= y) => x = k
  OBVIOUS
<1>2. Max(1..k) = k
  BY <1>1 DEF Max
<1>3. QED
  BY <1>2

\* A set of places holds its greatest, and the others are before it.
LEMMA MaxInRange ==
  ASSUME NEW k \in Nat, NEW s \in SUBSET (1..k), s # {}
  PROVE  Max(s) \in s /\ s \ {Max(s)} \in SUBSET (1..(k - 1))
<1>1. \E x \in s : \A y \in s : x >= y
  <2> DEFINE B == {k - x : x \in s}
  <2>1. B # {} /\ B \in SUBSET Nat
    <3>1. \A x \in s : k - x \in Nat
      OBVIOUS
    <3>2. PICK x \in s : TRUE
      OBVIOUS
    <3>3. k - x \in B
      OBVIOUS
    <3>4. QED
      BY <3>1, <3>3, Zenon
  <2>2. PICK m \in B : \A j \in B : m <= j
    <3> HIDE DEF B
    <3>1. QED
      BY <2>1, Least
  <2>3. PICK x \in s : m = k - x
    BY <2>2
  <2>4. \A y \in s : k - y \in B
    OBVIOUS
  <2>5. \A y \in s : x >= y
    <3> TAKE y \in s
    <3> x \in Nat /\ y \in Nat
      OBVIOUS
    <3> k - x <= k - y
      BY <2>2, <2>3, <2>4
    <3>1. QED
      OBVIOUS
  <2>6. QED
    BY <2>5
<1>2. Max(s) \in s /\ \A y \in s : Max(s) >= y
  <2> DEFINE P(x) == x \in s /\ \A y \in s : x >= y
  <2>1. \E x : P(x)
    BY <1>1
  <2>2. Max(s) = CHOOSE x : P(x)
    BY DEF Max
  <2> HIDE DEF P
  <2>3. P(CHOOSE x : P(x))
    BY <2>1
  <2>4. P(Max(s))
    BY <2>2, <2>3
  <2>5. QED
    BY <2>4 DEF P
<1>3. \A y \in s \ {Max(s)} : y \in 1..(k - 1)
  <2> TAKE y \in s \ {Max(s)}
  <2> y \in 1..k /\ Max(s) \in 1..k /\ Max(s) >= y /\ y # Max(s)
    BY <1>2
  <2>1. QED
    OBVIOUS
<1>4. QED
  BY <1>2, <1>3

\* Encode goes through its states one character of the name at a time.
LEMMA EncodeStates ==
  ASSUME NEW name \in Seq(Characters)
  PROVE  \E st :
           /\ st[0] = NoneHeld
           /\ \A i \in 1..Len(name) : st[i] = Push(st[i - 1], name[i])
           /\ Encode(name) = Flush(st[Len(name)]).out
<1> DEFINE n == Len(name)
<1> DEFINE F(T, f) == [s \in SUBSET T |-> IF s = {} THEN NoneHeld
                            ELSE Push(f[s \ {Max(s)}], name[Max(s)])]
<1> DEFINE iter == CHOOSE iter : iter = F(DOMAIN name, iter)
<1>1. Encode(name) = Flush(iter[DOMAIN name]).out
  BY DEF Encode, FoldLeft, MapThenFoldSet, Push, NoneHeld
<1> DEFINE P(k) == \E f : f = F(1..k, f)
<1>2. P(0)
  <2> DEFINE f == [s \in SUBSET (1..0) |-> NoneHeld]
  <2>1. 1..0 = {}
    OBVIOUS
  <2>2. f = F(1..0, f)
    BY <2>1
  <2> HIDE DEF f, F
  <2>3. QED
    BY <2>2
<1>3. ASSUME NEW k \in Nat, k # 0, P(k - 1) PROVE P(k)
  <2>1. PICK g : g = F(1..(k - 1), g)
    BY <1>3
  <2> DEFINE f == F(1..k, g)
  <2>2. \A s \in SUBSET (1..(k - 1)) : f[s] = g[s]
    <3> TAKE s \in SUBSET (1..(k - 1))
    <3>1. s \in SUBSET (1..k)
      OBVIOUS
    <3>2. f[s] = IF s = {} THEN NoneHeld ELSE Push(g[s \ {Max(s)}], name[Max(s)])
      BY <3>1, Zenon
    <3>3. F(1..(k - 1), g)[s] = IF s = {} THEN NoneHeld ELSE Push(g[s \ {Max(s)}], name[Max(s)])
      BY Zenon
    <3> HIDE DEF f, F
    <3>4. QED
      BY <3>2, <3>3, <2>1
  <2>3. \A s \in SUBSET (1..k) : s # {} => s \ {Max(s)} \in SUBSET (1..(k - 1))
    BY MaxInRange, <1>3
  <2>4. \A s \in SUBSET (1..k) : s # {} => f[s \ {Max(s)}] = g[s \ {Max(s)}]
    <3> HIDE DEF f
    <3>1. QED
      BY <2>2, <2>3, Zenon
  <2>5. f = F(1..k, f)
    <3>1. F(1..k, g) = F(1..k, f)
      <4> HIDE DEF f
      <4>1. QED
        BY <2>4, Zenon
    <3> HIDE DEF F
    <3>2. QED
      BY <3>1
  <2> HIDE DEF f, F
  <2>6. QED
    BY <2>5
<1>4. P(n)
  <2> HIDE DEF P
  <2> DEFINE B == {k \in Nat : ~P(k)}
  <2>1. CASE B = {}
    BY <2>1
  <2>2. CASE B # {}
    <3>1. PICK k \in B : \A j \in B : k <= j
      <4> B \in SUBSET Nat
        OBVIOUS
      <4> HIDE DEF B
      <4>1. QED
        BY <2>2, Least
    <3>2. k # 0
      BY <3>1, <1>2
    <3>3. k - 1 \in Nat /\ ~(k <= k - 1)
      BY <3>1, <3>2
    <3>4. P(k - 1)
      BY <3>1, <3>3
    <3>5. QED
      BY <3>1, <3>2, <3>4, <1>3
  <2>3. QED
    BY <2>1, <2>2
<1>5. DOMAIN name = 1..n /\ n \in Nat
  OBVIOUS
<1>6. iter = F(1..n, iter)
  <2>1. \E f : f = F(DOMAIN name, f)
    BY <1>4, <1>5
  <2>2. iter = F(DOMAIN name, iter)
    <3> HIDE DEF F
    <3>1. QED
      BY <2>1
  <2> HIDE DEF F, iter
  <2>3. QED
    BY <2>2, <1>5
<1> DEFINE st == [i \in 0..n |-> iter[1..i]]
<1> HIDE DEF iter
<1>7. \A s \in SUBSET (1..n) : iter[s] = IF s = {} THEN NoneHeld ELSE Push(iter[s \ {Max(s)}], name[Max(s)])
  <2> TAKE s \in SUBSET (1..n)
  <2>1. F(1..n, iter)[s] = IF s = {} THEN NoneHeld ELSE Push(iter[s \ {Max(s)}], name[Max(s)])
    BY Zenon
  <2> HIDE DEF F
  <2>2. QED
    BY <2>1, <1>6
<1>8. st[0] = NoneHeld
  <2>1. 1..0 = {} /\ 0 \in 0..n
    BY <1>5
  <2>2. iter[{}] = NoneHeld
    BY <1>7, Zenon
  <2>3. iter[1..0] = iter[{}]
    BY <2>1, Zenon
  <2>4. st[0] = iter[1..0]
    BY <2>1, Zenon
  <2>5. st[0] = iter[{}]
    BY <2>3, <2>4, Zenon
  <2>6. QED
    BY <2>2, <2>5, Zenon
<1>9. ASSUME NEW i \in 1..n PROVE st[i] = Push(st[i - 1], name[i])
  <2> HIDE DEF n
  <2>1. i \in Nat /\ i # 0 /\ i \in 0..n /\ i - 1 \in 0..n /\ i \in 1..i
        /\ \A j \in 1..i : j \in 1..n
    BY <1>5
  <2>2. Max(1..i) = i /\ (1..i) \ {i} = 1..(i - 1)
    BY <2>1, MaxOfRange
  <2>3. 1..i \in SUBSET (1..n) /\ 1..i # {}
    BY <2>1, Zenon
  <2>4. iter[1..i] = Push(iter[1..(i - 1)], name[i])
    BY <1>7, <2>3, <2>2, Zenon
  <2>5. QED
    BY <2>1, <2>4
<1>10. Encode(name) = Flush(st[n]).out
  <2> n \in 0..n
    BY <1>5
  <2> HIDE DEF F
  <2>1. QED
    BY <1>1, <1>5
<1> HIDE DEF st, F
<1>11. QED
  BY <1>8, <1>9, <1>10

\* The characters of the wire form, and the states of Decode's fold over it.
Wire == {"amp", "dash", "b", "x"}
\* The states of Decode's fold over a wire form, and what it makes of the last.
Pull(s, c) ==
  CASE ~s.shift /\ c = "amp"  -> [s EXCEPT !.shift = TRUE]
    [] ~s.shift /\ c # "amp"  -> [s EXCEPT !.out = Append(@, c)]
    [] s.shift /\ c = "dash"  -> [out |-> s.out \o Unshifted(s.payload, TRUE),
                                  shift |-> FALSE, payload |-> <<>>]
    [] s.shift /\ c # "dash"  -> [s EXCEPT !.payload = Append(@, c)]
\* The state before the first character of a wire form.
NoneRead == [out |-> <<>>, shift |-> FALSE, payload |-> <<>>]
\* What is read, with the run that the end of the wire form cuts.
Finish(s) == IF s.shift THEN s.out \o Unshifted(s.payload, FALSE) ELSE s.out

\* Decode goes through its states one character of the wire form at a time.
LEMMA DecodeStates ==
  ASSUME NEW wire \in Seq(Wire)
  PROVE  \E st :
           /\ st[0] = NoneRead
           /\ \A i \in 1..Len(wire) : st[i] = Pull(st[i - 1], wire[i])
           /\ Decode(wire) = Finish(st[Len(wire)])
<1> DEFINE n == Len(wire)
<1> DEFINE F(T, f) == [s \in SUBSET T |-> IF s = {} THEN NoneRead
                            ELSE Pull(f[s \ {Max(s)}], wire[Max(s)])]
<1> DEFINE iter == CHOOSE iter : iter = F(DOMAIN wire, iter)
<1>1. Decode(wire) = Finish(iter[DOMAIN wire])
  BY DEF Decode, FoldLeft, MapThenFoldSet, Pull, NoneRead, Finish
<1> DEFINE P(k) == \E f : f = F(1..k, f)
<1>2. P(0)
  <2> DEFINE f == [s \in SUBSET (1..0) |-> NoneRead]
  <2>1. 1..0 = {}
    OBVIOUS
  <2>2. f = F(1..0, f)
    BY <2>1
  <2> HIDE DEF f, F
  <2>3. QED
    BY <2>2
<1>3. ASSUME NEW k \in Nat, k # 0, P(k - 1) PROVE P(k)
  <2>1. PICK g : g = F(1..(k - 1), g)
    BY <1>3
  <2> DEFINE f == F(1..k, g)
  <2>2. \A s \in SUBSET (1..(k - 1)) : f[s] = g[s]
    <3> TAKE s \in SUBSET (1..(k - 1))
    <3>1. s \in SUBSET (1..k)
      OBVIOUS
    <3>2. f[s] = IF s = {} THEN NoneRead ELSE Pull(g[s \ {Max(s)}], wire[Max(s)])
      BY <3>1, Zenon
    <3>3. F(1..(k - 1), g)[s] = IF s = {} THEN NoneRead ELSE Pull(g[s \ {Max(s)}], wire[Max(s)])
      BY Zenon
    <3> HIDE DEF f, F
    <3>4. QED
      BY <3>2, <3>3, <2>1
  <2>3. \A s \in SUBSET (1..k) : s # {} => s \ {Max(s)} \in SUBSET (1..(k - 1))
    BY MaxInRange, <1>3
  <2>4. \A s \in SUBSET (1..k) : s # {} => f[s \ {Max(s)}] = g[s \ {Max(s)}]
    <3> HIDE DEF f
    <3>1. QED
      BY <2>2, <2>3, Zenon
  <2>5. f = F(1..k, f)
    <3>1. F(1..k, g) = F(1..k, f)
      <4> HIDE DEF f
      <4>1. QED
        BY <2>4, Zenon
    <3> HIDE DEF F
    <3>2. QED
      BY <3>1
  <2> HIDE DEF f, F
  <2>6. QED
    BY <2>5
<1>4. P(n)
  <2> HIDE DEF P
  <2> DEFINE B == {k \in Nat : ~P(k)}
  <2>1. CASE B = {}
    BY <2>1
  <2>2. CASE B # {}
    <3>1. PICK k \in B : \A j \in B : k <= j
      <4> B \in SUBSET Nat
        OBVIOUS
      <4> HIDE DEF B
      <4>1. QED
        BY <2>2, Least
    <3>2. k # 0
      BY <3>1, <1>2
    <3>3. k - 1 \in Nat /\ ~(k <= k - 1)
      BY <3>1, <3>2
    <3>4. P(k - 1)
      BY <3>1, <3>3
    <3>5. QED
      BY <3>1, <3>2, <3>4, <1>3
  <2>3. QED
    BY <2>1, <2>2
<1>5. DOMAIN wire = 1..n /\ n \in Nat
  OBVIOUS
<1>6. iter = F(1..n, iter)
  <2>1. \E f : f = F(DOMAIN wire, f)
    BY <1>4, <1>5
  <2>2. iter = F(DOMAIN wire, iter)
    <3> HIDE DEF F
    <3>1. QED
      BY <2>1
  <2> HIDE DEF F, iter
  <2>3. QED
    BY <2>2, <1>5
<1> DEFINE st == [i \in 0..n |-> iter[1..i]]
<1> HIDE DEF iter
<1>7. \A s \in SUBSET (1..n) : iter[s] = IF s = {} THEN NoneRead ELSE Pull(iter[s \ {Max(s)}], wire[Max(s)])
  <2> TAKE s \in SUBSET (1..n)
  <2>1. F(1..n, iter)[s] = IF s = {} THEN NoneRead ELSE Pull(iter[s \ {Max(s)}], wire[Max(s)])
    BY Zenon
  <2> HIDE DEF F
  <2>2. QED
    BY <2>1, <1>6
<1>8. st[0] = NoneRead
  <2>1. 1..0 = {} /\ 0 \in 0..n
    BY <1>5
  <2>2. iter[{}] = NoneRead
    BY <1>7, Zenon
  <2>3. iter[1..0] = iter[{}]
    BY <2>1, Zenon
  <2>4. st[0] = iter[1..0]
    BY <2>1, Zenon
  <2>5. st[0] = iter[{}]
    BY <2>3, <2>4, Zenon
  <2>6. QED
    BY <2>2, <2>5, Zenon
<1>9. ASSUME NEW i \in 1..n PROVE st[i] = Pull(st[i - 1], wire[i])
  <2> HIDE DEF n
  <2>1. i \in Nat /\ i # 0 /\ i \in 0..n /\ i - 1 \in 0..n /\ i \in 1..i
        /\ \A j \in 1..i : j \in 1..n
    BY <1>5
  <2>2. Max(1..i) = i /\ (1..i) \ {i} = 1..(i - 1)
    BY <2>1, MaxOfRange
  <2>3. 1..i \in SUBSET (1..n) /\ 1..i # {}
    BY <2>1, Zenon
  <2>4. iter[1..i] = Pull(iter[1..(i - 1)], wire[i])
    BY <1>7, <2>3, <2>2, Zenon
  <2>5. QED
    BY <2>1, <2>4
<1>10. Decode(wire) = Finish(st[n])
  <2> n \in 0..n
    BY <1>5
  <2> HIDE DEF F
  <2>1. QED
    BY <1>1, <1>5
<1> HIDE DEF st, F
<1>11. QED
  BY <1>8, <1>9, <1>10

-----------------------------------------------------------------------------
(* A run is written, and read back.                                        *)

\* k letters of a run as written, and k characters as read.
Bs(k) == [i \in 1..k |-> "b"]
Us(k) == [i \in 1..k |-> "u"]
\* d has the states of Decode over w, one for each prefix of w.
Decoding(d, w) == d[0] = NoneRead /\ \A j \in 1..Len(w) : d[j] = Pull(d[j - 1], w[j])
\* w begins with p.
Prefix(p, w) == Len(p) <= Len(w) /\ \A j \in 1..Len(p) : w[j] = p[j]
\* The states of Decode outside a run and inside one, and those of Encode.
Unshift(a) == [out |-> a, shift |-> FALSE, payload |-> <<>>]
Shifting(a, p) == [out |-> a, shift |-> TRUE, payload |-> p]
Holding(o, k) == [out |-> o, shifted |-> k]

\* What follows the first m characters of f is a run of k.
Run(f, m, k) ==
  /\ Len(f) = m + k + 2
  /\ f[m + 1] = "amp"
  /\ \A i \in 1..k : f[m + 1 + i] = "b"
  /\ f[m + k + 2] = "dash"

\* Flush writes what is held as a run after what was written, and holds nothing.
LEMMA FlushFacts ==
  ASSUME NEW o \in Seq(Wire), NEW k \in Nat
  PROVE  /\ Flush(Holding(o, k)) = Holding(Flush(Holding(o, k)).out, 0)
         /\ Flush(Holding(o, k)).out \in Seq(Wire)
         /\ Prefix(o, Flush(Holding(o, k)).out)
         /\ k = 0 => Flush(Holding(o, k)).out = o
         /\ k # 0 => Run(Flush(Holding(o, k)).out, Len(o), k)
<1>1. CASE k = 0
  <2> Flush(Holding(o, k)) = Holding(o, 0)
    BY <1>1 DEF Flush, Holding
  <2>1. QED
    BY <1>1 DEF Holding, Prefix
<1>2. CASE k # 0
  <2> DEFINE f == o \o <<"amp">> \o Bs(k) \o <<"dash">>
  <2>1. Flush(Holding(o, k)) = Holding(f, 0) /\ Flush(Holding(o, k)).out = f
    BY <1>2 DEF Flush, Holding, Bs
  <2>2. Bs(k) \in Seq(Wire) /\ Len(Bs(k)) = k /\ \A i \in 1..k : Bs(k)[i] = "b"
    <3> \A i \in 1..k : "b" \in Wire
      BY DEF Wire
    <3>1. QED
      BY DEF Bs
  <2>3. <<"amp">> \in Seq(Wire) /\ <<"dash">> \in Seq(Wire)
    BY DEF Wire
  <2> HIDE DEF f
  <2> DEFINE g == o \o <<"amp">>
  <2>4. g \in Seq(Wire) /\ Len(g) = Len(o) + 1 /\ g[Len(o) + 1] = "amp"
        /\ \A j \in 1..Len(o) : g[j] = o[j]
    BY <2>3
  <2> DEFINE h == g \o Bs(k)
  <2>5. f = h \o <<"dash">>
    BY DEF f
  <2> HIDE DEF g
  <2>6. h \in Seq(Wire) /\ Len(h) = Len(o) + 1 + k /\ h[Len(o) + 1] = "amp"
        /\ (\A j \in 1..Len(o) : h[j] = o[j]) /\ \A i \in 1..k : h[Len(o) + 1 + i] = "b"
    <3>1. h \in Seq(Wire) /\ Len(h) = Len(o) + 1 + k
      BY <2>4, <2>2
    <3>2. \A j \in 1..Len(g) : h[j] = g[j]
      BY <2>4, <2>2
    <3>3. \A i \in 1..k : h[Len(g) + i] = Bs(k)[i]
      <4> TAKE i \in 1..k
      <4>1. QED
        BY <2>4, <2>2
    <3> HIDE DEF h
    <3>4. \A j \in 1..Len(o) : j \in 1..Len(g)
      BY <2>4
    <3>5. Len(o) + 1 \in 1..Len(g)
      BY <2>4
    <3>6. QED
      BY <3>1, <3>2, <3>3, <3>4, <3>5, <2>4, <2>2
  <2> HIDE DEF h
  <2>7. f \in Seq(Wire) /\ Len(f) = Len(o) + k + 2 /\ f[Len(o) + k + 2] = "dash"
    BY <2>5, <2>6, <2>3
  <2>8. \A j \in 1..Len(h) : f[j] = h[j]
    BY <2>5, <2>6, <2>3
  <2>9. Len(o) \in Nat /\ Len(o) + 1 \in 1..Len(h) /\ (\A j \in 1..Len(o) : j \in 1..Len(h))
        /\ \A i \in 1..k : Len(o) + 1 + i \in 1..Len(h)
    BY <2>6
  <2>10. f[Len(o) + 1] = "amp" /\ (\A j \in 1..Len(o) : f[j] = o[j])
        /\ \A i \in 1..k : f[Len(o) + 1 + i] = "b"
    BY <2>6, <2>8, <2>9
  <2>11. Len(o) <= Len(f)
    BY <2>7
  <2>12. Run(f, Len(o), k)
    BY <2>7, <2>10 DEF Run
  <2>13. Prefix(o, f)
    BY <2>10, <2>11 DEF Prefix
  <2>14. QED
    BY <1>2, <2>1, <2>7, <2>12, <2>13
<1>3. QED
  BY <1>1, <1>2

\* A prefix of a prefix is a prefix.
LEMMA PrefixOf ==
  ASSUME NEW p, NEW q, NEW w, Len(p) \in Nat, Prefix(p, q), Prefix(q, w), Len(q) \in Nat, Len(w) \in Nat
  PROVE  Prefix(p, w)
<1> Len(p) <= Len(q) /\ Len(q) <= Len(w)
  BY DEF Prefix
<1> \A j \in 1..Len(p) : j \in 1..Len(q)
  OBVIOUS
<1>1. QED
  BY DEF Prefix

\* The states with one field changed.
LEMMA ShiftSet ==
  ASSUME NEW a, NEW b, NEW p, NEW x
  PROVE  [[out |-> a, shift |-> b, payload |-> p] EXCEPT !.shift = x] = [out |-> a, shift |-> x, payload |-> p]
  OBVIOUS

\* A state outside a run with another output.
LEMMA OutSet ==
  ASSUME NEW a, NEW x
  PROVE  [Unshift(a) EXCEPT !.out = x] = Unshift(x)
<1>1. [Unshift(a) EXCEPT !.out = x]
        = [y \in {"out", "shift", "payload"} |-> IF y = "out" THEN x ELSE Unshift(a)[y]]
  BY DEF Unshift
<1>2. DOMAIN Unshift(x) = {"out", "shift", "payload"}
  BY DEF Unshift
<1>3. Unshift(x) = [y \in DOMAIN Unshift(x) |-> Unshift(x)[y]]
  BY DEF Unshift
<1>4. Unshift(x)["out"] = x
  BY DEF Unshift
<1>5. Unshift(x)["shift"] = Unshift(a)["shift"]
  BY DEF Unshift
<1>6. Unshift(x)["payload"] = Unshift(a)["payload"]
  BY DEF Unshift
<1>7. \A y \in {"out", "shift", "payload"} : Unshift(x)[y] = IF y = "out" THEN x ELSE Unshift(a)[y]
  BY <1>4, <1>5, <1>6
<1>8. QED
  BY <1>1, <1>2, <1>3, <1>7, Zenon

\* A state with another payload.
LEMMA PayloadSet ==
  ASSUME NEW a, NEW b, NEW p, NEW x
  PROVE  [[out |-> a, shift |-> b, payload |-> p] EXCEPT !.payload = x] = [out |-> a, shift |-> b, payload |-> x]
  OBVIOUS

\* An ampersand opens a run.
LEMMA PullsAmp ==
  ASSUME NEW a
  PROVE  Pull(Unshift(a), "amp") = Shifting(a, <<>>)
<1>1. Unshift(a).shift = FALSE
  BY DEF Unshift
<1>2. [Unshift(a) EXCEPT !.shift = TRUE] = Shifting(a, <<>>)
  BY ShiftSet, Zenon DEF Unshift, Shifting
<1>3. QED
  BY <1>1, <1>2, Zenon DEF Pull

\* Outside a run, any other character stands for itself.
LEMMA PullsOther ==
  ASSUME NEW a, NEW c, c # "amp"
  PROVE  Pull(Unshift(a), c) = Unshift(Append(a, c))
<1>1. Unshift(a).shift = FALSE /\ Unshift(a).out = a
  BY DEF Unshift
<1>2. \A x : [Unshift(a) EXCEPT !.out = x] = Unshift(x)
  BY OutSet, Zenon
<1>3. Pull(Unshift(a), c) = [Unshift(a) EXCEPT !.out = Append(Unshift(a).out, c)]
  BY <1>1, Zenon DEF Pull
<1>4. QED
  BY <1>1, <1>2, <1>3, Zenon

\* A dash closes a run.
LEMMA PullsDash ==
  ASSUME NEW a, NEW p
  PROVE  Pull(Shifting(a, p), "dash") = Unshift(a \o Unshifted(p, TRUE))
<1>1. Shifting(a, p).shift = TRUE /\ Shifting(a, p).out = a /\ Shifting(a, p).payload = p
  BY DEF Shifting
<1>2. QED
  BY <1>1, Zenon DEF Pull, Unshift

\* Inside a run, any other character is of its payload.
LEMMA PullsPayload ==
  ASSUME NEW a, NEW p, NEW c, c # "dash"
  PROVE  Pull(Shifting(a, p), c) = Shifting(a, Append(p, c))
<1>1. Shifting(a, p).shift = TRUE /\ Shifting(a, p).payload = p
  BY DEF Shifting
<1>2. \A x : [Shifting(a, p) EXCEPT !.payload = x] = Shifting(a, x)
  BY PayloadSet DEF Shifting
<1>3. Pull(Shifting(a, p), c) = [Shifting(a, p) EXCEPT !.payload = Append(Shifting(a, p).payload, c)]
  BY <1>1, Zenon DEF Pull
<1>4. QED
  BY <1>1, <1>2, <1>3, Zenon

\* The run that Flush writes is decoded to the characters that were held.
LEMMA FlushDecodes ==
  ASSUME NEW w \in Seq(Wire), NEW d, Decoding(d, w),
         NEW o \in Seq(Wire), NEW k \in Nat, NEW a \in Seq(Characters),
         Prefix(Flush(Holding(o, k)).out, w), d[Len(o)] = Unshift(a)
  PROVE  d[Len(Flush(Holding(o, k)).out)] = Unshift(a \o Us(k))
<1> DEFINE f == Flush(Holding(o, k)).out
<1> DEFINE m == Len(o)
<1> HIDE DEF f
<1>1. m \in Nat /\ Len(w) \in Nat
  OBVIOUS
<1>2. CASE k = 0
  <2>1. f = o
    BY <1>2, FlushFacts DEF f
  <2>2. Us(k) = <<>>
    BY <1>2 DEF Us
  <2>3. a \o Us(k) = a
    BY <2>2
  <2>4. d[Len(f)] = Unshift(a \o Us(k))
    BY <2>1, <2>3
  <2>5. QED
    BY <2>4 DEF f
<1>3. CASE k # 0
  <2>1. f \in Seq(Wire) /\ Len(f) = m + k + 2 /\ f[m + 1] = "amp"
        /\ (\A i \in 1..k : f[m + 1 + i] = "b") /\ f[m + k + 2] = "dash"
    <3> f \in Seq(Wire) /\ Run(f, m, k)
      BY <1>3, FlushFacts DEF f
    <3>1. QED
      BY DEF Run
  <2>2. Len(f) <= Len(w) /\ \A j \in 1..Len(f) : w[j] = f[j]
    BY DEF Prefix, f
  <2> HIDE DEF m
  <2>3. w[m + 1] = "amp" /\ (\A i \in 1..k : w[m + 1 + i] = "b") /\ w[m + k + 2] = "dash"
    <3> m + 1 \in 1..Len(f) /\ m + k + 2 \in 1..Len(f) /\ \A i \in 1..k : m + 1 + i \in 1..Len(f)
      BY <2>1, <1>1
    <3>1. QED
      BY <2>1, <2>2
  <2>4. d[m + 1] = Shifting(a, <<>>)
    <3>1. m + 1 \in 1..Len(w) /\ (m + 1) - 1 = m
      BY <1>1, <2>1, <2>2
    <3>2. d[m + 1] = Pull(d[m], w[m + 1])
      BY <3>1 DEF Decoding
    <3>3. QED
      BY <3>2, <2>3, PullsAmp, Zenon DEF m
  <2> DEFINE P(j) == d[m + 1 + j] = Shifting(a, Bs(j))
  <2>5. P(0)
    <3> Bs(0) = <<>>
      BY DEF Bs
    <3> m + 1 + 0 = m + 1
      BY <1>1
    <3>1. QED
      BY <2>4
  <2>6. ASSUME NEW j \in 1..k, P(j - 1) PROVE P(j)
    <3>1. m + 1 + j \in 1..Len(w) /\ (m + 1 + j) - 1 = m + 1 + (j - 1)
      BY <1>1, <2>1, <2>2
    <3>2. d[m + 1 + j] = Pull(d[m + 1 + (j - 1)], "b")
      BY <3>1, <2>3 DEF Decoding
    <3>3. Append(Bs(j - 1), "b") = Bs(j)
      BY DEF Bs
    <3>4. d[m + 1 + j] = Shifting(a, Append(Bs(j - 1), "b"))
      <4>1. Pull(Shifting(a, Bs(j - 1)), "b") = Shifting(a, Append(Bs(j - 1), "b"))
        BY "b" # "dash", PullsPayload, Zenon
      <4>2. QED
        BY <3>2, <2>6, <4>1
    <3>5. QED
      BY <3>3, <3>4
  <2>7. P(k)
    <3> HIDE DEF P
    <3> DEFINE B == {j \in 0..k : ~P(j)}
    <3>1. CASE B = {}
      <4> k \in 0..k
        OBVIOUS
      <4>1. QED
        BY <3>1
    <3>2. CASE B # {}
      <4>1. PICK j \in B : \A i \in B : j <= i
        <5> B \in SUBSET Nat
          OBVIOUS
        <5> HIDE DEF B
        <5>1. QED
          BY <3>2, Least
      <4>2. j # 0
        BY <4>1, <2>5
      <4>3. j \in 1..k /\ j - 1 \in 0..k /\ ~(j <= j - 1)
        BY <4>1, <4>2
      <4>4. P(j - 1)
        BY <4>1, <4>3
      <4>5. QED
        BY <4>1, <4>3, <4>4, <2>6
    <3>3. QED
      BY <3>1, <3>2
  <2>8. Unshifted(Bs(k), TRUE) = Us(k)
    <3>1. Len(Bs(k)) = k /\ DOMAIN Bs(k) = 1..k /\ \A i \in 1..k : Bs(k)[i] = "b"
      BY DEF Bs
    <3>2. Bs(k) # <<>>
      BY <3>1, <1>3
    <3>3. 1 \in 1..k
      BY <1>3
    <3>4. ToSet(Bs(k)) = {"b"}
      BY <3>1, <3>3 DEF ToSet
    <3>5. QED
      BY <3>1, <3>2, <3>4 DEF Unshifted, Us
  <2>9. d[m + k + 2] = Unshift(a \o Us(k))
    <3>1. m + k + 2 \in 1..Len(w) /\ (m + k + 2) - 1 = m + 1 + k
      BY <1>1, <2>1, <2>2
    <3>2. d[m + k + 2] = Pull(d[m + 1 + k], "dash")
      BY <3>1, <2>3 DEF Decoding
    <3>3. d[m + k + 2] = Unshift(a \o Unshifted(Bs(k), TRUE))
      BY <3>2, <2>7, PullsDash, Zenon
    <3>4. QED
      BY <3>3, <2>8
  <2>10. QED
    BY <2>1, <2>9 DEF f
<1>4. QED
  BY <1>2, <1>3

-----------------------------------------------------------------------------
(* A name is written, and read back.                                       *)

\* The escape of a character follows what was written.
LEMMA EscapedSplits ==
  ASSUME NEW f \in Seq(Wire), NEW c \in Characters \ {"u"}
  PROVE  f \o Escaped(c) \in Seq(Wire) /\ Prefix(f, f \o Escaped(c))
<1> DEFINE e == Escaped(c)
<1>1. e \in Seq(Wire)
  <2>1. CASE c = "amp"
    <3> e = <<"amp", "dash">>
      BY <2>1 DEF Escaped
    <3>1. QED
      BY DEF Wire
  <2>2. CASE c # "amp"
    <3>1. e = <<c>> /\ c \in Wire
      BY <2>2 DEF Escaped, Wire, Characters
    <3> HIDE DEF e
    <3>2. QED
      BY <3>1
  <2>3. QED
    BY <2>1, <2>2
<1> HIDE DEF e
<1> DEFINE g == f \o e
<1>2. g \in Seq(Wire) /\ Len(g) = Len(f) + Len(e) /\ (\A j \in 1..Len(f) : g[j] = f[j])
  BY <1>1
<1>3. Prefix(f, g)
  <2> Len(e) \in Nat
    BY <1>1
  <2> HIDE DEF g
  <2> Len(f) <= Len(g)
    BY <1>2
  <2>1. QED
    BY <1>2 DEF Prefix
<1>4. QED
  BY <1>2, <1>3 DEF e

\* The escape of a character is decoded to the character.
LEMMA EscapedDecodes ==
  ASSUME NEW w \in Seq(Wire), NEW d, Decoding(d, w),
         NEW f \in Seq(Wire), NEW c \in Characters \ {"u"}, NEW a \in Seq(Characters)
  PROVE  /\ f \o Escaped(c) \in Seq(Wire) /\ Prefix(f, f \o Escaped(c))
         /\ Prefix(f \o Escaped(c), w) /\ d[Len(f)] = Unshift(a)
              => d[Len(f \o Escaped(c))] = Unshift(Append(a, c))
<1> DEFINE e == Escaped(c)
<1> DEFINE m == Len(f)
<1> DEFINE g == f \o e
<1>1. m \in Nat /\ Len(w) \in Nat
  OBVIOUS
<1>2. e \in Seq(Wire) /\ c \in Characters
  <2>1. CASE c = "amp"
    <3> e = <<"amp", "dash">>
      BY <2>1 DEF Escaped
    <3>1. QED
      BY DEF Wire
  <2>2. CASE c # "amp"
    <3>1. e = <<c>> /\ c \in Wire
      BY <2>2 DEF Escaped, Wire, Characters
    <3> HIDE DEF e
    <3>2. QED
      BY <3>1
  <2>3. QED
    BY <2>1, <2>2
<1> HIDE DEF e
<1>3. g \in Seq(Wire) /\ Len(g) = m + Len(e) /\ (\A j \in 1..m : g[j] = f[j])
      /\ \A i \in 1..Len(e) : g[m + i] = e[i]
  BY <1>2
<1>4. Prefix(f, g)
  <2> Len(e) \in Nat
    BY <1>2
  <2> HIDE DEF g
  <2> m <= Len(g)
    BY <1>3, <1>1
  <2>1. QED
    BY <1>3 DEF Prefix
<1> HIDE DEF g, m
<1>5. ASSUME Prefix(g, w), d[m] = Unshift(a) PROVE d[Len(g)] = Unshift(Append(a, c))
  <2>1. Len(g) <= Len(w) /\ \A j \in 1..Len(g) : w[j] = g[j]
    BY <1>5 DEF Prefix
  <2>2. CASE c = "amp"
    <3>1. e = <<"amp", "dash">> /\ Len(e) = 2 /\ e[1] = "amp" /\ e[2] = "dash"
      BY <2>2 DEF e, Escaped
    <3>2. m + 1 \in 1..Len(g) /\ m + 2 \in 1..Len(g) /\ Len(g) = m + 2
      BY <3>1, <1>3, <1>1
    <3>3. 1 \in 1..Len(e) /\ 2 \in 1..Len(e)
      BY <3>1
    <3>4. w[m + 1] = "amp" /\ w[m + 2] = "dash"
      BY <3>1, <3>2, <3>3, <2>1, <1>3
    <3>5. m + 1 \in 1..Len(w) /\ m + 2 \in 1..Len(w) /\ (m + 1) - 1 = m /\ (m + 2) - 1 = m + 1
      BY <3>2, <2>1, <1>1
    <3>6. d[m + 1] = Pull(Unshift(a), "amp")
      BY <3>4, <3>5, <1>5 DEF Decoding
    <3>7. d[m + 1] = Shifting(a, <<>>)
      BY <3>6, PullsAmp, Zenon
    <3>8. d[m + 2] = Pull(Shifting(a, <<>>), "dash")
      BY <3>4, <3>5, <3>7 DEF Decoding
    <3>9. d[m + 2] = Unshift(a \o Unshifted(<<>>, TRUE))
      BY <3>8, PullsDash, Zenon
    <3>10. Unshifted(<<>>, TRUE) = <<"amp">>
      BY DEF Unshifted
    <3>11. a \o <<"amp">> = Append(a, c)
      BY <2>2, <1>2
    <3>12. QED
      BY <3>2, <3>9, <3>10, <3>11
  <2>3. CASE c # "amp"
    <3>1. e = <<c>> /\ Len(e) = 1 /\ e[1] = c
      BY <2>3 DEF e, Escaped
    <3>2. m + 1 \in 1..Len(g) /\ Len(g) = m + 1
      BY <3>1, <1>3, <1>1
    <3>3. 1 \in 1..Len(e)
      BY <3>1
    <3>4. w[m + 1] = c
      BY <3>1, <3>2, <3>3, <2>1, <1>3
    <3>5. m + 1 \in 1..Len(w) /\ (m + 1) - 1 = m
      BY <3>2, <2>1, <1>1
    <3>6. d[m + 1] = Pull(Unshift(a), c)
      BY <3>4, <3>5, <1>5 DEF Decoding
    <3>7. QED
      BY <3>2, <3>6, <2>3, PullsOther, Zenon
  <2>4. QED
    BY <2>2, <2>3
<1>6. QED
  BY <1>3, <1>4, <1>5 DEF g, e, m

\* Before character i, k characters outside ASCII are held and o is written.
Heeded(name, i, o, k) ==
  /\ o \in Seq(Wire) /\ k \in 0..i
  /\ \A j \in (i - k + 1)..i : name[j] = "u"

\* A name up to its i-th character, as decoding finds it and as it was.
LEMMA TakenBack ==
  ASSUME NEW name \in Seq(Characters), NEW i \in 0..Len(name), NEW k \in 0..i,
         \A j \in (i - k + 1)..i : name[j] = "u"
  PROVE  SubSeq(name, 1, i - k) \o Us(k) = SubSeq(name, 1, i)
<1> DEFINE p == SubSeq(name, 1, i - k)
<1> DEFINE s == SubSeq(name, 1, i)
<1>1. i \in Nat /\ k \in Nat /\ i - k \in Nat /\ i <= Len(name) /\ Len(name) \in Nat
  OBVIOUS
<1>2. p \in Seq(Characters) /\ Len(p) = i - k /\ \A j \in 1..(i - k) : p[j] = name[j]
  BY <1>1
<1>3. s \in Seq(Characters) /\ Len(s) = i /\ \A j \in 1..i : s[j] = name[j]
  BY <1>1
<1>4. Us(k) \in Seq(Characters) /\ Len(Us(k)) = k /\ \A j \in 1..k : Us(k)[j] = "u"
  BY <1>1 DEF Us, Characters
<1> HIDE DEF p, s
<1> DEFINE g == p \o Us(k)
<1>5. g \in Seq(Characters) /\ Len(g) = i
  BY <1>1, <1>2, <1>4
<1>6. \A j \in 1..(i - k) : g[j] = p[j]
  BY <1>1, <1>2, <1>4
<1>7. \A j \in 1..k : g[i - k + j] = "u"
  <2> TAKE j \in 1..k
  <2>1. g[Len(p) + j] = Us(k)[j]
    BY <1>1, <1>2, <1>4
  <2>2. QED
    BY <2>1, <1>2, <1>4
<1> HIDE DEF g
<1>8. ASSUME NEW j \in 1..i PROVE g[j] = s[j]
  <2>1. CASE j <= i - k
    <3> j \in 1..(i - k)
      BY <1>1, <2>1
    <3>1. QED
      BY <1>2, <1>3, <1>6
  <2>2. CASE ~(j <= i - k)
    <3>1. j - (i - k) \in 1..k /\ i - k + (j - (i - k)) = j /\ j \in (i - k + 1)..i
      BY <1>1, <2>2
    <3>2. g[j] = "u"
      BY <1>7, <3>1
    <3>3. name[j] = "u"
      BY <3>1
    <3>4. QED
      BY <3>2, <3>3, <1>3
  <2>3. QED
    BY <2>1, <2>2
<1>9. g = s
  BY <1>3, <1>5, <1>8
<1>10. QED
  BY <1>9 DEF g, p, s

\* Of any wire form that begins with o, Decode makes of o the name up to what is
\* held.
Undone(name, i, o, k) ==
  \A w \in Seq(Wire) : \A d : Decoding(d, w) /\ Prefix(o, w) => d[Len(o)] = Unshift(SubSeq(name, 1, i - k))
\* The invariant of Encode's fold.
Holds(name, s, i) == \E o, k : s = Holding(o, k) /\ Heeded(name, i, o, k) /\ Undone(name, i, o, k)

\* Once what is held is written, the whole name so far is decoded.
LEMMA FlushUndone ==
  ASSUME NEW name \in Seq(Characters), NEW i \in 0..Len(name), NEW o, NEW k,
         Heeded(name, i, o, k), Undone(name, i, o, k),
         NEW w \in Seq(Wire), NEW d, Decoding(d, w), Prefix(Flush(Holding(o, k)).out, w)
  PROVE  d[Len(Flush(Holding(o, k)).out)] = Unshift(SubSeq(name, 1, i))
<1> DEFINE f == Flush(Holding(o, k)).out
<1>1. o \in Seq(Wire) /\ k \in 0..i /\ k \in Nat /\ i - k \in Nat /\ i \in Nat
  BY DEF Heeded
<1>2. f \in Seq(Wire) /\ Prefix(o, f)
  BY <1>1, FlushFacts
<1>3. Prefix(o, w)
  <2> HIDE DEF f
  <2> Len(o) \in Nat /\ Len(f) \in Nat /\ Len(w) \in Nat /\ Prefix(f, w)
    BY <1>1, <1>2 DEF f
  <2>1. QED
    BY <1>2, PrefixOf
<1>4. d[Len(o)] = Unshift(SubSeq(name, 1, i - k))
  BY <1>3, Zenon DEF Undone
<1>5. SubSeq(name, 1, i - k) \in Seq(Characters)
  BY <1>1
<1>6. d[Len(f)] = Unshift(SubSeq(name, 1, i - k) \o Us(k))
  <2> DEFINE a == SubSeq(name, 1, i - k)
  <2> a \in Seq(Characters) /\ d[Len(o)] = Unshift(a)
    BY <1>4, <1>5
  <2> HIDE DEF a
  <2>1. d[Len(f)] = Unshift(a \o Us(k))
    BY <1>1, FlushDecodes
  <2>2. QED
    BY <2>1 DEF a
<1>7. SubSeq(name, 1, i - k) \o Us(k) = SubSeq(name, 1, i)
  BY <1>1, TakenBack DEF Heeded
<1>8. QED
  BY <1>6, <1>7

\* Every character keeps the invariant.
LEMMA PushHolds ==
  ASSUME NEW name \in Seq(Characters), NEW i \in 1..Len(name), NEW s, Holds(name, s, i - 1)
  PROVE  Holds(name, Push(s, name[i]), i)
<1>1. PICK o, k : s = Holding(o, k) /\ Heeded(name, i - 1, o, k) /\ Undone(name, i - 1, o, k)
  BY Zenon DEF Holds
<1>2. o \in Seq(Wire) /\ k \in 0..(i - 1) /\ k \in Nat /\ i - 1 \in 0..Len(name) /\ i \in Nat
  BY <1>1 DEF Heeded
<1> DEFINE c == name[i]
<1>3. CASE c = "u"
  <2>1. Push(s, c) = Holding(o, k + 1)
    BY <1>1, <1>3 DEF Push, Holding
  <2>2. Heeded(name, i, o, k + 1)
    <3>1. \A j \in (i - (k + 1) + 1)..i : j = i \/ j \in ((i - 1) - k + 1)..(i - 1)
      BY <1>2
    <3>2. k + 1 \in 0..i
      BY <1>2
    <3>3. QED
      BY <1>1, <1>2, <1>3, <3>1, <3>2 DEF Heeded
  <2>3. Undone(name, i, o, k + 1)
    <3> i - (k + 1) = (i - 1) - k
      BY <1>2
    <3>1. QED
      BY <1>1 DEF Undone
  <2>4. QED
    BY <2>1, <2>2, <2>3, Zenon DEF Holds
<1>4. CASE c # "u"
  <2> DEFINE f == Flush(Holding(o, k)).out
  <2> DEFINE g == f \o Escaped(c)
  <2>1. c \in Characters \ {"u"}
    BY <1>4
  <2>2. Flush(s) = Holding(f, 0) /\ f \in Seq(Wire)
    BY <1>1, <1>2, FlushFacts, Zenon
  <2>3. Push(s, c) = Holding(g, 0)
    <3> DEFINE x == Flush(s).out \o Escaped(c)
    <3>1. Push(s, c) = [Flush(s) EXCEPT !.out = x]
      BY <1>4, Zenon DEF Push
    <3>2. Flush(s).out = f
      BY <2>2 DEF Holding
    <3>3. x = g
      BY <3>2, Zenon
    <3> HIDE DEF f, g, x
    <3>4. [Holding(f, 0) EXCEPT !.out = x] = Holding(x, 0)
      BY DEF Holding
    <3>5. QED
      BY <2>2, <3>1, <3>3, <3>4, Zenon
  <2>4. g \in Seq(Wire) /\ Prefix(f, g)
    <3> HIDE DEF f, c
    <3>1. QED
      BY <2>1, <2>2, EscapedSplits
  <2>5. Heeded(name, i, g, 0)
    BY <2>4, <1>2 DEF Heeded
  <2>6. Undone(name, i, g, 0)
    <3> SUFFICES ASSUME NEW w \in Seq(Wire), NEW d, Decoding(d, w), Prefix(g, w)
                 PROVE  d[Len(g)] = Unshift(SubSeq(name, 1, i - 0))
      BY Zenon DEF Undone
    <3> DEFINE a == SubSeq(name, 1, i - 1)
    <3>1. Len(f) \in Nat /\ Len(g) \in Nat /\ Len(w) \in Nat
      <4> HIDE DEF f, g
      <4>1. QED
        BY <2>2, <2>4
    <3>2. Prefix(f, w)
      <4> HIDE DEF f, g
      <4>1. QED
        BY <3>1, <2>4, PrefixOf
    <3>3. d[Len(f)] = Unshift(a)
      <4> HIDE DEF g
      <4>1. QED
        BY <3>2, <1>1, <1>2, FlushUndone, SMTT(20)
    <3>4. a \in Seq(Characters)
      BY <1>2
    <3>5. d[Len(g)] = Unshift(Append(a, c))
      <4> HIDE DEF a, f, c
      <4>1. QED
        BY <3>3, <3>4, <2>1, <2>2, EscapedDecodes
    <3>6. Append(a, c) = SubSeq(name, 1, i)
      <4>1. Len(a) = i - 1 /\ \A j \in 1..(i - 1) : a[j] = name[j]
        BY <1>2
      <4> DEFINE h == SubSeq(name, 1, i)
      <4>2. h \in Seq(Characters) /\ Len(h) = i /\ \A j \in 1..i : h[j] = name[j]
        BY <1>2
      <4> HIDE DEF a, h
      <4> DEFINE b == Append(a, c)
      <4>3. c \in Characters
        BY <2>1
      <4> HIDE DEF c
      <4>4. b \in Seq(Characters) /\ Len(b) = i /\ b[i] = c /\ \A j \in 1..(i - 1) : b[j] = a[j]
        BY <3>4, <4>1, <4>3, <1>2
      <4> HIDE DEF b
      <4>5. \A j \in 1..i : b[j] = h[j]
        <5> TAKE j \in 1..i
        <5> j = i \/ j \in 1..(i - 1)
          BY <1>2
        <5>1. QED
          BY <4>1, <4>2, <4>4 DEF c
      <4>6. b = h
        BY <4>2, <4>4, <4>5
      <4>7. QED
        BY <4>6 DEF b, h
    <3>7. i - 0 = i
      BY <1>2
    <3>8. QED
      BY <3>5, <3>6, <3>7
  <2>7. QED
    BY <2>3, <2>5, <2>6, Zenon DEF Holds
<1>5. QED
  BY <1>3, <1>4

\* Every name comes back as it was from its wire form, which is of wire
\* characters alone.
LEMMA ComesBack ==
  ASSUME NEW name \in Seq(Characters)
  PROVE  Encode(name) \in Seq(Wire) /\ Decode(Encode(name)) = name
<1> DEFINE n == Len(name)
<1>1. n \in Nat
  OBVIOUS
<1>2. PICK st : /\ st[0] = NoneHeld
                /\ \A i \in 1..n : st[i] = Push(st[i - 1], name[i])
                /\ Encode(name) = Flush(st[n]).out
  BY EncodeStates, Zenon
<1> DEFINE P(i) == Holds(name, st[i], i)
<1>3. P(0)
  <2>1. st[0] = Holding(<<>>, 0)
    BY <1>2 DEF NoneHeld, Holding
  <2>2. Heeded(name, 0, <<>>, 0)
    BY DEF Heeded
  <2>3. Undone(name, 0, <<>>, 0)
    <3> SUFFICES ASSUME NEW w \in Seq(Wire), NEW d, Decoding(d, w), Prefix(<<>>, w)
                 PROVE  d[Len(<<>>)] = Unshift(SubSeq(name, 1, 0 - 0))
      BY Zenon DEF Undone
    <3>1. SubSeq(name, 1, 0 - 0) = <<>>
      OBVIOUS
    <3>2. Len(<<>>) = 0
      OBVIOUS
    <3>3. d[0] = NoneRead
      BY DEF Decoding
    <3>4. NoneRead = Unshift(<<>>)
      BY Zenon DEF NoneRead, Unshift
    <3>5. QED
      BY <3>1, <3>2, <3>3, <3>4
  <2>4. QED
    BY <2>1, <2>2, <2>3, Zenon DEF Holds
<1>4. ASSUME NEW i \in 1..n, P(i - 1) PROVE P(i)
  BY <1>2, <1>4, PushHolds
<1>5. P(n)
  <2> HIDE DEF P, n
  <2> DEFINE B == {j \in 0..n : ~P(j)}
  <2>1. CASE B = {}
    <3> n \in 0..n
      BY <1>1
    <3>1. QED
      BY <2>1
  <2>2. CASE B # {}
    <3>1. PICK j \in B : \A i \in B : j <= i
      <4> B \in SUBSET Nat
        OBVIOUS
      <4> HIDE DEF B
      <4>1. QED
        BY <2>2, Least
    <3>2. j # 0
      BY <3>1, <1>3
    <3>3. j \in 1..n /\ j - 1 \in 0..n /\ ~(j <= j - 1)
      BY <1>1, <3>1, <3>2
    <3>4. P(j - 1)
      BY <3>1, <3>3
    <3>5. QED
      BY <3>1, <3>3, <3>4, <1>4
  <2>3. QED
    BY <2>1, <2>2
<1>6. PICK o, k : st[n] = Holding(o, k) /\ Heeded(name, n, o, k) /\ Undone(name, n, o, k)
  BY <1>5, Zenon DEF Holds
<1> DEFINE w == Flush(Holding(o, k)).out
<1>7. Encode(name) = w
  BY <1>2, <1>6
<1>8. w \in Seq(Wire)
  <2> o \in Seq(Wire) /\ k \in Nat
    BY <1>6, <1>1 DEF Heeded
  <2>1. QED
    BY FlushFacts
<1>9. PICK d : Decoding(d, w) /\ Decode(w) = Finish(d[Len(w)])
  <2> HIDE DEF w
  <2>1. QED
    BY <1>8, DecodeStates, Zenon DEF Decoding
<1>10. Prefix(w, w)
  <2> HIDE DEF w
  <2> Len(w) \in Nat
    BY <1>8
  <2>1. QED
    BY DEF Prefix
<1>11. d[Len(w)] = Unshift(SubSeq(name, 1, n))
  <2> n \in 0..Len(name)
    BY <1>1
  <2> HIDE DEF n
  <2>1. QED
    BY <1>6, <1>8, <1>9, <1>10, FlushUndone
<1>12. SubSeq(name, 1, n) = name
  BY <1>1
<1>13. Finish(Unshift(name)) = name
  <2> Unshift(name).shift = FALSE /\ Unshift(name).out = name
    BY DEF Unshift
  <2>1. QED
    BY Zenon DEF Finish
<1>14. QED
  BY <1>7, <1>8, <1>9, <1>11, <1>12, <1>13

-----------------------------------------------------------------------------
(* The names of the caller and those of the server.                        *)

\* A name and its wire form are both there or both not.
LEMMA InplaceBack ==
  ASSUME NEW m \in Names
  PROVE  DecodeInplace(EncodeInplace(m)) = m
<1>1. m \in Seq(Characters)
  BY NamesAssumption
<1>2. \A s \in Seq({"amp", "dash", "u", "b", "x"}) : s # <<"inbox">>
  <2> TAKE s \in Seq({"amp", "dash", "u", "b", "x"})
  <2> SUFFICES ASSUME s = <<"inbox">> PROVE FALSE
    OBVIOUS
  <2>1. Len(s) = 1 /\ s[1] = "inbox"
    OBVIOUS
  <2>2. s[1] \in {"amp", "dash", "u", "b", "x"}
    BY <2>1, ElementOfSeq
  <2>3. QED
    BY <2>1, <2>2
<1>3. m # Inbox
  BY <1>1, <1>2 DEF Characters, Inbox
<1>4. Encode(m) \in Seq(Wire) /\ Decode(Encode(m)) = m
  BY <1>1, ComesBack
<1>5. \A s \in Seq({"amp", "dash", "b", "x"}) : s # <<"inbox">>
  <2> TAKE s \in Seq({"amp", "dash", "b", "x"})
  <2> SUFFICES ASSUME s = <<"inbox">> PROVE FALSE
    OBVIOUS
  <2>1. Len(s) = 1 /\ s[1] = "inbox"
    OBVIOUS
  <2>2. s[1] \in {"amp", "dash", "b", "x"}
    BY <2>1, ElementOfSeq
  <2>3. QED
    BY <2>1, <2>2
<1>6. Encode(m) # Inbox
  BY <1>4, <1>5 DEF Wire, Inbox
<1>7. QED
  BY <1>3, <1>4, <1>6, Zenon DEF EncodeInplace, DecodeInplace

\* The wire forms of a set of names.
Wired(S) == {EncodeInplace(m) : m \in S}
\* The server has the wire forms of the caller's names, and the strays.
KeptWires == wires = Wired(mine) \cup Strays /\ subscribed = Wired(mySubs)

\* A name more is a wire form more.
LEMMA WiredAdd ==
  ASSUME NEW S, NEW m
  PROVE  Wired(S \cup {m}) = Wired(S) \cup {EncodeInplace(m)}
  BY Zenon DEF Wired

\* A name less is a wire form less: no two names share one, and no stray has
\* one.
LEMMA WiredLess ==
  ASSUME NEW S \in SUBSET Names, NEW m \in Names
  PROVE  Wired(S \ {m}) = Wired(S) \ {EncodeInplace(m)} /\ EncodeInplace(m) \notin Strays
<1>1. \A n \in S : EncodeInplace(n) = EncodeInplace(m) => n = m
  <2> TAKE n \in S
  <2> DecodeInplace(EncodeInplace(n)) = n /\ DecodeInplace(EncodeInplace(m)) = m
    BY InplaceBack
  <2>1. QED
    BY Zenon
<1>2. Wired(S \ {m}) = Wired(S) \ {EncodeInplace(m)}
  BY <1>1, Zenon DEF Wired
<1>3. EncodeInplace(m) \notin Strays
  <2> DecodeInplace(EncodeInplace(m)) \in Names
    BY InplaceBack
  <2>1. QED
    BY NamesAssumption
<1>4. QED
  BY <1>2, <1>3

\* CREATE, DELETE, RENAME, SUBSCRIBE and UNSUBSCRIBE keep the wire forms.
LEMMA NamesChange ==
  ASSUME OInv, Requests, Stays, KeptWires, SrvNames
  PROVE  KeptWires'
<1> DEFINE m == cmd.mailbox
<1>1. mine \in SUBSET Names /\ mySubs \in SUBSET Names
  BY DEF Stays, Owned
<1>2. ASSUME NEW op \in {"CREATE", "DELETE", "RENAME", "SUBSCRIBE", "UNSUBSCRIBE"}, Answers(op, <<>>)
      PROVE  /\ m \in Names /\ req.mailbox = EncodeInplace(m)
             /\ op = "RENAME" => cmd.to \in Names /\ req.to = EncodeInplace(cmd.to)
  BY <1>2, SentAsked DEF Answers, Executes, Asked
<1> HIDE DEF m
<1>3. CASE Answers("CREATE", <<>>) /\ wires' = wires \cup {req.mailbox}
      /\ mine' = mine \cup {m} /\ UNCHANGED <<subscribed, mySubs>>
  <2> Wired(mine \cup {m}) = Wired(mine) \cup {EncodeInplace(m)}
    BY WiredAdd
  <2> req.mailbox = EncodeInplace(m)
    BY <1>2, <1>3
  <2>1. QED
    BY <1>3 DEF KeptWires, Wired
<1>4. CASE Answers("DELETE", <<>>) /\ wires' = wires \ {req.mailbox} /\ mine' = mine \ {m}
      /\ UNCHANGED <<subscribed, mySubs>>
  <2>1. m \in Names /\ req.mailbox = EncodeInplace(m)
    BY <1>2, <1>4
  <2>2. Wired(mine \ {m}) = Wired(mine) \ {EncodeInplace(m)} /\ EncodeInplace(m) \notin Strays
    BY <1>1, <2>1, WiredLess
  <2>3. QED
    BY <1>4, <2>1, <2>2 DEF KeptWires
<1>5. CASE Answers("RENAME", <<>>) /\ wires' = (wires \ {req.mailbox}) \cup {req.to}
           /\ mine' = (mine \ {m}) \cup {cmd.to} /\ UNCHANGED <<subscribed, mySubs>>
  <2>1. m \in Names /\ req.mailbox = EncodeInplace(m) /\ req.to = EncodeInplace(cmd.to)
    BY <1>2, <1>5
  <2>2. Wired(mine \ {m}) = Wired(mine) \ {EncodeInplace(m)} /\ EncodeInplace(m) \notin Strays
    BY <1>1, <2>1, WiredLess
  <2>3. Wired((mine \ {m}) \cup {cmd.to}) = Wired(mine \ {m}) \cup {EncodeInplace(cmd.to)}
    BY WiredAdd
  <2>4. QED
    BY <1>5, <2>1, <2>2, <2>3 DEF KeptWires
<1>6. CASE Answers("SUBSCRIBE", <<>>) /\ subscribed' = subscribed \cup {req.mailbox}
      /\ mySubs' = mySubs \cup {m} /\ UNCHANGED <<wires, mine>>
  <2>1. Wired(mySubs \cup {m}) = Wired(mySubs) \cup {EncodeInplace(m)}
    BY WiredAdd
  <2>2. req.mailbox = EncodeInplace(m)
    BY <1>2, <1>6
  <2>3. QED
    BY <1>6, <2>1, <2>2 DEF KeptWires
<1>7. CASE Answers("UNSUBSCRIBE", <<>>) /\ subscribed' = subscribed \ {req.mailbox}
      /\ mySubs' = mySubs \ {m} /\ UNCHANGED <<wires, mine>>
  <2>1. m \in Names /\ req.mailbox = EncodeInplace(m)
    BY <1>2, <1>7
  <2>2. Wired(mySubs \ {m}) = Wired(mySubs) \ {EncodeInplace(m)}
    BY <1>1, <2>1, WiredLess
  <2>3. QED
    BY <1>7, <2>1, <2>2 DEF KeptWires
<1>8. QED
  BY <1>3, <1>4, <1>5, <1>6, <1>7 DEF SrvNames, m

\* The values of the responses of a type.
Shown(s, type) == {s[i].value : i \in Of(s, type)}
\* The type of the responses to LIST and LSUB.
ListType(op) == IF op = "List" THEN "List" ELSE "Lsub"
\* What was read of a LIST or an LSUB is nothing before it runs, and then all
\* the server has.
ListShows ==
  phase \in Exchanging /\ cmd.op \in {"List", "Lsub"} =>
    Shown(out.data, ListType(cmd.op)) =
      IF ~ran THEN {} ELSE IF cmd.op = "List" THEN wires ELSE subscribed

\* What a batch shows is added to what was shown.
LEMMA ShownConcat ==
  ASSUME NEW s, NEW d, Plain(s), Plain(d), NEW type
  PROVE  Shown(s \o d, type) = Shown(s, type) \cup Shown(d, type)
<1> DEFINE c == s \o d
<1>1. /\ \A p \in Of(s, type) : p \in Of(c, type) /\ c[p] = s[p]
      /\ \A p \in Of(d, type) : Len(s) + p \in Of(c, type) /\ c[Len(s) + p] = d[p]
      /\ \A p \in Of(c, type) : p \in Of(s, type) \/ (p - Len(s) \in Of(d, type) /\ p > Len(s))
  BY OfConcat
<1>2. Len(s) \in Nat /\ \A p \in Of(c, type) : p \in Nat
  <2> Plain(c)
    BY PlainConcat
  <2> Len(s) \in Nat /\ DOMAIN c = 1..Len(c) /\ Len(c) \in Nat
    <3> HIDE DEF c
    <3>1. QED
      BY PlainFacts
  <2>1. QED
    BY DEF Of
<1> HIDE DEF c
<1>3. ASSUME NEW p \in Of(c, type) PROVE c[p].value \in Shown(s, type) \cup Shown(d, type)
  <2>1. CASE p \in Of(s, type)
    BY <1>1, <2>1 DEF Shown
  <2>2. CASE p - Len(s) \in Of(d, type)
    <3> Len(s) + (p - Len(s)) = p
      BY <1>2
    <3> c[p] = d[p - Len(s)]
      BY <1>1, <2>2
    <3>1. QED
      BY <2>2 DEF Shown
  <2>3. QED
    BY <1>1, <2>1, <2>2
<1>4. \A p \in Of(s, type) : s[p].value \in Shown(c, type)
  BY <1>1 DEF Shown
<1>5. \A p \in Of(d, type) : d[p].value \in Shown(c, type)
  BY <1>1 DEF Shown
<1>6. Shown(c, type) = Shown(s, type) \cup Shown(d, type)
  BY <1>3, <1>4, <1>5 DEF Shown
<1>7. QED
  BY <1>6 DEF c

\* The names of a finite set, as LIST and LSUB answer them.
LEMMA AllShown ==
  ASSUME NEW S, IsFiniteSet(S), NEW type
  PROVE  LET d == [i \in 1..Cardinality(S) |-> D(type, 0, SetToSeq(S)[i])]
         IN Plain(d) /\ Shown(d, type) = S
<1> DEFINE n == Cardinality(S)
           v == SetToSeq(S)
           d == [i \in 1..n |-> D(type, 0, v[i])]
<1>1. n \in Nat /\ \E f \in [1..n -> S] : IsInjective(f)
  <2>1. n \in Nat /\ ExistsBijection(1..n, S)
    BY FS_CardinalityType
  <2> HIDE DEF n
  <2>2. PICK f \in Bijection(1..n, S) : TRUE
    BY <2>1 DEF ExistsBijection
  <2>3. f \in [1..n -> S] /\ \A a, b \in 1..n : f[a] = f[b] => a = b
    BY <2>2 DEF Bijection, Injection, IsInjective
  <2>4. IsInjective(f)
    BY <2>3 DEF IsInjective
  <2>5. QED
    BY <2>1, <2>3, <2>4
<1>2. v \in [1..n -> S] /\ IsInjective(v)
  BY <1>1 DEF SetToSeq
<1> HIDE DEF v
<1>3. v \in Injection(1..n, S)
  BY <1>2 DEF Injection
<1>4. \A x \in S : \E i \in 1..n : v[i] = x
  <2>1. Cardinality(1..n) = n /\ IsFiniteSet(1..n)
    <3> HIDE DEF n
    <3> 1 \in Int /\ n \in Int
      BY <1>1
    <3>1. QED
      BY <1>1, FS_Interval
  <2>2. v \in Surjection(1..n, S)
    BY <1>3, <2>1, FS_Injection
  <2>3. QED
    BY <2>2 DEF Surjection
<1> HIDE DEF n
<1>5. d \in [1..n -> {d[i] : i \in 1..n}]
  OBVIOUS
<1>6. \A i \in 1..n : d[i].type = type /\ d[i].value = v[i]
  BY DEF D
<1> HIDE DEF d
<1>7. Plain(d) /\ DOMAIN d = 1..n
  BY <1>1, <1>5, PlainFrom
<1>8. Shown(d, type) = S
  BY <1>2, <1>4, <1>6, <1>7 DEF Shown, Of
<1>9. QED
  BY <1>7, <1>8 DEF d, n, v

\* Responses of other types show nothing.
LEMMA NoneShown ==
  ASSUME NEW n \in Nat, NEW d, d = [i \in 1..n |-> d[i]], NEW type, \A i \in 1..n : d[i].type # type
  PROVE  Plain(d) /\ Shown(d, type) = {}
<1>1. d \in [1..n -> {d[i] : i \in 1..n}]
  OBVIOUS
<1>2. Plain(d) /\ DOMAIN d = 1..n
  BY <1>1, PlainFrom
<1>3. QED
  BY <1>2 DEF Shown, Of

\* The server keeps to it.
LEMMA ListingServer ==
  ASSUME OInv, CallState, Stays, Listable, Answered, ListShows, Server
  PROVE  ListShows'
<1> DEFINE type == ListType(cmd.op)
           s == out.data
           Now == IF cmd.op = "List" THEN wires ELSE subscribed
<1> SUFFICES ASSUME cmd'.op \in {"List", "Lsub"}
             PROVE  ListShows'
  BY DEF ListShows
<1>1. phase \in Exchanging /\ cmd' = cmd /\ cmd.op \in {"List", "Lsub"}
  BY ServerUnderWay
<1>2. Plain(s)
  BY <1>1, PlainSoFar
<1>3. req.op = IF cmd.op = "List" THEN "LIST" ELSE "LSUB"
  BY <1>1 DEF CallState, Requests, Asked
<1>4. ~SrvLeave /\ ~SrvLogout /\ ~SrvNames /\ ~SrvSelect /\ ~SrvSearch /\ ~SrvFetch
  BY <1>3 DEF SrvLeave, SrvLogout, SrvNames, SrvSelect, SrvSearch, SrvFetch, Answers, Executes,
     InView
<1>5. ~SrvStore /\ ~SrvExpunge /\ ~SrvCopy /\ ~SrvMove /\ ~SrvAppend /\ ~SrvRaw
  BY <1>3 DEF SrvStore, SrvExpunge, SrvCopy, SrvMove, SrvAppend, SrvRaw, InView, ReadWrite
<1>6. type \in {"List", "Lsub"}
  BY DEF ListType
<1>7. Shown(s, type) = IF ~ran THEN {} ELSE Now
  BY <1>1 DEF ListShows
<1>8. ASSUME NEW d, Plain(d)
      PROVE  Shown(s \o d, type) = Shown(s, type) \cup Shown(d, type)
  <2> HIDE DEF s, type, Now
  <2>1. QED
    BY <1>2, <1>8, ShownConcat
<1>9. ASSUME NEW d, Plain(d), Shown(d, type) = {}, out'.data = s \o d, UNCHANGED <<ran, wires, subscribed>>
      PROVE  ListShows'
  <2>1. Shown(out'.data, type) = Shown(s, type)
    <3>1. Shown(s \o d, type) = Shown(s, type) \cup {}
      BY <1>9, <1>8, Zenon
    <3> HIDE DEF s, type
    <3>2. QED
      BY <1>9, <3>1
  <2>2. QED
    BY <1>1, <1>7, <1>9, <2>1 DEF ListShows
<1>10. ASSUME NEW d, Plain(d), Shown(d, type) = Now, NEW op, Answers(op, d), UNCHANGED <<wires, subscribed>>
      PROVE  ListShows'
  <2>1. out'.data = s \o d /\ ran' = TRUE
    BY <1>10, AnswersAdds
  <2>2. ~ran
    BY <1>10 DEF Answers, Executes, OInv, Staged, Waiting
  <2>3. Shown(out'.data, type) = Now
    <3>1. Shown(s, type) = {}
      BY <1>7, <2>2
    <3>2. Shown(s \o d, type) = {} \cup Now
      BY <1>10, <1>8, <3>1, Zenon
    <3> HIDE DEF s, type, Now
    <3>3. QED
      BY <2>1, <3>2
  <2>4. QED
    BY <1>1, <1>10, <2>1, <2>3 DEF ListShows
<1>11. CASE SrvPlain
  <2>1. UNCHANGED <<wires, subscribed>>
    BY <1>11 DEF SrvPlain, srvVars, nameVars
  <2> DEFINE Names1(S, t) == [i \in 1..Cardinality(S) |-> D(t, 0, SetToSeq(S)[i])]
  <2>2. \/ cmd.op = "List" /\ Answers("LIST", Names1(wires, "List"))
        \/ cmd.op = "Lsub" /\ Answers("LSUB", Names1(subscribed, "Lsub"))
    BY <1>1, <1>3, <1>11 DEF SrvPlain, Answers, Executes, InView
  <2>3. Plain(Names1(wires, "List")) /\ Shown(Names1(wires, "List"), "List") = wires
    BY AllShown DEF Listable
  <2>4. Plain(Names1(subscribed, "Lsub")) /\ Shown(Names1(subscribed, "Lsub"), "Lsub") = subscribed
    BY AllShown DEF Listable
  <2> HIDE DEF Names1
  <2>5. CASE cmd.op = "List" /\ Answers("LIST", Names1(wires, "List"))
    <3> type = "List" /\ Now = wires
      BY <2>5 DEF ListType
    <3> HIDE DEF type, Now
    <3>1. QED
      BY <1>10, <2>1, <2>3, <2>5
  <2>6. CASE cmd.op = "Lsub" /\ Answers("LSUB", Names1(subscribed, "Lsub"))
    <3> type = "Lsub" /\ Now = subscribed
      BY <2>6 DEF ListType
    <3> HIDE DEF type, Now
    <3>1. QED
      BY <1>10, <2>1, <2>4, <2>6
  <2>7. QED
    BY <2>2, <2>5, <2>6
<1> HIDE DEF type, Now
<1>12. CASE TellExpunge \/ TellExists \/ TellFlags
  <2>1. PICK d : Announces(d) /\ Plain(d) /\ Shown(d, type) = {}
    <3>1. CASE TellExists
      <4> DEFINE x == D("Exists", 0, Len(told) + Len(Fresh))
                 d == <<x>>
      <4>1. Announces(d)
        BY <3>1 DEF TellExists, Fresh
      <4>2. d = [i \in 1..1 |-> d[i]] /\ \A i \in 1..1 : d[i].type # type
        BY <1>6 DEF D
      <4> HIDE DEF d
      <4>3. QED
        BY <4>1, <4>2, NoneShown
    <3>2. CASE TellExpunge \/ TellFlags
      <4>1. PICK k \in DOMAIN told, names \in {{"Flags"}, {"Flags", "Uid"}} :
              Announces(Expunges({k})) \/ Announces(Fetched({k}, names))
        BY <3>2 DEF TellExpunge, TellFlags
      <4>2. Cardinality({k}) = 1
        BY FS_Singleton
      <4>3. /\ Expunges({k}) = [i \in 1..1 |-> Expunges({k})[i]] /\ \A i \in 1..1 : Expunges({k})[i].type # type
        BY <4>2, <1>6 DEF Expunges, D
      <4>4. /\ Fetched({k}, names) = [i \in 1..1 |-> Fetched({k}, names)[i]] /\ \A i \in 1..1 : Fetched({k}, names)[i].type # type
        BY <4>2, <1>6 DEF Fetched, D
      <4> DEFINE e == Expunges({k})
                 f == Fetched({k}, names)
      <4> HIDE DEF e, f
      <4>5. Plain(e) /\ Shown(e, type) = {}
        BY <4>3, NoneShown DEF e
      <4>6. Plain(f) /\ Shown(f, type) = {}
        BY <4>4, NoneShown DEF f
      <4>7. QED
        BY <4>1, <4>5, <4>6 DEF e, f
    <3>3. QED
      BY <1>12, <3>1, <3>2
  <2>2. out'.data = s \o d /\ ran' = ran
    BY <2>1, AnnouncesAdds
  <2>3. UNCHANGED <<wires, subscribed>>
    BY <2>1 DEF Announces, nameVars
  <2>4. QED
    BY <1>9, <2>1, <2>2, <2>3
<1>13. CASE SrvContinue \/ SrvOk \/ SrvRefuse \/ SrvBye
  <2>1. out'.data = s /\ UNCHANGED ran
    BY <1>13, ConcludingKeeps
  <2>2. UNCHANGED <<wires, subscribed>>
    BY <1>13 DEF SrvContinue, SrvOk, SrvRefuse, SrvBye, SrvTagged, srvVars, nameVars
  <2>3. QED
    BY <1>1, <1>7, <2>1, <2>2 DEF ListShows, type, Now
<1>14. QED
  BY <1>4, <1>5, <1>11, <1>12, <1>13 DEF Server

\* Every step keeps the wire forms.
LEMMA WiredSteps ==
  ASSUME TInv, KeptWires, Next
  PROVE  KeptWires'
<1>1. CASE UNCHANGED nameVars
  BY <1>1 DEF KeptWires, nameVars
<1>2. CASE SrvNames
  BY <1>2, NamesChange DEF TInv, CallState
<1>3. CASE SessionCommands \/ MailboxCommands \/ MessageCommands \/ ReadEof
  BY <1>1, <1>3, ClientSteps, ClientKeeps DEF TInv, srvVars
<1>4. CASE Server
  <2>1. CASE SrvPlain \/ SrvLeave \/ SrvLogout \/ SrvSelect \/ SrvSearch \/ SrvFetch \/ SrvStore
    BY <1>1, <2>1 DEF SrvPlain, SrvLeave, SrvLogout, SrvSelect, SrvSearch, SrvFetch, SrvStore, srvVars
  <2>2. CASE SrvExpunge \/ SrvCopy \/ SrvMove \/ SrvAppend
    BY <1>1, <2>2 DEF SrvExpunge, SrvCopy, SrvMove, SrvAppend
  <2>3. CASE SrvContinue \/ SrvOk \/ SrvRefuse \/ SrvBye \/ SrvRaw
    BY <1>1, <2>3 DEF SrvContinue, SrvOk, SrvRefuse, SrvBye, SrvRaw, SrvTagged, srvVars
  <2>4. CASE TellExpunge \/ TellExists \/ TellFlags
    BY <1>1, <2>4 DEF TellExpunge, TellExists, TellFlags, Announces
  <2>5. QED
    BY <1>2, <1>4, <2>1, <2>2, <2>3, <2>4 DEF Server
<1>5. CASE OtherExpunge \/ OtherStore \/ OtherDeliver
  BY <1>1, <1>5 DEF OtherExpunge, OtherStore, OtherDeliver, Changes
<1>6. QED
  BY <1>3, <1>4, <1>5 DEF Next

\* Every step keeps what LIST and LSUB have read.
LEMMA ListingSteps ==
  ASSUME TInv, ListShows, Next
  PROVE  ListShows'
<1>1. CASE out' = NoOutput /\ ~ran'
  <2> DEFINE none == <<>>
  <2>1. out'.data = none /\ DOMAIN none = {}
    BY <1>1 DEF NoOutput
  <2> HIDE DEF none
  <2>2. ASSUME NEW type PROVE Shown(out'.data, type) = {}
    BY <2>1 DEF Shown, Of
  <2>3. QED
    BY <1>1, <2>2 DEF ListShows
<1>2. CASE UNCHANGED <<cmd, phase, out, ran, wires, subscribed>>
  BY <1>2 DEF ListShows
<1>3. CASE SessionCommands \/ MailboxCommands \/ MessageCommands \/ ReadEof
  <2>1. CASE Starts \/ FetchesNext
    BY <1>1, <2>1 DEF Starts, FetchesNext
  <2>2. CASE Reads
    BY <2>2 DEF Reads, ListShows, Exchanging
  <2>3. CASE Advances
    <3>1. UNCHANGED <<cmd, ran, wires, subscribed>> /\ phase \in Exchanging /\ ~ran
      BY <2>3 DEF Advances, srvVars, nameVars, Exchanging, TInv, OInv, Staged, Waiting
    <3>2. CASE out' = out
      BY <3>1, <3>2 DEF ListShows
    <3>3. QED
      BY <1>1, <2>3, <3>1, <3>2 DEF Advances
  <2>4. CASE Raw
    BY <2>4 DEF Raw, RawRefused, RawStart, RawRead, RawEof, Kept, ListShows
  <2>5. QED
    BY <1>3, <2>1, <2>2, <2>3, <2>4, ClientSteps DEF TInv
<1>4. CASE OtherExpunge \/ OtherStore \/ OtherDeliver
  BY <1>2, <1>4 DEF OtherExpunge, OtherStore, OtherDeliver, Changes, callVars, nameVars
<1>5. CASE Server
  BY <1>5, ListingServer DEF TInv
<1>6. QED
  BY <1>3, <1>4, <1>5 DEF Next

\* The values of the responses at some positions, decoded.
LEMMA DecodedAt ==
  ASSUME NEW T, NEW s \in Seq(T), NEW S \in SUBSET DOMAIN s
  PROVE  ToSet(Decoded(Values(At(s, S)))) = {DecodeInplace(s[k].value) : k \in S}
<1> DEFINE n == Cardinality(S)
           p == Ordered(S)
           a == At(s, S)
<1>1. /\ DOMAIN a = 1..n
      /\ \A i \in 1..n : p[i] \in S /\ a[i] = s[p[i]]
      /\ \A k \in S : \E i \in 1..n : p[i] = k
  BY AtFacts
<1> HIDE DEF a, p, n
<1> DEFINE r == Decoded(Values(a))
<1>2. DOMAIN r = 1..n /\ \A i \in 1..n : r[i] = DecodeInplace(a[i].value)
  BY <1>1 DEF Decoded, Values
<1> HIDE DEF r
<1>3. \A i \in 1..n : r[i] \in {DecodeInplace(s[k].value) : k \in S}
  BY <1>1, <1>2
<1>4. \A k \in S : \E i \in 1..n : r[i] = DecodeInplace(s[k].value)
  BY <1>1, <1>2
<1>5. ToSet(r) = {DecodeInplace(s[k].value) : k \in S}
  BY <1>2, <1>3, <1>4 DEF ToSet
<1>6. QED
  BY <1>5 DEF r, a

\* What a call returns of the responses of a type.
LEMMA DecodedShown ==
  ASSUME NEW o, Plain(o.data), NEW type
  PROVE  ToSet(Decoded(Values(OfType(o, type)))) = {DecodeInplace(v) : v \in Shown(o.data, type)}
<1> DEFINE s == o.data
           T == ToSet(s)
           S == Of(s, type)
<1>1. s \in Seq(T) /\ S \in SUBSET DOMAIN s
  BY DEF Plain, Of
<1>2. OfType(o, type) = At(s, S)
  BY DEF OfType, Of
<1>3. {DecodeInplace(v) : v \in Shown(s, type)} = {DecodeInplace(s[k].value) : k \in S}
  BY DEF Shown
<1> HIDE DEF s, T, S
<1>4. ToSet(Decoded(Values(At(s, S)))) = {DecodeInplace(s[k].value) : k \in S}
  BY <1>1, DecodedAt
<1>5. QED
  BY <1>2, <1>3, <1>4 DEF s

\* The caller's own names come back as they were given, and no stray one does.
LEMMA WiredBack ==
  ASSUME NEW M \in SUBSET Names
  PROVE  /\ {DecodeInplace(v) : v \in Wired(M) \cup Strays} \cap Names = M
         /\ {DecodeInplace(v) : v \in Wired(M)} \cap Names = M
<1>1. \A m \in M : EncodeInplace(m) \in Wired(M) /\ DecodeInplace(EncodeInplace(m)) = m
  BY InplaceBack DEF Wired
<1>2. \A v \in Wired(M) : DecodeInplace(v) \in M
  BY InplaceBack DEF Wired
<1>3. \A v \in Strays : DecodeInplace(v) \notin Names
  BY NamesAssumption
<1>4. QED
  BY <1>1, <1>2, <1>3, Zenon

\* The names that LIST and LSUB return are decoded from it.
LEMMA ReadsNames ==
  ASSUME TInv, KeptWires, ListShows, Reads
  PROVE  NamesExact'
<1>1. /\ UNCHANGED <<cmd, out, mine, mySubs>> /\ phase \in Exchanging
      /\ cmd.op \in {"List", "Lsub"} /\ result'.status = "Ok" => result'.value = Reading(cmd.op, out)
      /\ result'.status = "Ok" => ran
  BY DEF Reads, Reported, Kept, srvVars, nameVars, TInv, OInv, Statuses
<1>2. mine \in SUBSET Names /\ mySubs \in SUBSET Names
  BY DEF TInv, Stays, Owned
<1>3. ASSUME cmd.op \in {"List", "Lsub"}
      PROVE  Plain(out.data)
  BY <1>1, <1>3 DEF TInv, Answered, Data
<1>4. ASSUME result'.status = "Ok", cmd.op = "List"
      PROVE  ToSet(result'.value) \cap Names = mine
  <2>1. Shown(out.data, "List") = Wired(mine) \cup Strays
    BY <1>1, <1>4 DEF ListShows, ListType, KeptWires
  <2>2. ToSet(result'.value) = {DecodeInplace(v) : v \in Shown(out.data, "List")}
    BY <1>1, <1>3, <1>4, DecodedShown DEF Reading
  <2>3. QED
    BY <1>2, <2>1, <2>2, WiredBack
<1>5. ASSUME result'.status = "Ok", cmd.op = "Lsub"
      PROVE  ToSet(result'.value) \cap Names = mySubs
  <2>1. Shown(out.data, "Lsub") = Wired(mySubs)
    BY <1>1, <1>5 DEF ListShows, ListType, KeptWires
  <2>2. ToSet(result'.value) = {DecodeInplace(v) : v \in Shown(out.data, "Lsub")}
    BY <1>1, <1>3, <1>5, DecodedShown DEF Reading
  <2>3. QED
    BY <1>2, <2>1, <2>2, WiredBack
<1>6. QED
  BY <1>1, <1>4, <1>5 DEF NamesExact, Returned

\* The invariant of NamesExact.
NamesInv == TInv /\ KeptWires /\ ListShows /\ NamesExact

\* It holds at the start.
LEMMA NamesInit == Init => NamesInv
<1> SUFFICES ASSUME Init
             PROVE  NamesInv
  OBVIOUS
<1>1. phase = "idle" /\ result.status = "none"
  BY DEF Init, NoResult
<1>2. KeptWires
  BY DEF Init, KeptWires, Wired
<1>3. QED
  BY <1>1, <1>2, TypesInit DEF NamesInv, ListShows, NamesExact, Returned, Exchanging

\* Every step preserves it.
LEMMA NamesStep == NamesInv /\ [Next]_vars => NamesInv'
<1> SUFFICES ASSUME NamesInv, [Next]_vars
             PROVE  NamesInv'
  OBVIOUS
<1> USE DEF NamesInv
<1>1. TInv'
  BY TypesStep
<1>2. KeptWires' /\ ListShows'
  <2>1. CASE UNCHANGED vars
    BY <2>1 DEF vars, callVars, srvVars, nameVars, KeptWires, ListShows
  <2>2. CASE Next
    BY <2>2, WiredSteps, ListingSteps
  <2>3. QED
    BY <2>1, <2>2
<1>3. NamesExact'
  <2>1. CASE Reads
    BY <2>1, ReadsNames
  <2>2. CASE UNCHANGED <<callVars, nameVars>>
    BY <2>2 DEF callVars, nameVars, NamesExact, Returned
  <2>3. CASE result'.status = "none" \/ cmd'.op = "Raw"
    BY <2>3 DEF NamesExact, Returned
  <2>4. QED
    BY <1>1, <2>1, <2>2, <2>3, Outcomes
<1>4. QED
  BY <1>1, <1>2, <1>3

(* The caller sees its mailboxes under the names it gave them: no name     *)
(* turns into another on its way to the server and back, for any names of  *)
(* any length (src/rfc3501/mailbox.rs:17-56).                              *)
THEOREM NamesAreExact == Spec => []NamesExact
<1>1. NamesInv => NamesExact
  BY DEF NamesInv
<1>2. QED
  BY <1>1, NamesInit, NamesStep, PTL DEF Spec

-----------------------------------------------------------------------------
(* The places of the local sort.                                           *)

\* The members of S in the order R: place i holds one that has i - 1 before it.
Places(e, S, R) ==
  LET n == Cardinality(S)
      place(k) == Cardinality({j \in S : <<j, k>> \in R}) + 1
  IN /\ DOMAIN e = 1..n /\ e = [i \in 1..n |-> e[i]]
     /\ \A i \in 1..n : \A k \in S : place(k) = i => e[i] \in S /\ place(e[i]) = i
\* R orders the members of S, none of them twice.
StrictOrder(S, R) ==
  /\ \A x \in S : <<x, x>> \notin R
  /\ \A x, y, z \in S : <<x, y>> \in R /\ <<y, z>> \in R => <<x, z>> \in R
  /\ \A x, y \in S : x # y => <<x, y>> \in R \/ <<y, x>> \in R

\* Places in a strict order enumerate the set in that order.
LEMMA PlacedFacts ==
  ASSUME NEW S, IsFiniteSet(S), NEW R, StrictOrder(S, R), NEW o, Places(o, S, R)
  PROVE  /\ Cardinality(S) \in Nat /\ o \in [1..Cardinality(S) -> S]
         /\ \A i, j \in 1..Cardinality(S) : i < j => <<o[i], o[j]>> \in R
         /\ \A x \in S : \E i \in 1..Cardinality(S) : o[i] = x
<1> DEFINE n == Cardinality(S)
           Below(x) == {y \in S : <<y, x>> \in R}
           rank == [x \in S |-> Cardinality(Below(x))]
<1>1. /\ \A x \in S : <<x, x>> \notin R
      /\ \A x, y, z \in S : <<x, y>> \in R /\ <<y, z>> \in R => <<x, z>> \in R
      /\ \A x, y \in S : x # y => <<x, y>> \in R \/ <<y, x>> \in R
  BY DEF StrictOrder
<1>2. n \in Nat
  BY FS_CardinalityType
<1>3. ASSUME NEW x \in S
      PROVE  /\ IsFiniteSet(Below(x)) /\ Cardinality(Below(x)) \in Nat
             /\ Cardinality(Below(x)) < n
  <2>1. Below(x) \in SUBSET S /\ x \notin Below(x)
    BY <1>1
  <2>2. Below(x) # S
    BY <2>1
  <2> HIDE DEF Below
  <2>3. /\ IsFiniteSet(Below(x)) /\ Cardinality(Below(x)) <= Cardinality(S)
        /\ Cardinality(S) # Cardinality(Below(x))
    BY <2>1, <2>2, FS_Subset, Zenon
  <2>4. Cardinality(Below(x)) \in Nat
    BY <2>3, FS_CardinalityType
  <2>5. QED
    BY <1>2, <2>3, <2>4
<1>4. ASSUME NEW x \in S, NEW y \in S, <<x, y>> \in R
      PROVE  Cardinality(Below(x)) < Cardinality(Below(y))
  <2>1. Below(x) \in SUBSET Below(y)
    BY <1>4, <1>1
  <2>2. Below(x) # Below(y)
    <3>1. x \in Below(y) /\ x \notin Below(x)
      BY <1>4, <1>1
    <3>2. QED
      BY <3>1
  <2>3. IsFiniteSet(Below(y)) /\ Cardinality(Below(y)) \in Nat /\ Cardinality(Below(x)) \in Nat
    BY <1>3
  <2> HIDE DEF Below
  <2>4. /\ Cardinality(Below(x)) <= Cardinality(Below(y))
        /\ Cardinality(Below(y)) # Cardinality(Below(x))
    BY <2>1, <2>2, <2>3, FS_Subset, Zenon
  <2>5. QED
    BY <2>3, <2>4
<1>5. \A x \in S : rank[x] = Cardinality(Below(x))
  OBVIOUS
<1>6. rank \in Injection(S, 0..(n - 1))
  <2> HIDE DEF Below
  <2>1. rank \in [S -> 0..(n - 1)]
    <3>1. \A x \in S : Cardinality(Below(x)) \in 0..(n - 1)
      BY <1>2, <1>3
    <3> HIDE DEF n
    <3>2. QED
      BY <3>1
  <2> HIDE DEF rank, n
  <2>2. ASSUME NEW x \in S, NEW y \in S, rank[x] = rank[y], x # y
        PROVE  FALSE
    <3>1. <<x, y>> \in R \/ <<y, x>> \in R
      BY <1>1, <2>2
    <3>2. rank[x] < rank[y] \/ rank[y] < rank[x]
      BY <1>4, <1>5, <3>1
    <3>3. rank[x] \in Nat /\ rank[y] \in Nat
      BY <1>3, <1>5
    <3>4. QED
      BY <2>2, <3>2, <3>3
  <2>3. IsInjective(rank)
    <3>1. DOMAIN rank = S
      BY <2>1
    <3>2. QED
      BY <2>2, <3>1 DEF IsInjective
  <2>4. QED
    BY <2>1, <2>3 DEF Injection
<1>7. rank \in Surjection(S, 0..(n - 1))
  <2>1. IsFiniteSet(0..(n - 1)) /\ Cardinality(0..(n - 1)) = n
    <3>1. 0 \in Int /\ n - 1 \in Int /\ (IF 0 > n - 1 THEN 0 ELSE (n - 1) - 0 + 1) = n
      BY <1>2
    <3> HIDE DEF n
    <3>2. QED
      BY <3>1, FS_Interval
  <2> HIDE DEF rank
  <2>2. QED
    BY <1>6, <2>1, FS_Injection
<1> HIDE DEF rank
<1>8. \A m \in 0..(n - 1) : \E x \in S : Cardinality(Below(x)) = m
  <2> HIDE DEF n, Below
  <2>1. \A m \in 0..(n - 1) : \E x \in S : rank[x] = m
    BY <1>7 DEF Surjection
  <2>2. QED
    BY <2>1, <1>5
<1>9. /\ o = [i \in 1..n |-> o[i]]
      /\ \A i \in 1..n : \A k \in S : Cardinality(Below(k)) + 1 = i =>
           o[i] \in S /\ Cardinality(Below(o[i])) + 1 = i
  BY DEF Places
<1>10. ASSUME NEW i \in 1..n
      PROVE  o[i] \in S /\ Cardinality(Below(o[i])) + 1 = i
  <2>1. i - 1 \in 0..(n - 1) /\ (i - 1) + 1 = i
    BY <1>2
  <2> HIDE DEF n, Below
  <2>2. \E x \in S : Cardinality(Below(x)) + 1 = i
    BY <1>8, <2>1
  <2>3. QED
    BY <1>9, <2>2
<1>11. o \in [1..n -> S]
  <2> HIDE DEF n, Below
  <2>1. QED
    BY <1>10, <1>9
<1> HIDE DEF Below
<1>12. ASSUME NEW i \in 1..n, NEW j \in 1..n, i < j
      PROVE  <<o[i], o[j]>> \in R
  <2>1. /\ o[i] \in S /\ Cardinality(Below(o[i])) + 1 = i /\ Cardinality(Below(o[i])) \in Nat
        /\ o[j] \in S /\ Cardinality(Below(o[j])) + 1 = j /\ Cardinality(Below(o[j])) \in Nat
    BY <1>3, <1>10
  <2>2. CASE <<o[j], o[i]>> \in R
    <3>1. Cardinality(Below(o[j])) < Cardinality(Below(o[i]))
      BY <1>4, <2>1, <2>2
    <3>2. QED
      BY <1>12, <2>1, <3>1
  <2>3. CASE o[i] = o[j]
    BY <1>12, <2>1, <2>3
  <2>4. QED
    BY <1>1, <2>1, <2>2, <2>3
<1>13. ASSUME NEW x \in S
       PROVE  \E i \in 1..n : o[i] = x
  <2> DEFINE i == Cardinality(Below(x)) + 1
  <2>1. i \in 1..n
    BY <1>2, <1>3
  <2>2. o[i] \in S /\ Cardinality(Below(o[i])) + 1 = i
    BY <1>10, <2>1
  <2>3. Cardinality(Below(x)) \in Nat /\ Cardinality(Below(o[i])) \in Nat
    BY <1>3, <2>2
  <2> HIDE DEF n
  <2>4. <<o[i], x>> \notin R /\ <<x, o[i]>> \notin R
    BY <1>4, <2>2, <2>3
  <2>5. o[i] = x
    BY <1>1, <2>2, <2>4
  <2>6. QED
    BY <2>1, <2>5
<1>14. QED
  BY <1>2, <1>11, <1>12, <1>13

\* One row of numbers before another: by the first place where they differ,
\* upwards or downwards, then by their own numbers.
Ahead(r, K, i, j, k) == IF r[i] THEN K[k][i] < K[j][i] ELSE K[j][i] < K[k][i]
\* Which of two messages is first by their keys K and directions r, then by
\* number.
Wins(r, K, m, j, k) ==
  \/ \E i \in 1..m : Ahead(r, K, i, j, k) /\ \A l \in 1..m : l < i => K[j][l] = K[k][l]
  \/ (\A i \in 1..m : K[j][i] = K[k][i]) /\ j < k

\* It is a strict order.
LEMMA WinsOrder ==
  ASSUME NEW m \in Nat, NEW M \in SUBSET Nat, NEW r, NEW K,
         \A k \in M : \A i \in 1..m : K[k][i] \in Nat
  PROVE  StrictOrder(M, {p \in M \X M : Wins(r, K, m, p[1], p[2])})
<1>1. ASSUME NEW x \in M
      PROVE  ~Wins(r, K, m, x, x)
  BY DEF Wins, Ahead
<1>2. ASSUME NEW x \in M, NEW y \in M, x # y
      PROVE  Wins(r, K, m, x, y) \/ Wins(r, K, m, y, x)
  <2> DEFINE B == {i \in 1..m : K[x][i] # K[y][i]}
  <2>1. CASE B = {}
    <3>1. \A i \in 1..m : K[x][i] = K[y][i]
      BY <2>1
    <3>2. x < y \/ y < x
      <4>1. x \in Nat /\ y \in Nat /\ x # y
        BY <1>2
      <4>2. QED
        BY <4>1
    <3>3. QED
      BY <3>1, <3>2 DEF Wins
  <2>2. CASE B # {}
    <3>1. B \in SUBSET Nat
      OBVIOUS
    <3>2. PICK i \in B : \A j \in B : i <= j
      <4> HIDE DEF B
      <4>1. QED
        BY <2>2, <3>1, Least
    <3>3. i \in 1..m /\ K[x][i] # K[y][i] /\ \A l \in 1..m : l < i => K[x][l] = K[y][l]
      BY <3>2
    <3>4. Ahead(r, K, i, x, y) \/ Ahead(r, K, i, y, x)
      BY <3>3 DEF Ahead
    <3> HIDE DEF B
    <3>5. QED
      BY <3>3, <3>4 DEF Wins
  <2>3. QED
    BY <2>1, <2>2
<1>3. ASSUME NEW x \in M, NEW y \in M, NEW z \in M, Wins(r, K, m, x, y), Wins(r, K, m, y, z)
      PROVE  Wins(r, K, m, x, z)
  <2> DEFINE Same(a, b) == \A i \in 1..m : K[a][i] = K[b][i]
             At1(i, a, b) == Ahead(r, K, i, a, b) /\ \A l \in 1..m : l < i => K[a][l] = K[b][l]
  <2>1. CASE Same(x, y) /\ x < y /\ Same(y, z) /\ y < z
    <3>1. x < z
      BY <2>1
    <3>2. Same(x, z)
      BY <2>1
    <3>3. QED
      BY <3>1, <3>2 DEF Wins
  <2>2. ASSUME NEW i \in 1..m, At1(i, x, y), Same(y, z)
        PROVE  Wins(r, K, m, x, z)
    <3>1. At1(i, x, z)
      BY <2>2 DEF Ahead
    <3>2. QED
      BY <3>1 DEF Wins
  <2>3. ASSUME NEW i \in 1..m, At1(i, y, z), Same(x, y)
        PROVE  Wins(r, K, m, x, z)
    <3>1. At1(i, x, z)
      BY <2>3 DEF Ahead
    <3>2. QED
      BY <3>1 DEF Wins
  <2>4. ASSUME NEW i \in 1..m, NEW j \in 1..m, At1(i, x, y), At1(j, y, z)
        PROVE  Wins(r, K, m, x, z)
    <3>1. CASE i < j
      <4>1. K[y][i] = K[z][i]
        BY <2>4, <3>1
      <4>2. Ahead(r, K, i, x, z)
        BY <2>4, <4>1 DEF Ahead
      <4>3. \A l \in 1..m : l < i => K[x][l] = K[z][l]
        <5> TAKE l \in 1..m
        <5>1. l < i => l < j
          BY <3>1
        <5>2. QED
          BY <2>4, <5>1
      <4>4. QED
        BY <4>2, <4>3 DEF Wins
    <3>2. CASE j < i
      <4>1. K[x][j] = K[y][j]
        BY <2>4, <3>2
      <4>2. Ahead(r, K, j, x, z)
        BY <2>4, <4>1 DEF Ahead
      <4>3. \A l \in 1..m : l < j => K[x][l] = K[z][l]
        <5> TAKE l \in 1..m
        <5>1. l < j => l < i
          BY <3>2
        <5>2. QED
          BY <2>4, <5>1
      <4>4. QED
        BY <4>2, <4>3 DEF Wins
    <3>3. CASE i = j
      <4>1. Ahead(r, K, i, x, z)
        <5>1. K[x][i] \in Nat /\ K[y][i] \in Nat /\ K[z][i] \in Nat
          OBVIOUS
        <5>2. QED
          BY <2>4, <3>3, <5>1 DEF Ahead
      <4>2. \A l \in 1..m : l < i => K[x][l] = K[z][l]
        BY <2>4, <3>3
      <4>3. QED
        BY <4>1, <4>2 DEF Wins
    <3>4. QED
      BY <3>1, <3>2, <3>3
  <2>5. /\ (Same(x, y) /\ x < y) \/ \E i \in 1..m : At1(i, x, y)
        /\ (Same(y, z) /\ y < z) \/ \E i \in 1..m : At1(i, y, z)
    BY <1>3 DEF Wins
  <2> HIDE DEF Same, At1
  <2>6. QED
    BY <2>1, <2>2, <2>3, <2>4, <2>5
<1> DEFINE R == {p \in M \X M : Wins(r, K, m, p[1], p[2])}
<1>4. \A x, y \in M : <<x, y>> \in R <=> Wins(r, K, m, x, y)
  OBVIOUS
<1> HIDE DEF R
<1>5. StrictOrder(M, R)
  BY <1>1, <1>2, <1>3, <1>4 DEF StrictOrder
<1>6. QED
  BY <1>5 DEF R

-----------------------------------------------------------------------------
(* The keys the local sort reads.                                          *)

\* What was fetched of a message: of it alone, and all that was asked.
Full(items, w, names) ==
  /\ Len(items) \in Nat \ {0} /\ DOMAIN items = 1..Len(items)
  /\ \A i \in DOMAIN items : items[i].msg = w /\ names \subseteq items[i].names

\* Every item asked for is carried by the entries of that message alone.
LEMMA FullCarries ==
  ASSUME NEW items, NEW w, NEW names, Full(items, w, names), NEW name \in names
  PROVE  Carrier(items, name) = {w}
<1> DEFINE I == {i \in DOMAIN items : name \in items[i].names}
<1>1. DOMAIN items = 1..Len(items) /\ 1 \in DOMAIN items /\ I = DOMAIN items
  BY DEF Full
<1>2. {j \in I : \A k \in I : j <= k} = {1}
  <2> HIDE DEF I
  <2>1. I = 1..Len(items) /\ Len(items) \in Nat /\ 1 \in I
    BY <1>1 DEF Full
  <2>2. QED
    BY <2>1
<1>3. Carrier(items, name) = {items[i].msg : i \in {1}}
  BY <1>2 DEF Carrier
<1>4. QED
  BY <1>1, <1>3 DEF Full

\* The key read from them is that of the message.
LEMMA FullKey ==
  ASSUME NEW items, NEW w, NEW names, Full(items, w, names), NEW key \in SortKeys,
         ItemOf(key) \subseteq names
  PROVE  Key(items, key) = IF key \in Compared THEN Attributes[w][key] ELSE 0
<1>1. CASE key \in Compared
  <2>1. PICK name : ItemOf(key) = {name}
    BY <1>1 DEF ItemOf, Compared
  <2>2. name \in names
    BY <2>1
  <2>3. Carrier(items, name) = {w}
    BY <2>2, FullCarries
  <2>4. UNION {Carrier(items, x) : x \in ItemOf(key)} = {w}
    BY <2>1, <2>3
  <2>5. (CHOOSE x \in {w} : TRUE) = w
    OBVIOUS
  <2> DEFINE M == UNION {Carrier(items, x) : x \in ItemOf(key)}
  <2>6. Key(items, key) = IF M = {} THEN 0 ELSE Attributes[CHOOSE x \in M : TRUE][key]
    BY <1>1 DEF Key
  <2> HIDE DEF M
  <2>7. (CHOOSE x \in M : TRUE) \in M
    BY <2>4 DEF M
  <2>8. M = {w}
    BY <2>4 DEF M
  <2>9. (CHOOSE x \in M : TRUE) = w
    BY <2>7, <2>8
  <2>10. QED
    BY <1>1, <2>6, <2>8, <2>9
<1>2. CASE key \notin Compared
  BY <1>2 DEF Key
<1>3. QED
  BY <1>1, <1>2

\* All that is compared is fetched.
LEMMA FetchedItems ==
  ASSUME NEW criteria, NEW uid
  PROVE  /\ \A i \in DOMAIN criteria : ItemOf(criteria[i].key) \subseteq FetchItems(criteria, uid)
         /\ ItemOf("Date") \subseteq FetchItems(criteria, uid)
         /\ (uid => "Uid" \in FetchItems(criteria, uid))
<1>1. ItemOf("Date") = {"Envelope"}
  BY DEF ItemOf
<1>2. ASSUME NEW i \in DOMAIN criteria
      PROVE  ItemOf(criteria[i].key) \subseteq UNION {ItemOf(criteria[j].key) : j \in DOMAIN criteria}
  <2> DEFINE S == {ItemOf(criteria[j].key) : j \in DOMAIN criteria}
             x == ItemOf(criteria[i].key)
  <2>1. x \in S
    OBVIOUS
  <2> HIDE DEF x, S
  <2>2. x \subseteq UNION S
    BY <2>1
  <2>3. QED
    BY <2>2 DEF x, S
<1>3. QED
  BY <1>1, <1>2 DEF FetchItems

\* ids lists the messages w of the numbers M, each once, in the
\* order the criteria give.
Lists(ids, criteria, uid, M, w) ==
  \E e \in [1..Cardinality(M) -> M] :
    /\ ids = [i \in 1..Cardinality(M) |-> IF uid THEN w[e[i]] ELSE e[i]]
    /\ \A i, j \in 1..Cardinality(M) : i < j => e[i] # e[j]
    /\ \A k \in M : \E i \in 1..Cardinality(M) : e[i] = k
    /\ \A i, j \in 1..Cardinality(M) : i < j => ~Puts(criteria, w[e[j]], w[e[i]])

\* The entries fetched are returned in the order of the criteria.
LEMMA LocalOrder ==
  ASSUME NEW criteria \in Criteria, NEW uid \in BOOLEAN, NEW M \in SUBSET Nat, IsFiniteSet(M),
         NEW f, DOMAIN f = M, NEW w, \A k \in M : w[k] \in Uids,
         \A k \in M : Full(f[k], w[k], FetchItems(criteria, uid)),
         Alike(criteria, {w[k] : k \in M})
  PROVE  Lists(LocalSort(criteria, f, uid), criteria, uid, M, w)
<1> DEFINE n == Len(criteria)
           date == [key |-> "Date", reverse |-> FALSE]
           all == Append(criteria, date)
           m == n + 1
           r == [i \in 1..m |-> all[i].reverse]
           K == [k \in M |-> [i \in 1..m |-> Key(f[k], all[i].key)]]
           names == FetchItems(criteria, uid)
<1>1. /\ criteria \in Seq([key : SortKeys, reverse : BOOLEAN])
      /\ \A x \in Uids : Attributes[x]["Date"] \in Nat
      /\ \A i \in DOMAIN criteria : \A x \in Uids : Attributes[x][criteria[i].key] \in Nat
  BY CriteriaAssumption
<1>2. /\ n \in Nat /\ DOMAIN criteria = 1..n /\ DOMAIN all = 1..m
      /\ \A i \in 1..n : all[i] = criteria[i]
      /\ all[m] = date
  <2>1. date \in [key : SortKeys, reverse : BOOLEAN]
    BY DEF SortKeys, Compared
  <2> HIDE DEF date
  <2>2. /\ n \in Nat /\ DOMAIN criteria = 1..n /\ Len(all) = n + 1 /\ DOMAIN all = 1..Len(all)
        /\ \A i \in 1..n : all[i] = criteria[i]
        /\ all[n + 1] = date
    BY <1>1, <2>1, AppendProperties, LenProperties
  <2> HIDE DEF n, all
  <2>3. QED
    BY <2>2
<1>3. \A i \in 1..n : criteria[i].key \in SortKeys
  <2>1. \A i \in 1..n : criteria[i] \in [key : SortKeys, reverse : BOOLEAN]
    BY <1>1, ElementOfSeq
  <2>2. QED
    BY <2>1
<1>4. \A i \in 1..m : i \in 1..n \/ i = m
  BY <1>2
<1> HIDE DEF n, all
<1>5. \A i \in 1..m : /\ all[i].key \in SortKeys /\ ItemOf(all[i].key) \subseteq names
                      /\ \A x \in Uids : Attributes[x][all[i].key] \in Nat
  <2>1. ASSUME NEW i \in 1..n
        PROVE  /\ all[i].key \in SortKeys /\ ItemOf(all[i].key) \subseteq names
               /\ \A x \in Uids : Attributes[x][all[i].key] \in Nat
    BY <1>1, <1>2, <1>3, FetchedItems
  <2>2. all[m].key = "Date" /\ "Date" \in SortKeys /\ ItemOf("Date") \subseteq names
    BY <1>2, FetchedItems DEF SortKeys, Compared
  <2> HIDE DEF names
  <2>3. QED
    BY <1>1, <1>4, <2>1, <2>2
<1> HIDE DEF names
<1>6. ASSUME NEW k \in M, NEW i \in 1..m
      PROVE  K[k][i] = IF all[i].key \in Compared THEN Attributes[w[k]][all[i].key] ELSE 0
  <2>1. K[k][i] = Key(f[k], all[i].key)
    OBVIOUS
  <2>2. Full(f[k], w[k], names)
    BY DEF names
  <2>3. QED
    BY <1>5, <2>1, <2>2, FullKey
<1>7. \A k \in M : \A i \in 1..m : K[k][i] \in Nat
  BY <1>5, <1>6
<1>8. ASSUME NEW j \in M, NEW k \in M, NEW i \in 1..m
      PROVE  Before(all[i], f[j], f[k]) <=> Ahead(r, K, i, j, k)
  BY DEF Before, Ahead
<1> DEFINE R == {p \in M \X M : Wins(r, K, m, p[1], p[2])}
<1>9. StrictOrder(M, R)
  <2> HIDE DEF r, K
  <2>1. m \in Nat
    BY <1>2
  <2> HIDE DEF m
  <2>2. QED
    BY <1>7, <2>1, WinsOrder
<1>10. \A j, k \in M : <<j, k>> \in R <=> Wins(r, K, m, j, k)
  OBVIOUS
<1> HIDE DEF R, r, K
<1>11. ASSUME NEW j \in M, NEW k \in M
       PROVE  Precedes(criteria, f, j, k) <=> <<j, k>> \in R
  <2> DEFINE D1 == {i \in DOMAIN all : Before(all[i], f[j], f[k]) \/ Before(all[i], f[k], f[j])}
  <2>1. Precedes(criteria, f, j, k) <=>
          IF D1 = {} THEN j < k
          ELSE \E i \in D1 : (\A l \in D1 : i <= l) /\ Before(all[i], f[j], f[k])
    BY Zenon DEF Precedes, all
  <2>2. D1 = {i \in 1..m : K[j][i] # K[k][i]}
    <3>1. \A i \in 1..m : (Ahead(r, K, i, j, k) \/ Ahead(r, K, i, k, j)) <=> K[j][i] # K[k][i]
      <4>1. \A i \in 1..m : K[j][i] \in Nat /\ K[k][i] \in Nat
        BY <1>7
      <4> HIDE DEF m
      <4>2. QED
        BY <4>1 DEF Ahead
    <3>2. QED
      BY <1>2, <1>8, <3>1
  <2>3. \A i \in D1 : Before(all[i], f[j], f[k]) <=> Ahead(r, K, i, j, k)
    BY <1>8, <2>2
  <2> HIDE DEF D1
  <2>4. CASE D1 = {}
    <3>1. \A i \in 1..m : K[j][i] = K[k][i]
      BY <2>2, <2>4
    <3>2. Wins(r, K, m, j, k) <=> j < k
      BY <1>7, <3>1 DEF Wins, Ahead
    <3>3. QED
      BY <1>10, <2>1, <2>4, <3>2
  <2>5. CASE D1 # {}
    <3>1. ~(\A i \in 1..m : K[j][i] = K[k][i])
      BY <2>2, <2>5
    <3>2. ASSUME NEW i \in D1, \A l \in D1 : i <= l, Ahead(r, K, i, j, k)
          PROVE  Wins(r, K, m, j, k)
      <4>1. \A l \in 1..m : l < i => K[j][l] = K[k][l]
        BY <2>2, <3>2
      <4>2. i \in 1..m
        BY <2>2
      <4>3. QED
        BY <3>2, <4>1, <4>2 DEF Wins
    <3>3. ASSUME NEW i \in 1..m, Ahead(r, K, i, j, k), \A l \in 1..m : l < i => K[j][l] = K[k][l]
          PROVE  i \in D1 /\ \A l \in D1 : i <= l
      <4>1. i \in D1
        <5>1. K[j][i] # K[k][i]
          BY <1>7, <3>3 DEF Ahead
        <5>2. QED
          BY <2>2, <5>1
      <4>2. ASSUME NEW l \in D1
            PROVE  i <= l
        <5>1. l \in 1..m /\ ~(l < i)
          BY <2>2, <3>3
        <5>2. QED
          BY <5>1
      <4>3. QED
        BY <4>1, <4>2
    <3>4. Wins(r, K, m, j, k) <=> \E i \in D1 : (\A l \in D1 : i <= l) /\ Ahead(r, K, i, j, k)
      BY <3>1, <3>2, <3>3 DEF Wins
    <3>5. QED
      BY <1>10, <2>1, <2>3, <2>5, <3>4
  <2>6. QED
    BY <2>4, <2>5
<1> DEFINE Ids(k) == IF uid THEN Carrier(f[k], "Uid") ELSE {k}
           kept == {k \in DOMAIN f : Ids(k) # {}}
           Place(k) == Cardinality({j \in kept : Precedes(criteria, f, j, k)}) + 1
           Entry1(i) == CHOOSE k \in kept : Place(k) = i
           Pick(k) == CHOOSE id \in Ids(k) : TRUE
           e == [i \in 1..Cardinality(kept) |-> Entry1(i)]
<1>12. \A k \in M : Ids(k) = {IF uid THEN w[k] ELSE k}
  <2>1. ASSUME NEW k \in M, uid
        PROVE  Carrier(f[k], "Uid") = {w[k]}
    <3>1. "Uid" \in names /\ Full(f[k], w[k], names)
      BY <2>1, FetchedItems DEF names
    <3>2. QED
      BY <3>1, FullCarries
  <2>2. QED
    BY <2>1
<1>13. LocalSort(criteria, f, uid) = [i \in 1..Cardinality(kept) |-> Pick(Entry1(i))]
  BY DEF LocalSort
<1>14. kept = M
  <2> HIDE DEF Ids
  <2>1. \A k \in M : Ids(k) # {}
    BY <1>12
  <2>2. QED
    BY <2>1
<1>15. \A k \in kept : Pick(k) = IF uid THEN w[k] ELSE k
  <2>1. ASSUME NEW k \in M
        PROVE  Pick(k) \in Ids(k)
    <3> HIDE DEF Ids
    <3>1. Ids(k) # {}
      BY <1>12
    <3>2. QED
      BY <3>1, Zenon
  <2> HIDE DEF Ids, Pick, kept
  <2>2. QED
    BY <1>12, <1>14, <2>1
<1> HIDE DEF Ids, Pick
<1>16. \A k \in kept : Place(k) = Cardinality({j \in kept : <<j, k>> \in R}) + 1
  <2> HIDE DEF kept
  <2>1. ASSUME NEW k \in kept
        PROVE  {j \in kept : Precedes(criteria, f, j, k)} = {j \in kept : <<j, k>> \in R}
    BY <1>11, <1>14
  <2>2. QED
    BY <2>1
<1>17. \A i \in 1..Cardinality(kept) : e[i] = Entry1(i)
  OBVIOUS
<1>18. ASSUME NEW i \in 1..Cardinality(kept), NEW k \in kept, Place(k) = i
       PROVE  e[i] \in kept /\ Place(e[i]) = i
  <2> HIDE DEF kept, Place, e
  <2>1. Entry1(i) \in kept /\ Place(Entry1(i)) = i
    BY <1>18, Zenon
  <2>2. QED
    BY <1>17, <2>1
<1>19. Places(e, kept, R)
  <2>1. DOMAIN e = 1..Cardinality(kept) /\ e = [i \in 1..Cardinality(kept) |-> e[i]]
    <3> HIDE DEF kept, Entry1
    <3>1. QED
      OBVIOUS
  <2> HIDE DEF kept, Place, e
  <2>2. QED
    BY <1>16, <1>18, <2>1 DEF Places
<1> HIDE DEF e, Place
<1> DEFINE c == Cardinality(M)
<1>20. /\ c \in Nat /\ e \in [1..c -> M]
       /\ \A i, j \in 1..c : i < j => <<e[i], e[j]>> \in R
       /\ \A k \in M : \E i \in 1..c : e[i] = k
  <2> HIDE DEF kept
  <2>1. Places(e, M, R)
    BY <1>14, <1>19
  <2>2. QED
    BY <1>9, <2>1, PlacedFacts
<1>21. LocalSort(criteria, f, uid) = [i \in 1..c |-> IF uid THEN w[e[i]] ELSE e[i]]
  <2> HIDE DEF kept, Entry1
  <2>1. \A i \in 1..c : Pick(Entry1(i)) = IF uid THEN w[e[i]] ELSE e[i]
    BY <1>14, <1>15, <1>17, <1>20
  <2>2. QED
    BY <1>13, <1>14, <2>1
<1> HIDE DEF c, kept, Entry1
<1>22. ASSUME NEW a \in M, NEW b \in M, <<a, b>> \in R, Puts(criteria, w[b], w[a])
       PROVE  FALSE
  <2>1. PICK q \in 1..n :
          /\ IF criteria[q].reverse
             THEN Attributes[w[a]][criteria[q].key] < Attributes[w[b]][criteria[q].key]
             ELSE Attributes[w[b]][criteria[q].key] < Attributes[w[a]][criteria[q].key]
          /\ \A l \in 1..(q - 1) : Attributes[w[b]][criteria[l].key] = Attributes[w[a]][criteria[l].key]
    BY <1>2, <1>22 DEF Puts
  <2>2. Attributes[w[a]][criteria[q].key] \in Nat /\ Attributes[w[b]][criteria[q].key] \in Nat
    BY <1>1, <1>2
  <2>3. criteria[q].key \in Compared
    <3>1. criteria[q].key \notin Compared =>
            Attributes[w[a]][criteria[q].key] = Attributes[w[b]][criteria[q].key]
      <4>1. w[a] \in {w[k] : k \in M} /\ w[b] \in {w[k] : k \in M}
        OBVIOUS
      <4>2. q \in DOMAIN criteria
        BY <1>2
      <4>3. QED
        BY <4>1, <4>2, Zenon DEF Alike
    <3>2. QED
      BY <2>1, <2>2, <3>1
  <2>4. q \in 1..m /\ all[q] = criteria[q]
    BY <1>2
  <2>5. K[a][q] = Attributes[w[a]][criteria[q].key] /\ K[b][q] = Attributes[w[b]][criteria[q].key]
    BY <1>6, <2>3, <2>4
  <2>6. \A l \in 1..m : l < q => K[a][l] = K[b][l]
    <3>1. ASSUME NEW l \in 1..m, l < q
          PROVE  K[a][l] = K[b][l]
      <4>1. l \in 1..(q - 1) /\ l \in 1..n
        BY <1>2, <3>1
      <4>2. all[l] = criteria[l] /\ Attributes[w[b]][criteria[l].key] = Attributes[w[a]][criteria[l].key]
        BY <1>2, <2>1, <4>1
      <4>3. QED
        BY <1>6, <4>2
    <3>2. QED
      BY <3>1
  <2>7. r[q] = criteria[q].reverse
    BY <2>4 DEF r
  <2>8. Ahead(r, K, q, b, a)
    BY <2>1, <2>5, <2>7 DEF Ahead
  <2>9. Wins(r, K, m, b, a)
    BY <2>4, <2>6, <2>8 DEF Wins
  <2>10. <<b, a>> \in R
    BY <1>10, <2>9
  <2>11. QED
    BY <1>9, <1>22, <2>10 DEF StrictOrder
<1>23. \A i, j \in 1..c : i < j => e[i] # e[j]
  BY <1>9, <1>20 DEF StrictOrder
<1>24. \A i, j \in 1..c : i < j => ~Puts(criteria, w[e[j]], w[e[i]])
  BY <1>20, <1>22
<1>25. QED
  BY <1>20, <1>21, <1>23, <1>24 DEF c, Lists

-----------------------------------------------------------------------------
(* The chunks of the fallback.                                             *)

\* What numbers and ids stand for, in a numbering t.
IdIn(t, uid, k) == IF uid THEN t[k].uid ELSE k
\* The id stands for a message.
Stands(id, t, uid) == \E k \in DOMAIN t : id = IdIn(t, uid, k)
\* Number k is of a message in S.
Sought(k, t, S) == k \in DOMAIN t /\ t[k].uid \in S

\* Every id a search answered with stands for a message; every response read is
\* about a message sought, and carries the items asked for; so does what the
\* chunks before had; the ids not fetched yet are those of messages sought; and
\* each message sought and still there is fetched or will be.
Standing(s, t, uid) ==
  \A p \in Of(s, "Search") : \A i \in DOMAIN s[p].value : Stands(s[p].value[i], t, uid)
Entered(s, t, S, w) ==
  \A p \in Of(s, "Fetch") :
    Sought(s[p].seq, t, S) /\ s[p].value.msg = t[s[p].seq].uid /\ w \subseteq s[p].value.names
Merged(f, t, S, w) == \A k \in DOMAIN f : Sought(k, t, S) /\ Full(f[k], t[k].uid, w)
Among(ids, t, S, uid) == \A k \in DOMAIN t : IdIn(t, uid, k) \in ids => t[k].uid \in S
Due(b, t, S, uid, K, ids) ==
  \A u \in S \cap ToSet(b) : \E k \in DOMAIN t : t[k].uid = u /\ (k \in K \/ IdIn(t, uid, k) \in ids)

\* The numbers the responses are about.
Sequences(s) == {s[p].seq : p \in Of(s, "Fetch")}

\* Nothing was announced during a call of the fallback.
Undisturbed == cmd.op = "Sort" /\ cmd.fallback /\ ~heard
\* The items the criteria need.
Wanted == FetchItems(cmd.criteria, cmd.uid)
SearchRead ==
  phase \in Exchanging /\ Undisturbed /\ req.op = "SEARCH" =>
    searched = {} /\ DOMAIN fetched = {} /\ Standing(out.data, told, cmd.uid)
FetchRead ==
  phase \in Exchanging /\ Undisturbed /\ req.op = "FETCH" =>
    /\ Entered(out.data, told, searched, Wanted)
    /\ Merged(fetched, told, searched, Wanted)
    /\ Among(ToSet(remaining) \cup req.set, told, searched, cmd.uid)
    /\ Due(box, told, searched, cmd.uid, DOMAIN fetched \cup (IF ran THEN Sequences(out.data) ELSE {}),
           ToSet(remaining) \cup (IF ran THEN {} ELSE req.set))
SearchedBelow == Undisturbed => \A u \in searched : u < nextUid

-----------------------------------------------------------------------------
\* Nothing has been read yet.
LEMMA NothingRead ==
  ASSUME NEW o, o = NoOutput
  PROVE  /\ \A t, uid : Standing(o.data, t, uid)
         /\ \A t, S, w : Entered(o.data, t, S, w)
         /\ Sequences(o.data) = {}
<1>1. \A type : Of(o.data, type) = {}
  BY DEF Of, NoOutput
<1>2. QED
  BY <1>1 DEF Standing, Entered, Sequences

\* What is read of a SEARCH adds up.
LEMMA StandingConcat ==
  ASSUME NEW s, NEW d, Plain(s), Plain(d), NEW t, NEW uid, Standing(s, t, uid), Standing(d, t, uid)
  PROVE  Standing(s \o d, t, uid)
<1> DEFINE c == s \o d
<1>1. /\ \A p \in Of(s, "Search") : p \in Of(c, "Search") /\ c[p] = s[p]
      /\ \A p \in Of(d, "Search") : Len(s) + p \in Of(c, "Search") /\ c[Len(s) + p] = d[p]
      /\ \A p \in Of(c, "Search") :
           p \in Of(s, "Search") \/ (p - Len(s) \in Of(d, "Search") /\ p > Len(s))
  BY OfConcat
<1>2. DOMAIN c = 1..(Len(s) + Len(d)) /\ Len(s) \in Nat
  BY PlainConcat, PlainFacts
<1> HIDE DEF c
<1>3. ASSUME NEW p \in Of(c, "Search")
      PROVE  c[p] \in {s[q] : q \in Of(s, "Search")} \cup {d[q] : q \in Of(d, "Search")}
  <2>1. CASE p \in Of(s, "Search")
    BY <1>1, <2>1
  <2>2. CASE p - Len(s) \in Of(d, "Search")
    <3>1. p \in DOMAIN c
      BY DEF Of
    <3>2. Len(s) + (p - Len(s)) = p
      BY <1>2, <3>1
    <3>3. QED
      BY <1>1, <2>2, <3>2
  <2>3. QED
    BY <1>1, <2>1, <2>2
<1>4. Standing(c, t, uid)
  BY <1>3 DEF Standing
<1>5. QED
  BY <1>4 DEF c

\* So does what is read of a FETCH.
LEMMA EnteredConcat ==
  ASSUME NEW s, NEW d, Plain(s), Plain(d), NEW t, NEW S, NEW w, Entered(s, t, S, w), Entered(d, t, S, w)
  PROVE  Entered(s \o d, t, S, w) /\ Sequences(s \o d) = Sequences(s) \cup Sequences(d)
<1> DEFINE c == s \o d
<1>1. /\ \A p \in Of(s, "Fetch") : p \in Of(c, "Fetch") /\ c[p] = s[p]
      /\ \A p \in Of(d, "Fetch") : Len(s) + p \in Of(c, "Fetch") /\ c[Len(s) + p] = d[p]
      /\ \A p \in Of(c, "Fetch") :
           p \in Of(s, "Fetch") \/ (p - Len(s) \in Of(d, "Fetch") /\ p > Len(s))
  BY OfConcat
<1>2. DOMAIN c = 1..(Len(s) + Len(d)) /\ Len(s) \in Nat
  BY PlainConcat, PlainFacts
<1> HIDE DEF c
<1>3. ASSUME NEW p \in Of(c, "Fetch")
      PROVE  c[p] \in {s[q] : q \in Of(s, "Fetch")} \cup {d[q] : q \in Of(d, "Fetch")}
  <2>1. CASE p \in Of(s, "Fetch")
    BY <1>1, <2>1
  <2>2. CASE p - Len(s) \in Of(d, "Fetch")
    <3>1. p \in DOMAIN c
      BY DEF Of
    <3>2. Len(s) + (p - Len(s)) = p
      BY <1>2, <3>1
    <3>3. QED
      BY <1>1, <2>2, <3>2
  <2>3. QED
    BY <1>1, <2>1, <2>2
<1>4. Entered(c, t, S, w)
  BY <1>3 DEF Entered
<1>5. Sequences(c) = Sequences(s) \cup Sequences(d)
  BY <1>1, <1>3 DEF Sequences
<1>6. QED
  BY <1>4, <1>5 DEF c

\* What a search found stands for messages.
LEMMA FoundStands ==
  ASSUME Numbered, req.uid \in BOOLEAN
  PROVE  \A i \in DOMAIN Found : Stands(Found[i], told, req.uid)
<1> DEFINE S == {k \in DOMAIN told : ~Gone(k)}
           o == Ordered(S)
           n == Cardinality(S)
           v == [i \in DOMAIN o |-> IF req.uid THEN told[o[i]].uid ELSE o[i]]
<1>1. S \in SUBSET DOMAIN told
  OBVIOUS
<1>2. v = Found
  BY DEF Found
<1> HIDE DEF S
<1>3. n \in Nat /\ o \in [1..n -> S]
  BY <1>1, NumbersFinite, OrderedFacts
<1> HIDE DEF o, n
<1>4. \A i \in DOMAIN v : Stands(v[i], told, req.uid)
  BY <1>1, <1>3 DEF Stands, IdIn
<1> HIDE DEF v
<1>5. QED
  BY <1>2, <1>4

\* The ids of a search are those of one of its answers.
LEMMA SearchStands ==
  ASSUME NEW o, Plain(o.data), NEW t, NEW uid, Standing(o.data, t, uid)
  PROVE  \A i \in DOMAIN SearchIds(o) : Stands(SearchIds(o)[i], t, uid)
<1> DEFINE s == OfType(o, "Search")
           v == Values(s)
<1>1. /\ Plain(s) /\ Len(s) \in Nat /\ DOMAIN s = 1..Len(s)
      /\ \A i \in DOMAIN s :
           \E k \in DOMAIN o.data : o.data[k].type = "Search" /\ s[i] = o.data[k]
  BY OfTypeFacts
<1>2. LastOf(o, "Search") = IF v = <<>> THEN {} ELSE {Last(v)}
  BY DEF LastOf
<1> HIDE DEF s
<1>3. v = [i \in 1..Len(s) |-> s[i].value]
  BY <1>1 DEF Values
<1>4. ASSUME v # <<>>, NEW x, x = SearchIds(o), NEW i \in DOMAIN x
      PROVE  Stands(x[i], t, uid)
  <2>1. SearchIds(o) = Last(v)
    <3>1. LastOf(o, "Search") = {Last(v)}
      BY <1>2, <1>4
    <3>2. QED
      BY <3>1 DEF SearchIds
  <2>2. v \in Seq({s[j].value : j \in 1..Len(s)})
    <3>1. v \in [1..Len(s) -> {s[j].value : j \in 1..Len(s)}]
      BY <1>3
    <3>2. QED
      BY <1>1, <3>1, SeqFrom
  <2>3. Len(v) \in 1..Len(s) /\ Last(v) = v[Len(v)]
    <3>1. Len(v) = Len(s)
      BY <1>1, <1>3
    <3>2. Len(v) # 0
      BY <1>4, <2>2, EmptySeq
    <3>3. QED
      BY <1>1, <3>1, <3>2 DEF Last
  <2>4. x = s[Len(v)].value
    BY <1>3, <1>4, <2>1, <2>3
  <2>5. PICK k \in DOMAIN o.data : o.data[k].type = "Search" /\ s[Len(v)] = o.data[k]
    BY <1>1, <2>3
  <2>6. k \in Of(o.data, "Search") /\ x = o.data[k].value
    BY <2>4, <2>5 DEF Of
  <2>7. QED
    BY <1>4, <2>6 DEF Standing
<1>5. CASE v = <<>>
  <2>1. SearchIds(o) = <<>>
    BY <1>2, <1>5 DEF SearchIds
  <2>2. QED
    BY <2>1
<1>6. QED
  BY <1>4, <1>5

\* INBOX loses messages, or gains the next UID.
LEMMA BoxFrom ==
  ASSUME OInv, Stays, Next
  PROVE  (\A u \in ToSet(box') : u \in ToSet(box) \/ u = nextUid) /\ nextUid <= nextUid'
<1> USE DEF Stays
<1>1. nextUid \in Nat /\ nextUid <= nextUid /\ nextUid <= nextUid + 1
  BY BoundNat DEF Boxed
<1>2. CASE UNCHANGED <<box, nextUid>>
  BY <1>1, <1>2
<1>3. ASSUME NEW U, box' = InBox(U), UNCHANGED nextUid
      PROVE  (\A u \in ToSet(box') : u \in ToSet(box)) /\ nextUid <= nextUid'
  <2>1. ToSet(InBox(U)) = ToSet(box) \cap U
    BY InBoxFacts
  <2>2. QED
    BY <1>1, <1>3, <2>1
<1>4. CASE box' = Append(box, nextUid) /\ nextUid' = nextUid + 1
  <2>1. box \in Seq(Uids) /\ nextUid \in Nat
    BY <1>1 DEF Boxed
  <2>2. Append(box, nextUid) \in Seq(Nat) /\ DOMAIN Append(box, nextUid) = 1..(Len(box) + 1)
        /\ \A i \in 1..Len(box) : Append(box, nextUid)[i] = box[i]
        /\ Append(box, nextUid)[Len(box) + 1] = nextUid
    BY <2>1, BoundNat
  <2>3. Len(box) \in Nat /\ DOMAIN box = 1..Len(box)
    BY <2>1
  <2>4. \A i \in 1..(Len(box) + 1) : i \in 1..Len(box) \/ i = Len(box) + 1
    BY <2>3
  <2>5. QED
    BY <1>1, <1>4, <2>2, <2>3, <2>4 DEF ToSet
<1>5. CASE SessionCommands \/ MailboxCommands \/ MessageCommands \/ ReadEof
  <2>1. UNCHANGED <<srvVars, changes>>
    BY <1>5, ClientSteps, ClientKeeps
  <2>2. QED
    BY <1>2, <2>1 DEF srvVars, boxVars
<1>6. CASE Server
  <2>1. CASE SrvLeave
    BY <1>2, <1>3, <2>1 DEF SrvLeave, boxVars
  <2>2. CASE SrvExpunge
    BY <1>3, <2>2 DEF SrvExpunge
  <2>3. CASE SrvMove
    BY <1>3, <2>3 DEF SrvMove
  <2>4. CASE SrvAppend
    BY <1>4, <2>4 DEF SrvAppend
  <2>5. CASE SrvPlain \/ SrvLogout \/ SrvNames \/ SrvSelect \/ SrvSearch \/ SrvFetch
    BY <1>2, <2>5 DEF SrvPlain, SrvLogout, SrvNames, SrvSelect, SrvSearch, SrvFetch, srvVars, boxVars
  <2>6. CASE SrvStore \/ SrvCopy \/ SrvContinue \/ SrvOk \/ SrvRefuse \/ SrvBye \/ SrvRaw
    BY <1>2, <2>6 DEF SrvStore, SrvCopy, SrvContinue, SrvOk, SrvRefuse, SrvBye, SrvRaw, SrvTagged,
                      srvVars, boxVars
  <2>7. CASE TellExpunge \/ TellExists \/ TellFlags
    BY <1>2, <2>7 DEF TellExpunge, TellExists, TellFlags, Announces, boxVars
  <2>8. QED
    BY <1>6, <2>1, <2>2, <2>3, <2>4, <2>5, <2>6, <2>7 DEF Server
<1>7. CASE OtherExpunge \/ OtherStore \/ OtherDeliver
  BY <1>2, <1>3, <1>4, <1>7 DEF OtherExpunge, OtherStore, OtherDeliver
<1>8. QED
  BY <1>5, <1>6, <1>7 DEF Next

\* While nothing is announced, the server answers the search or a chunk, or adds
\* nothing.
LEMMA SortServed ==
  ASSUME OInv, CallState, Server, phase \in Exchanging, Undisturbed'
  PROVE  /\ Asked(cmd, req) /\ Undisturbed /\ UNCHANGED <<cmd, req, sortVars>>
         /\ \/ SrvSearch /\ req.op = "SEARCH"
            \/ SrvFetch /\ req.op = "FETCH"
            \/ out'.data = out.data /\ UNCHANGED <<phase, ran, box, told>>
<1>1. cmd.op = "Sort" /\ cmd.fallback /\ ~heard' /\ UNCHANGED cmd
  BY ServerUnderWay DEF Undisturbed
<1>2. Asked(cmd, req)
  BY <1>1 DEF CallState, Requests
<1>3. req.op \in {"SEARCH", "FETCH"}
  BY <1>1, <1>2 DEF Asked
<1>4. ~SrvPlain /\ ~SrvLeave /\ ~SrvLogout /\ ~SrvNames /\ ~SrvSelect
  BY <1>3 DEF SrvPlain, SrvLeave, SrvLogout, SrvNames, SrvSelect, Answers, Executes, InView
<1>5. ~SrvExpunge /\ ~SrvCopy /\ ~SrvMove /\ ~SrvAppend /\ ~SrvRaw /\ ~SrvStore
  BY <1>3 DEF SrvExpunge, SrvCopy, SrvMove, SrvAppend, SrvRaw, SrvStore, InView, ReadWrite
<1>6. ~TellExpunge /\ ~TellExists /\ ~TellFlags
  BY <1>1 DEF TellExpunge, TellExists, TellFlags, Announces
<1>7. CASE SrvSearch
  <2>1. req.op = "SEARCH" /\ UNCHANGED <<req, sortVars, heard>>
    BY <1>3, <1>7 DEF SrvSearch, InView, Answers, Executes
  <2>2. QED
    BY <1>1, <1>2, <1>7, <2>1 DEF Undisturbed
<1>8. CASE SrvFetch
  <2>1. req.op = "FETCH" /\ UNCHANGED <<req, sortVars, heard>>
    BY <1>8 DEF SrvFetch, InView, Answers, Executes
  <2>2. QED
    BY <1>1, <1>2, <1>8, <2>1 DEF Undisturbed
<1>9. CASE SrvContinue \/ SrvOk \/ SrvRefuse \/ SrvBye
  <2>1. /\ out'.data = out.data /\ UNCHANGED <<cmd, req, phase, ran, box>> /\ told' = told
    BY <1>3, <1>9, ConcludingKeeps
  <2>2. UNCHANGED <<sortVars, heard>>
    BY <1>9 DEF SrvContinue, SrvOk, SrvRefuse, SrvBye, SrvTagged
  <2>3. QED
    BY <1>1, <1>2, <2>1, <2>2 DEF Undisturbed
<1>10. QED
  BY <1>4, <1>5, <1>6, <1>7, <1>8, <1>9 DEF Server

\* What is fetched of the messages still there, of those asked for.
LEMMA FetchedEntries ==
  ASSUME Numbered, NEW S \in SUBSET DOMAIN told, NEW names, NEW w, w \subseteq names, NEW U,
         \A k \in S : told[k].uid \in U
  PROVE  /\ Plain(Fetched(S, names)) /\ Entered(Fetched(S, names), told, U, w)
         /\ Sequences(Fetched(S, names)) = S
<1> DEFINE n == Cardinality(S)
           o == Ordered(S)
           f == [i \in 1..n |-> D("Fetch", o[i], Item(o[i], names))]
<1>1. n \in Nat /\ o \in [1..n -> S] /\ \A x \in S : \E i \in 1..n : o[i] = x
  BY NumbersFinite, OrderedFacts
<1>2. f = Fetched(S, names)
  BY DEF Fetched
<1> HIDE DEF n, o
<1>3. \A i \in 1..n : /\ f[i].type = "Fetch" /\ f[i].seq = o[i] /\ f[i].value.msg = told[o[i]].uid
                      /\ f[i].value.names = names
  BY <1>1 DEF D, Item
<1>4. Plain(f) /\ DOMAIN f = 1..n
  <2>1. f \in [1..n -> {f[i] : i \in 1..n}]
    BY <1>1
  <2>2. QED
    BY <1>1, <2>1, PlainFrom
<1> HIDE DEF f
<1>5. Of(f, "Fetch") = 1..n
  BY <1>3, <1>4 DEF Of
<1>6. Entered(f, told, U, w)
  BY <1>1, <1>3, <1>5 DEF Entered, Sought
<1>7. Sequences(f) = S
  BY <1>1, <1>3, <1>5 DEF Sequences
<1>8. QED
  BY <1>2, <1>4, <1>6, <1>7

\* What the fallback keeps to between its commands.
Chunks == SearchRead /\ FetchRead /\ SearchedBelow

\* The server answers the search with ids that stand for messages.
LEMMA SearchServer ==
  ASSUME OInv, CallState, Stays, Answered, SearchRead, Server, phase \in Exchanging
  PROVE  SearchRead'
<1> SUFFICES ASSUME Undisturbed', req'.op = "SEARCH"
             PROVE  searched' = {} /\ DOMAIN fetched' = {} /\ Standing(out'.data, told', cmd'.uid)
  BY DEF SearchRead
<1>1. /\ Asked(cmd, req) /\ Undisturbed /\ UNCHANGED <<cmd, req, sortVars>>
      /\ \/ SrvSearch
         \/ out'.data = out.data /\ UNCHANGED <<phase, ran, box, told>>
  BY SortServed
<1>2. searched = {} /\ DOMAIN fetched = {} /\ Standing(out.data, told, cmd.uid)
  BY <1>1 DEF SearchRead
<1>3. searched' = {} /\ DOMAIN fetched' = {} /\ cmd' = cmd
  BY <1>1, <1>2 DEF sortVars
<1>4. CASE SrvSearch
  <2>1. req.uid = cmd.uid /\ cmd.uid \in BOOLEAN /\ cmd.op # "Raw" /\ req.op = "SEARCH"
    BY <1>1 DEF Asked, Undisturbed
  <2> DEFINE x == D("Search", 0, Found)
             d == <<x>>
  <2>2. Answers("SEARCH", d) /\ told' = told
    BY <1>4, <2>1 DEF SrvSearch, InView, Answers, Executes, Found, srvVars, sesVars
  <2>3. out'.data = out.data \o d
    BY <2>2, AnswersAdds
  <2>4. \A i \in DOMAIN Found : Stands(Found[i], told, cmd.uid)
    BY <2>1, FoundStands DEF Stays
  <2>5. Plain(out.data)
    BY <2>1, PlainSoFar
  <2>6. x.value = Found
    BY DEF D
  <2> HIDE DEF x
  <2>7. d \in [1..1 -> {x}] /\ d[1] = x
    OBVIOUS
  <2> HIDE DEF d
  <2>8. Plain(d) /\ DOMAIN d = 1..1
    BY <2>7, PlainFrom
  <2>9. Standing(d, told, cmd.uid)
    <3>1. \A p \in DOMAIN d : d[p] = x
      BY <2>7, <2>8
    <3>2. \A p \in Of(d, "Search") : d[p].value = Found
      BY <2>6, <3>1 DEF Of
    <3>3. QED
      BY <2>4, <3>2 DEF Standing
  <2>10. QED
    BY <1>2, <1>3, <2>2, <2>3, <2>5, <2>8, <2>9, StandingConcat
<1>5. QED
  BY <1>1, <1>2, <1>3, <1>4

\* The server answers a chunk with the messages asked for, those still there.
LEMMA FetchServer ==
  ASSUME OInv, CallState, Stays, Answered, FetchRead, Server, phase \in Exchanging
  PROVE  FetchRead'
<1> DEFINE K == DOMAIN fetched \cup (IF ran THEN Sequences(out.data) ELSE {})
           I == ToSet(remaining) \cup (IF ran THEN {} ELSE req.set)
<1> SUFFICES ASSUME Undisturbed', req'.op = "FETCH"
             PROVE  /\ Entered(out'.data, told', searched', Wanted')
                    /\ Merged(fetched', told', searched', Wanted')
                    /\ Among(ToSet(remaining') \cup req'.set, told', searched', cmd'.uid)
                    /\ Due(box', told', searched', cmd'.uid, K', I')
  BY DEF FetchRead
<1>1. /\ Asked(cmd, req) /\ Undisturbed /\ UNCHANGED <<cmd, req, sortVars>>
      /\ \/ SrvFetch
         \/ out'.data = out.data /\ UNCHANGED <<phase, ran, box, told>>
  BY SortServed
<1>2. /\ Entered(out.data, told, searched, Wanted)
      /\ Merged(fetched, told, searched, Wanted)
      /\ Among(ToSet(remaining) \cup req.set, told, searched, cmd.uid)
      /\ Due(box, told, searched, cmd.uid, K, I)
  BY <1>1 DEF FetchRead
<1>3. UNCHANGED <<cmd, req, remaining, fetched, searched>> /\ Wanted' = Wanted
  BY <1>1 DEF sortVars, Wanted
<1>4. CASE out'.data = out.data /\ UNCHANGED <<phase, ran, box, told>>
  BY <1>2, <1>3, <1>4
<1>5. CASE SrvFetch
  <2>1. req.uid = cmd.uid /\ cmd.uid \in BOOLEAN /\ cmd.op # "Raw" /\ req.names = Wanted
    BY <1>1, <1>3 DEF Asked, Undisturbed, Wanted
  <2> DEFINE names == req.names \cup IF req.uid THEN {"Uid"} ELSE {}
             d == Fetched(Targets, names)
  <2>2. Answers("FETCH", d) /\ UNCHANGED box /\ (told' = IF "Flags" \in req.names THEN Sync(Targets) ELSE told)
    BY <1>5 DEF SrvFetch, boxVars
  <2>3. "Flags" \notin req.names
    <3> DEFINE c == cmd.criteria
    <3>1. c \in Seq([key : SortKeys, reverse : BOOLEAN])
      <4>1. c \in Criteria
        BY <1>1 DEF Asked, Undisturbed
      <4> HIDE DEF c
      <4>2. QED
        BY <4>1, CriteriaAssumption
    <3> HIDE DEF c
    <3>2. \A i \in DOMAIN c : c[i] \in [key : SortKeys, reverse : BOOLEAN]
      <4> DEFINE T == [key : SortKeys, reverse : BOOLEAN]
      <4>1. c \in Seq(T)
        BY <3>1
      <4> HIDE DEF T
      <4>2. DOMAIN c = 1..Len(c)
        BY <4>1
      <4>3. \A i \in DOMAIN c : c[i] \in T
        BY <4>1, <4>2, ElementOfSeq
      <4>4. QED
        BY <4>3 DEF T
    <3>3. \A i \in DOMAIN cmd.criteria : cmd.criteria[i].key \in SortKeys
      BY <3>2 DEF c
    <3>4. \A key \in SortKeys : "Flags" \notin ItemOf(key)
      BY DEF SortKeys, Compared, ItemOf
    <3>5. "Flags" \notin UNION {ItemOf(cmd.criteria[i].key) : i \in DOMAIN cmd.criteria}
      BY <3>3, <3>4
    <3>6. QED
      BY <2>1, <3>5 DEF Wanted, FetchItems
  <2>4. told' = told /\ box' = box
    BY <2>2, <2>3
  <2>5. out'.data = out.data \o d /\ ran'
    BY <2>2, AnswersAdds
  <2>6. ~ran
    BY <2>2 DEF Answers, Executes, OInv, Staged, Waiting
  <2>7. Plain(out.data)
    BY <2>1, PlainSoFar
  <2>8. Targets \in SUBSET DOMAIN told /\ Wanted \subseteq names
        /\ \A k \in Targets : told[k].uid \in searched
    BY <1>2, <2>1 DEF Targets, Among, InSet, IdIn
  <2>9. \A k \in DOMAIN told : told[k].uid \in ToSet(box) /\ IdIn(told, cmd.uid, k) \in req.set => k \in Targets
    BY <2>1 DEF Targets, InSet, Gone, IdIn
  <2>10. Plain(d) /\ Entered(d, told, searched, Wanted) /\ Sequences(d) = Targets
    BY <2>8, FetchedEntries DEF Stays
  <2> HIDE DEF d, names
  <2>11. Entered(out.data \o d, told, searched, Wanted)
         /\ Sequences(out.data \o d) = Sequences(out.data) \cup Sequences(d)
    BY <1>2, <2>7, <2>10, EnteredConcat
  <2>12. K = DOMAIN fetched /\ I = ToSet(remaining) \cup req.set
    BY <2>6
  <2>13. K' = DOMAIN fetched \cup Sequences(out.data) \cup Targets /\ I' = ToSet(remaining)
    BY <1>3, <2>5, <2>10, <2>11
  <2> HIDE DEF K, I
  <2>14. Due(box, told, searched, cmd.uid, K', I')
    BY <1>2, <2>9, <2>12, <2>13 DEF Due
  <2>15. QED
    BY <1>2, <1>3, <2>4, <2>5, <2>11, <2>14
<1>6. QED
  BY <1>1, <1>4, <1>5

\* A chunk takes its ids from those that remain.
LEMMA NextIds ==
  ASSUME NEW ids \in Seq(Uids), NextFetch(ids)
  PROVE  /\ ToSet(remaining') \cup req'.set = ToSet(ids)
         /\ req'.op = "FETCH" /\ out' = NoOutput /\ ran' = FALSE
         /\ UNCHANGED <<cmd, heard, told, box, nextUid>>
<1> DEFINE take == IF Len(ids) < MaxChunk THEN Len(ids) ELSE MaxChunk
           a == SubSeq(ids, 1, take)
           r == SubSeq(ids, take + 1, Len(ids))
<1>1. /\ remaining' = r /\ req'.op = "FETCH" /\ req'.set = ToSet(a) /\ out' = NoOutput /\ ran' = FALSE
      /\ UNCHANGED <<cmd, heard, told, box, nextUid>>
  BY DEF NextFetch, FetchRequest, srvVars, sesVars, boxVars
<1>2. take \in 0..Len(ids) /\ Len(ids) \in Nat /\ DOMAIN ids = 1..Len(ids)
  BY ChunkAssumption
<1> HIDE DEF take
<1>3. DOMAIN a = 1..take /\ \A i \in 1..take : a[i] = ids[i]
  BY <1>2
<1>4. DOMAIN r = 1..(Len(ids) - take) /\ \A i \in 1..(Len(ids) - take) : r[i] = ids[take + i]
  BY <1>2
<1> HIDE DEF a, r
<1>5. \A i \in 1..take : i \in DOMAIN ids
  BY <1>2
<1>6. \A i \in 1..(Len(ids) - take) : take + i \in DOMAIN ids
  BY <1>2
<1>7. \A i \in DOMAIN ids : i \in 1..take \/ (i - take \in 1..(Len(ids) - take) /\ take + (i - take) = i)
  BY <1>2
<1>8. ToSet(r) \cup ToSet(a) = ToSet(ids)
  BY <1>3, <1>4, <1>5, <1>6, <1>7 DEF ToSet
<1>9. QED
  BY <1>1, <1>8

\* Every message fetched is under its number.
LEMMA FetchMapDomain ==
  ASSUME NEW o, Plain(o.data)
  PROVE  DOMAIN FetchMap(o) = Sequences(o.data)
<1> DEFINE s == o.data
           S == Of(s, "Fetch")
           all == OfType(o, "Fetch")
<1>1. all = At(s, S) /\ S \in SUBSET DOMAIN s
  BY DEF OfType, Of
<1>2. s \in Seq(ToSet(s))
  BY DEF Plain
<1>3. /\ DOMAIN all = 1..Cardinality(S)
      /\ \A i \in 1..Cardinality(S) : Ordered(S)[i] \in S /\ all[i] = s[Ordered(S)[i]]
      /\ \A p \in S : \E i \in 1..Cardinality(S) : Ordered(S)[i] = p
  <2> HIDE DEF s, S, all
  <2>1. QED
    BY <1>1, <1>2, AtFacts
<1>4. DOMAIN FetchMap(o) = {all[i].seq : i \in DOMAIN all}
  BY DEF FetchMap
<1> HIDE DEF S, all, s
<1>5. {all[i].seq : i \in DOMAIN all} = {s[p].seq : p \in S}
  BY <1>3
<1>6. QED
  BY <1>4, <1>5 DEF S, s, Sequences

\* The map a chunk leaves, with what it returned in the place of what was there.
Merging(f, map) ==
  [k \in DOMAIN f \cup DOMAIN map |-> IF k \in DOMAIN map THEN map[k] ELSE f[k]]

\* The responses to a chunk are merged with those of the chunks before.
LEMMA MergedItems ==
  ASSUME NEW o, Plain(o.data), NEW t, NEW S, NEW w, Entered(o.data, t, S, w),
         NEW f, Merged(f, t, S, w), NEW m, m = Merging(f, FetchMap(o))
  PROVE  Merged(m, t, S, w) /\ DOMAIN m = DOMAIN f \cup Sequences(o.data)
<1> DEFINE map == FetchMap(o)
<1>1. m = [k \in DOMAIN f \cup DOMAIN map |-> IF k \in DOMAIN map THEN map[k] ELSE f[k]]
  BY DEF Merging
<1>2. DOMAIN map = Sequences(o.data)
  BY FetchMapDomain
<1> HIDE DEF map
<1>3. ASSUME NEW k \in DOMAIN map
      PROVE  Sought(k, t, S) /\ Full(map[k], t[k].uid, w)
  <2> DEFINE items == map[k]
  <2>1. /\ Len(items) \in Nat \ {0} /\ DOMAIN items = 1..Len(items)
        /\ \A i \in DOMAIN items : \E p \in Of(o.data, "Fetch") :
             o.data[p].seq = k /\ items[i] = o.data[p].value
    BY <1>3, FetchMapItems DEF map
  <2> HIDE DEF items
  <2>2. \A i \in DOMAIN items : Sought(k, t, S) /\ items[i].msg = t[k].uid /\ w \subseteq items[i].names
    BY <2>1 DEF Entered
  <2>3. 1 \in DOMAIN items
    BY <2>1
  <2>4. QED
    BY <2>1, <2>2, <2>3 DEF Full, items
<1>4. DOMAIN m = DOMAIN f \cup DOMAIN map
  BY <1>1
<1>5. ASSUME NEW k \in DOMAIN m
      PROVE  Sought(k, t, S) /\ Full(m[k], t[k].uid, w)
  <2>1. CASE k \in DOMAIN map
    <3>1. m[k] = map[k]
      BY <1>1, <1>5, <2>1
    <3>2. QED
      BY <1>3, <2>1, <3>1
  <2>2. CASE k \notin DOMAIN map
    <3>1. m[k] = f[k] /\ k \in DOMAIN f
      BY <1>1, <1>5, <2>2
    <3>2. QED
      BY <3>1 DEF Merged
  <2>3. QED
    BY <2>1, <2>2
<1>6. QED
  BY <1>2, <1>4, <1>5 DEF Merged

\* The first chunk.
LEMMA SearchedChunks ==
  ASSUME OInv, CallState, Stays, Answered, RankedNow, SearchRead,
         phase \in Exchanging, Undisturbed, SortSearched, phase' = "sent"
  PROVE  FetchRead' /\ SearchedBelow' /\ req'.op = "FETCH"
<1> DEFINE ids == SearchIds(out)
           S == {IF cmd.uid THEN id ELSE told[id].uid : id \in ToSet(ids)}
<1>1. /\ req.op = "SEARCH" /\ cmd.op = "Sort" /\ Asked(cmd, req)
      /\ NextFetch(ids) /\ searched' = S /\ UNCHANGED fetched
  BY DEF SortSearched, Return, CallState, Requests, Undisturbed
<1>2. req.uid = cmd.uid /\ cmd.uid \in BOOLEAN
  BY <1>1 DEF Asked
<1>3. DOMAIN fetched = {} /\ Standing(out.data, told, cmd.uid)
  BY <1>1 DEF SearchRead
<1>4. Data(out.data, req, Len(told)) /\ Plain(out.data)
  BY <1>1 DEF Answered, Data
<1>5. ids \in Seq(Uids) /\ \A i \in DOMAIN ids : Stands(ids[i], told, cmd.uid)
  BY <1>3, <1>4, SearchFacts, SearchStands
<1> HIDE DEF ids
<1>6. /\ ToSet(remaining') \cup req'.set = ToSet(ids)
      /\ req'.op = "FETCH" /\ out' = NoOutput /\ ran' = FALSE
      /\ UNCHANGED <<cmd, heard, told, box, nextUid>>
  BY <1>1, <1>5, NextIds
<1>7. \A id \in ToSet(ids) : \E k \in DOMAIN told : id = IdIn(told, cmd.uid, k)
  BY <1>5 DEF Stands, ToSet
<1>8. \A u \in S : \E k \in DOMAIN told : told[k].uid = u /\ IdIn(told, cmd.uid, k) \in ToSet(ids)
  BY <1>2, <1>7 DEF IdIn
<1>9. \A k \in DOMAIN told : IdIn(told, cmd.uid, k) \in ToSet(ids) => told[k].uid \in S
  BY <1>2 DEF IdIn
<1>10. \A k \in DOMAIN told : told[k].uid < nextUid
  BY DEF RankedNow, Ranked, Above
<1> HIDE DEF S
<1>11. Entered(out'.data, told, S, Wanted) /\ Merged(fetched, told, S, Wanted)
  BY <1>3, <1>6, NothingRead DEF Merged
<1>12. Among(ToSet(ids), told, S, cmd.uid)
  BY <1>9 DEF Among
<1>13. Due(box, told, S, cmd.uid, {}, ToSet(ids))
  BY <1>8 DEF Due
<1>14. FetchRead'
  <2>1. Wanted' = Wanted
    BY <1>6 DEF Wanted
  <2>2. (DOMAIN fetched \cup (IF ran THEN Sequences(out.data) ELSE {}))' = {}
    BY <1>1, <1>3, <1>6
  <2>3. (ToSet(remaining) \cup (IF ran THEN {} ELSE req.set))' = ToSet(ids)
    BY <1>6
  <2>4. QED
    BY <1>1, <1>6, <1>11, <1>12, <1>13, <2>1, <2>2, <2>3 DEF FetchRead
<1>15. SearchedBelow'
  BY <1>1, <1>6, <1>8, <1>10 DEF SearchedBelow
<1>16. QED
  BY <1>6, <1>14, <1>15

\* The chunks after it.
LEMMA FetchedChunks ==
  ASSUME OInv, CallState, Stays, Answered, Sorting, FetchRead, SearchedBelow,
         phase \in Exchanging, Undisturbed, SortFetched, phase' = "sent"
  PROVE  FetchRead' /\ SearchedBelow' /\ req'.op = "FETCH"
<1> DEFINE map == FetchMap(out)
           m == [k \in DOMAIN fetched \cup DOMAIN map |-> IF k \in DOMAIN map THEN map[k] ELSE fetched[k]]
<1>1. /\ req.op = "FETCH" /\ cmd.op = "Sort"
      /\ NextFetch(remaining) /\ fetched' = m /\ UNCHANGED searched /\ Status(out) = "Ok"
  BY DEF SortFetched, Return, Undisturbed
<1>2. ran
  BY <1>1, StatusOf DEF OInv, Statuses
<1>3. /\ Entered(out.data, told, searched, Wanted)
      /\ Merged(fetched, told, searched, Wanted)
      /\ Among(ToSet(remaining) \cup req.set, told, searched, cmd.uid)
      /\ Due(box, told, searched, cmd.uid, DOMAIN fetched \cup Sequences(out.data), ToSet(remaining))
  <2>1. (DOMAIN fetched \cup (IF ran THEN Sequences(out.data) ELSE {})) = DOMAIN fetched \cup Sequences(out.data)
    BY <1>2
  <2>2. (ToSet(remaining) \cup (IF ran THEN {} ELSE req.set)) = ToSet(remaining)
    BY <1>2
  <2>3. QED
    BY <1>1, <2>1, <2>2 DEF FetchRead
<1>4. Plain(out.data)
  BY <1>1, PlainSoFar
<1>5. Merged(m, told, searched, Wanted) /\ DOMAIN m = DOMAIN fetched \cup Sequences(out.data)
  <2>1. m = Merging(fetched, FetchMap(out))
    BY DEF Merging
  <2> HIDE DEF m, map
  <2>2. QED
    BY <1>3, <1>4, <2>1, MergedItems
<1> HIDE DEF m, map
<1>6. /\ ToSet(remaining') \cup req'.set = ToSet(remaining)
      /\ req'.op = "FETCH" /\ out' = NoOutput /\ ran' = FALSE
      /\ UNCHANGED <<cmd, heard, told, box, nextUid>>
  BY <1>1, NextIds DEF Sorting
<1>7. FetchRead'
  <2>1. Wanted' = Wanted
    BY <1>6 DEF Wanted
  <2>2. (DOMAIN fetched \cup (IF ran THEN Sequences(out.data) ELSE {}))' = DOMAIN m
    BY <1>1, <1>6
  <2>3. (ToSet(remaining) \cup (IF ran THEN {} ELSE req.set))' = ToSet(remaining)
    BY <1>6
  <2>4. Entered(out'.data, told, searched, Wanted)
    BY <1>6, NothingRead
  <2>5. Among(ToSet(remaining), told, searched, cmd.uid)
    BY <1>3 DEF Among
  <2>6. Due(box, told, searched, cmd.uid, DOMAIN m, ToSet(remaining))
    BY <1>3, <1>5
  <2>7. QED
    BY <1>1, <1>5, <1>6, <2>1, <2>2, <2>3, <2>4, <2>5, <2>6 DEF FetchRead
<1>8. SearchedBelow'
  BY <1>1, <1>6 DEF SearchedBelow, Undisturbed
<1>9. QED
  BY <1>6, <1>7, <1>8

\* New messages are not among those searched.
LEMMA BelowStays ==
  ASSUME TInv, TInv', SearchedBelow, Undisturbed, UNCHANGED searched, nextUid <= nextUid'
  PROVE  SearchedBelow'
<1>1. \A u \in searched : u \in Nat /\ u < nextUid
  BY BoundNat DEF SearchedBelow, TInv, Sorting
<1>2. nextUid \in Nat /\ nextUid' \in Nat
  BY BoundNat DEF TInv, Stays, Boxed
<1> DEFINE n == nextUid
           m == nextUid'
<1>3. ASSUME NEW u \in searched
      PROVE  u < m
  <2>1. u \in Nat /\ u < n /\ n \in Nat /\ m \in Nat /\ n <= m
    BY <1>1, <1>2, <1>3
  <2> HIDE DEF n, m
  <2>2. QED
    BY <2>1
<1>4. QED
  BY <1>3 DEF SearchedBelow

\* The client's steps,
LEMMA ChunksClient ==
  ASSUME TInv, RankedNow, Chunks, Starts \/ Reads \/ FetchesNext \/ Advances \/ Raw
  PROVE  Chunks'
<1> USE DEF Chunks
<1>1. CASE Starts
  <2>1. /\ out' = NoOutput /\ searched' = {} /\ fetched' = <<>>
        /\ (cmd'.op = "Sort" => req'.op # "FETCH")
    BY <1>1 DEF Starts
  <2>2. Standing(out'.data, told', cmd'.uid)
    BY <2>1, NothingRead
  <2>3. QED
    BY <2>1, <2>2 DEF SearchRead, FetchRead, SearchedBelow, Undisturbed
<1>2. CASE Reads
  <2>1. phase' \notin Exchanging /\ UNCHANGED <<cmd, heard, searched, nextUid>>
    BY <1>2 DEF Reads, Kept, Exchanging, sortVars, srvVars, boxVars
  <2>2. QED
    BY <2>1 DEF SearchRead, FetchRead, SearchedBelow, Undisturbed
<1>3. CASE FetchesNext
  <2>1. /\ phase \in Exchanging /\ phase' = "sent" /\ (SortSearched \/ SortFetched)
        /\ UNCHANGED <<cmd, heard>>
    BY <1>3 DEF FetchesNext
  <2>2. CASE Undisturbed
    <3>1. FetchRead' /\ SearchedBelow' /\ req'.op = "FETCH"
      BY <2>1, <2>2, SearchedChunks, FetchedChunks DEF TInv
    <3>2. QED
      BY <3>1 DEF SearchRead
  <2>3. CASE ~Undisturbed
    BY <2>1, <2>3 DEF SearchRead, FetchRead, SearchedBelow, Undisturbed
  <2>4. QED
    BY <2>2, <2>3
<1>4. CASE Advances
  <2>1. /\ phase \in Exchanging /\ (out' = out \/ out' = NoOutput) /\ ~ran
        /\ UNCHANGED <<cmd, req, ran, heard, remaining, fetched, searched, box, nextUid, told>>
    BY <1>4 DEF Advances, Exchanging, Waiting, TInv, OInv, Staged, sortVars, srvVars, boxVars, sesVars
  <2>2. SearchedBelow' /\ Undisturbed' = Undisturbed /\ Wanted' = Wanted
    BY <2>1 DEF SearchedBelow, Undisturbed, Wanted
  <2>3. SearchRead'
    <3>1. out' = NoOutput => Standing(out'.data, told, cmd.uid)
      BY NothingRead
    <3>2. QED
      BY <2>1, <2>2, <3>1 DEF SearchRead
  <2>4. FetchRead'
    <3>1. out' = NoOutput => Entered(out'.data, told, searched, Wanted)
      BY NothingRead
    <3>2. QED
      BY <2>1, <2>2, <3>1 DEF FetchRead
  <2>5. QED
    BY <2>2, <2>3, <2>4
<1>5. CASE Raw
  <2>1. cmd'.op = "Raw"
    BY <1>5 DEF Raw, RawRefused, RawStart, RawRead, RawEof, Kept
  <2>2. QED
    BY <2>1 DEF SearchRead, FetchRead, SearchedBelow, Undisturbed
<1>6. QED
  BY <1>1, <1>2, <1>3, <1>4, <1>5

\* Every step keeps to it.
LEMMA ChunksSteps ==
  ASSUME TInv, TInv', RankedNow, Chunks, Next
  PROVE  Chunks'
<1> USE DEF Chunks
<1>1. (\A u \in ToSet(box') : u \in ToSet(box) \/ u = nextUid) /\ nextUid <= nextUid'
  BY BoxFrom DEF TInv
<1>2. CASE SessionCommands \/ MailboxCommands \/ MessageCommands \/ ReadEof
  <2>1. Starts \/ Reads \/ FetchesNext \/ Advances \/ Raw
    BY <1>2, ClientSteps DEF TInv
  <2>2. QED
    BY <2>1, ChunksClient
<1>3. CASE Server
  <2>1. phase \in Exchanging
    BY <1>3, ServerUnderWay
  <2>2. SearchRead' /\ FetchRead'
    BY <1>3, <2>1, SearchServer, FetchServer DEF TInv
  <2>3. SearchedBelow'
    <3>1. CASE Undisturbed'
      <4>1. Undisturbed /\ UNCHANGED searched
        BY <1>3, <2>1, <3>1, SortServed DEF TInv, sortVars
      <4>2. QED
        BY <1>1, <4>1, BelowStays
    <3>2. CASE ~Undisturbed'
      BY <3>2 DEF SearchedBelow
    <3>3. QED
      BY <3>1, <3>2
  <2>4. QED
    BY <2>2, <2>3
<1>4. CASE OtherExpunge \/ OtherStore \/ OtherDeliver
  <2>1. UNCHANGED <<cmd, req, phase, out, ran, heard, remaining, fetched, searched, told>>
    BY <1>4 DEF OtherExpunge, OtherStore, OtherDeliver, Changes, callVars, sortVars, sesVars
  <2>2. Undisturbed' = Undisturbed /\ Wanted' = Wanted
    BY <2>1 DEF Undisturbed, Wanted
  <2>3. SearchRead'
    BY <2>1, <2>2 DEF SearchRead
  <2>4. SearchedBelow'
    <3>1. CASE Undisturbed
      BY <1>1, <2>1, <3>1, BelowStays
    <3>2. CASE ~Undisturbed
      BY <2>2, <3>2 DEF SearchedBelow
    <3>3. QED
      BY <3>1, <3>2
  <2>5. FetchRead'
    <3>1. CASE Undisturbed
      <4>1. nextUid \notin searched
        <5>1. nextUid \in Nat
          BY BoundNat DEF TInv, Stays, Boxed
        <5>2. ~(nextUid < nextUid)
          BY <5>1
        <5>3. QED
          BY <3>1, <5>2 DEF SearchedBelow
      <4>2. searched \cap ToSet(box') \subseteq searched \cap ToSet(box)
        BY <1>1, <4>1
      <4>3. \A K, I : Due(box, told, searched, cmd.uid, K, I) => Due(box', told, searched, cmd.uid, K, I)
        BY <4>2 DEF Due
      <4>4. QED
        BY <2>1, <2>2, <4>3 DEF FetchRead
    <3>2. CASE ~Undisturbed
      BY <2>2, <3>2 DEF FetchRead
    <3>3. QED
      BY <3>1, <3>2
  <2>6. QED
    BY <2>3, <2>4, <2>5
<1>5. QED
  BY <1>2, <1>3, <1>4 DEF Next

-----------------------------------------------------------------------------
(* What the fallback of SORT returns.                                      *)

\* The order of the local sort, of the messages of a numbering.
Orders(ids, criteria, uid, t, S, b) ==
  LET msgs == [i \in DOMAIN ids |-> IF uid THEN ids[i] ELSE t[ids[i]].uid]
  IN /\ ToSet(msgs) \subseteq S /\ S \cap ToSet(b) \subseteq ToSet(msgs)
     /\ IsInjective(msgs)
     /\ \A i, j \in DOMAIN msgs : i < j => ~Puts(criteria, msgs[j], msgs[i])

\* The local sort of what was fetched is such an order.
LEMMA MergedOrders ==
  ASSUME Numbered, NEW criteria \in Criteria, NEW uid \in BOOLEAN, NEW S, Alike(criteria, S),
         NEW f, Merged(f, told, S, FetchItems(criteria, uid)), NEW b,
         Due(b, told, S, uid, DOMAIN f, {}),
         NEW ids, ids = LocalSort(criteria, f, uid)
  PROVE  Orders(ids, criteria, uid, told, S, b)
<1> DEFINE M == DOMAIN f
           w == [k \in M |-> told[k].uid]
           n == Cardinality(M)
           names == FetchItems(criteria, uid)
<1>1. /\ M \in SUBSET DOMAIN told /\ \A k \in M : told[k].uid \in S
      /\ \A k \in M : Full(f[k], told[k].uid, names)
  BY DEF Merged, Sought
<1>2. IsFiniteSet(M) /\ M \in SUBSET Nat
  BY <1>1, NumbersFinite
<1>3. \A k \in M : w[k] = told[k].uid /\ w[k] \in Uids /\ w[k] \in S
  BY <1>1, ToldFacts
<1>4. \A k \in M : Full(f[k], w[k], names)
  BY <1>1, <1>3
<1>5. Alike(criteria, {w[k] : k \in M})
  <2> HIDE DEF w, M
  <2>1. {w[k] : k \in M} \subseteq S
    BY <1>3
  <2>2. QED
    BY <2>1 DEF Alike
<1>6. \A j, k \in M : w[j] = w[k] => j = k
  BY <1>1, <1>3 DEF Numbered
<1> HIDE DEF w
<1>7. PICK e \in [1..n -> M] :
        /\ ids = [i \in 1..n |-> IF uid THEN w[e[i]] ELSE e[i]]
        /\ \A i, j \in 1..n : i < j => e[i] # e[j]
        /\ \A k \in M : \E i \in 1..n : e[i] = k
        /\ \A i, j \in 1..n : i < j => ~Puts(criteria, w[e[j]], w[e[i]])
  <2>1. DOMAIN f = M /\ \A k \in M : w[k] \in Uids
    BY <1>3
  <2>2. \A k \in M : Full(f[k], w[k], FetchItems(criteria, uid))
    BY <1>4
  <2> HIDE DEF M, names, n
  <2>3. Lists(LocalSort(criteria, f, uid), criteria, uid, M, w)
    BY <1>2, <1>5, <2>1, <2>2, LocalOrder
  <2>4. Lists(ids, criteria, uid, M, w)
    BY <2>3
  <2>5. QED
    BY <2>4 DEF Lists, n
<1>8. n \in Nat
  BY <1>2, FS_CardinalityType
<1> HIDE DEF n, M
<1> DEFINE msgs == [i \in DOMAIN ids |-> IF uid THEN ids[i] ELSE told[ids[i]].uid]
<1>9. DOMAIN msgs = 1..n /\ \A i \in 1..n : msgs[i] = w[e[i]] /\ e[i] \in M
  BY <1>3, <1>7
<1> HIDE DEF msgs
<1>10. ToSet(msgs) \subseteq S
  BY <1>3, <1>9 DEF ToSet
<1>11. S \cap ToSet(b) \subseteq ToSet(msgs)
  <2>1. ASSUME NEW u \in S \cap ToSet(b)
        PROVE  \E i \in 1..n : msgs[i] = u
    <3>1. PICK k \in M : told[k].uid = u
      BY <2>1 DEF Due, M
    <3>2. PICK i \in 1..n : e[i] = k
      BY <1>7
    <3>3. QED
      BY <1>3, <1>9, <3>1, <3>2
  <2>2. QED
    BY <1>9, <2>1 DEF ToSet
<1>12. IsInjective(msgs)
  <2>1. ASSUME NEW i \in 1..n, NEW j \in 1..n, msgs[i] = msgs[j]
        PROVE  i = j
    <3>1. e[i] = e[j]
      BY <1>6, <1>9, <2>1
    <3>2. ~(i < j) /\ ~(j < i)
      BY <1>7, <3>1
    <3>3. QED
      BY <3>2
  <2>2. QED
    BY <1>9, <2>1 DEF IsInjective
<1>13. \A i, j \in DOMAIN msgs : i < j => ~Puts(criteria, msgs[j], msgs[i])
  BY <1>7, <1>9
<1>14. QED
  BY <1>10, <1>11, <1>12, <1>13 DEF Orders, msgs

\* What a sort returns.
LEMMA ReadsSorted ==
  ASSUME TInv, Chunks, Reads
  PROVE  FallbackSorts'
<1>1. UNCHANGED <<cmd, heard, searched, told, box>> /\ phase \in Exchanging
      /\ phase' \in {"idle", "closed"}
  BY DEF Reads, Kept, srvVars, sesVars, boxVars, sortVars
<1>2. ASSUME result'.status = "Ok", Undisturbed, Alike(cmd.criteria, searched)
      PROVE  Orders(result'.value, cmd.criteria, cmd.uid, told, searched, box)
  <2>1. Asked(cmd, req) /\ cmd.op = "Sort" /\ req.op # "SORT"
    BY <1>1, <1>2 DEF TInv, CallState, Requests, Undisturbed, Asked
  <2>2. cmd.criteria \in Criteria /\ cmd.uid \in BOOLEAN
    BY <2>1 DEF Asked
  <2>3. SortSearched \/ SortFetched
    BY <1>2, <2>1 DEF Reads
  <2>4. CASE SortSearched
    <3>1. req.op = "SEARCH" /\ result'.value = <<>>
      BY <1>1, <2>4 DEF SortSearched, Return, NextFetch
    <3>2. searched = {}
      BY <1>1, <1>2, <3>1 DEF Chunks, SearchRead
    <3>3. QED
      BY <3>1, <3>2 DEF Orders, ToSet, IsInjective
  <2>5. CASE SortFetched
    <3> DEFINE map == FetchMap(out)
               m == [k \in DOMAIN fetched \cup DOMAIN map |-> IF k \in DOMAIN map THEN map[k] ELSE fetched[k]]
    <3>1. /\ req.op = "FETCH" /\ remaining = <<>> /\ Status(out) = "Ok"
          /\ result'.value = LocalSort(cmd.criteria, m, cmd.uid)
      BY <1>1, <2>5 DEF SortFetched, Return, NextFetch
    <3>2. ran
      BY <3>1, StatusOf DEF TInv, OInv, Statuses
    <3>3. /\ Entered(out.data, told, searched, Wanted)
          /\ Merged(fetched, told, searched, Wanted)
          /\ Due(box, told, searched, cmd.uid, DOMAIN fetched \cup Sequences(out.data), {})
      <4>1. (DOMAIN fetched \cup (IF ran THEN Sequences(out.data) ELSE {})) = DOMAIN fetched \cup Sequences(out.data)
        BY <3>2
      <4>2. (ToSet(remaining) \cup (IF ran THEN {} ELSE req.set)) = {}
        BY <3>1, <3>2 DEF ToSet
      <4>3. QED
        BY <1>1, <1>2, <3>1, <4>1, <4>2 DEF Chunks, FetchRead
    <3>4. Plain(out.data)
      BY <1>1, <2>1, PlainSoFar DEF TInv
    <3>5. Merged(m, told, searched, Wanted) /\ DOMAIN m = DOMAIN fetched \cup Sequences(out.data)
      <4>1. m = Merging(fetched, FetchMap(out))
        BY DEF Merging
      <4> HIDE DEF m, map
      <4>2. QED
        BY <3>3, <3>4, <4>1, MergedItems
    <3> HIDE DEF m, map
    <3>6. Due(box, told, searched, cmd.uid, DOMAIN m, {})
      BY <3>3, <3>5
    <3>7. QED
      BY <1>2, <2>2, <3>1, <3>5, <3>6, MergedOrders DEF TInv, Stays, Wanted
  <2>6. QED
    BY <2>3, <2>4, <2>5
<1>3. QED
  BY <1>1, <1>2 DEF FallbackSorts, Returned, Undisturbed, Orders

\* The invariant of FallbackSorts.
SortInv == TInv /\ RankedNow /\ Chunks /\ FallbackSorts

\* It holds at the start.
LEMMA SortInit == Init => SortInv
<1> SUFFICES ASSUME Init
             PROVE  SortInv
  OBVIOUS
<1>1. phase = "idle" /\ result.status = "none" /\ searched = {}
  BY DEF Init, NoResult
<1>2. QED
  BY <1>1, TypesInit, RankedInit DEF SortInv, Chunks, SearchRead, FetchRead, SearchedBelow, FallbackSorts,
                                     Returned, Exchanging

\* Every step preserves it.
LEMMA SortStep == SortInv /\ [Next]_vars => SortInv'
<1> SUFFICES ASSUME SortInv, [Next]_vars
             PROVE  SortInv'
  OBVIOUS
<1> USE DEF SortInv
<1>1. TInv'
  BY TypesStep
<1>2. RankedNow' /\ Chunks'
  <2>1. CASE UNCHANGED vars
    BY <2>1 DEF vars, callVars, srvVars, boxVars, sesVars, sortVars, RankedNow, Chunks, SearchRead,
                FetchRead, SearchedBelow, Undisturbed, Wanted
  <2>2. CASE Next
    BY <1>1, <2>2, RankedSteps, ChunksSteps DEF TInv
  <2>3. QED
    BY <2>1, <2>2
<1>3. searched \cap ToSet(box') \subseteq searched \cap ToSet(box) \/ ~Undisturbed
  <2>1. CASE UNCHANGED vars
    BY <2>1 DEF vars, srvVars, boxVars
  <2>2. CASE Next /\ Undisturbed
    <3>1. \A u \in ToSet(box') : u \in ToSet(box) \/ u = nextUid
      BY <2>2, BoxFrom DEF TInv
    <3>2. nextUid \notin searched
      <4>1. nextUid \in Nat
        BY BoundNat DEF TInv, Stays, Boxed
      <4>2. ~(nextUid < nextUid)
        BY <4>1
      <4>3. QED
        BY <2>2, <4>2 DEF Chunks, SearchedBelow
    <3>3. QED
      BY <3>1, <3>2
  <2>3. QED
    BY <2>1, <2>2
<1>4. FallbackSorts'
  <2>1. CASE Reads
    BY <2>1, ReadsSorted
  <2>2. CASE UNCHANGED <<callVars, sortVars, sesVars>>
    <3>1. UNCHANGED <<cmd, result, heard, searched, told>>
      BY <2>2 DEF callVars, sortVars, sesVars
    <3>2. QED
      BY <1>3, <3>1 DEF FallbackSorts, Returned, Undisturbed
  <2>3. CASE result'.status = "none" \/ cmd'.op = "Raw"
    BY <2>3 DEF FallbackSorts, Returned
  <2>4. QED
    BY <1>1, <2>1, <2>2, <2>3, Outcomes
<1>5. QED
  BY <1>1, <1>2, <1>4

(* The fallback of SORT returns the messages the search found and that are *)
(* still there, once each and in the order the criteria give to what their *)
(* items carry, for any criteria, any number of messages and chunks of any *)
(* size, when nothing was announced during the call and the messages agree *)
(* on what the local order does not compare                                *)
(* (src/rfc5256/sort.rs:202-261, 311-339, 456-462).                        *)
THEOREM SortsInOrder == Spec => []FallbackSorts
<1>1. SortInv => FallbackSorts
  BY DEF SortInv
<1>2. QED
  BY <1>1, SortInit, SortStep, PTL DEF Spec
=============================================================================
