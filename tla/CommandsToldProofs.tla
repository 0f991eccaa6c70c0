------------------------- MODULE CommandsToldProofs --------------------------
(***************************************************************************)
(* Proof that FETCH, STORE, SELECT, COPY and MOVE return the mailbox and   *)
(* the copies as the server announced them, for every mailbox and any      *)
(* number of commands and of changes by other clients.                     *)
(*                                                                         *)
(* Between the answer and the return, the server may announce more: flags  *)
(* of other messages or of the same ones, messages that arrive, messages   *)
(* that go.  Two invariants of the output hold all along.  Of a FETCH or a *)
(* STORE, the last entry about a message has the flags announced last      *)
(* (Flagging); of a SELECT that was executed, the last count is that of    *)
(* the numbering and the ranges are what vanished (Selecting).             *)
(*                                                                         *)
(* The copies have the UIDs from 1 on (CopyUids), so that the destinations *)
(* of a COPYUID tell which copies it is about, however they are listed.    *)
(* A set of UIDs has one enumeration in order: each of the two sets, read  *)
(* separately, comes out in order, and the two go together when the copies *)
(* were made in order (Copying).                                           *)
(***************************************************************************)
EXTENDS CommandsProofs

-----------------------------------------------------------------------------
(* The responses of one type.                                              *)

Of(s, type) == {i \in DOMAIN s : s[i].type = type}

\* What is kept of the FETCH responses for one message is in their order.
LEMMA FetchMapItems ==
  ASSUME NEW o, Plain(o.data), NEW k \in DOMAIN FetchMap(o), NEW items, items = FetchMap(o)[k]
  PROVE  /\ Len(items) \in Nat \ {0} /\ DOMAIN items = 1..Len(items)
         /\ \A i \in DOMAIN items : \E p \in Of(o.data, "Fetch") :
              o.data[p].seq = k /\ items[i] = o.data[p].value
         /\ \E p \in Of(o.data, "Fetch") :
              /\ o.data[p].seq = k /\ Last(items) = o.data[p].value
              /\ \A q \in Of(o.data, "Fetch") : o.data[q].seq = k => q <= p
<1> DEFINE s == o.data
           T == ToSet(s)
           F == Of(s, "Fetch")
           all == At(s, F)
           m == Cardinality(F)
           f == Ordered(F)
<1>1. s \in Seq(T) /\ F \in SUBSET DOMAIN s /\ F \in SUBSET Nat
  BY PlainFacts DEF Plain, Of
<1>2. OfType(o, "Fetch") = all
  BY DEF OfType, Of
<1> HIDE DEF s, T, F
<1>3. /\ m \in Nat /\ DOMAIN all = 1..m /\ all \in Seq(T)
      /\ \A i \in 1..m : f[i] \in F /\ all[i] = s[f[i]]
      /\ \A i, j \in 1..m : i < j => f[i] < f[j]
      /\ \A p \in F : \E i \in 1..m : f[i] = p
  BY <1>1, AtFacts
<1> HIDE DEF all, m, f
<1> DEFINE K == {i \in DOMAIN all : all[i].seq = k}
           b == At(all, K)
           n == Cardinality(K)
           g == Ordered(K)
<1>4. K \in SUBSET DOMAIN all /\ K # {}
  BY <1>2 DEF FetchMap
<1>5. items = Values(b)
  BY <1>2 DEF FetchMap
<1> HIDE DEF K
<1>6. /\ n \in Nat /\ DOMAIN b = 1..n
      /\ \A i \in 1..n : g[i] \in K /\ b[i] = all[g[i]]
      /\ \A i, j \in 1..n : i < j => g[i] < g[j]
      /\ \A p \in K : \E i \in 1..n : g[i] = p
  BY <1>3, <1>4, AtFacts
<1>7. n # 0
  BY <1>4, <1>6
<1> HIDE DEF b, n, g
<1>8. items = [i \in 1..n |-> b[i].value]
  BY <1>5, <1>6 DEF Values
<1>9. Len(items) = n /\ DOMAIN items = 1..n
  <2> DEFINE V == {b[i].value : i \in 1..n}
  <2>1. items \in [1..n -> V]
    BY <1>8
  <2> HIDE DEF V
  <2>2. QED
    BY <1>6, <2>1, SeqFrom
<1>10. ASSUME NEW i \in 1..n
       PROVE  /\ f[g[i]] \in F /\ s[f[g[i]]].seq = k /\ items[i] = s[f[g[i]]].value
              /\ g[i] \in 1..m
  <2>1. g[i] \in K /\ b[i] = all[g[i]] /\ items[i] = b[i].value
    BY <1>6, <1>8
  <2>2. g[i] \in 1..m /\ all[g[i]].seq = k
    BY <1>3, <2>1 DEF K
  <2>3. QED
    BY <1>3, <2>1, <2>2
<1>11. \A i \in DOMAIN items : \E p \in F : s[p].seq = k /\ items[i] = s[p].value
  BY <1>9, <1>10
<1>12. n \in 1..n /\ Last(items) = items[n]
  BY <1>6, <1>7, <1>9 DEF Last
<1>13. ASSUME NEW q \in F, s[q].seq = k
       PROVE  q <= f[g[n]]
  <2>1. PICK i \in 1..m : f[i] = q
    BY <1>3
  <2>2. i \in K
    BY <1>3, <1>13, <2>1 DEF K
  <2>3. PICK j \in 1..n : g[j] = i
    BY <1>6, <2>2
  <2>4. g[n] \in 1..m /\ f[g[n]] \in F
    BY <1>10, <1>12
  <2>5. j = n \/ j < n
    BY <1>6
  <2>6. i = g[n] \/ i < g[n]
    BY <1>6, <1>12, <2>3, <2>5
  <2>7. f[i] = f[g[n]] \/ f[i] < f[g[n]]
    BY <1>3, <2>4, <2>6
  <2>8. f[i] \in Nat /\ f[g[n]] \in Nat
    BY <1>1, <2>1, <2>4
  <2>9. QED
    BY <2>1, <2>7, <2>8
<1>14. \E p \in F : /\ s[p].seq = k /\ Last(items) = s[p].value
                    /\ \A q \in F : s[q].seq = k => q <= p
  BY <1>10, <1>12, <1>13
<1>15. QED
  BY <1>6, <1>7, <1>9, <1>11, <1>14 DEF s, F

\* So is the last of a type.
LEMMA LastOfFacts ==
  ASSUME NEW o, Plain(o.data), NEW type, NEW p \in Of(o.data, type),
         \A q \in Of(o.data, type) : q <= p
  PROVE  LastOf(o, type) = {o.data[p].value}
<1> DEFINE s == o.data
           T == ToSet(s)
           F == Of(s, type)
           all == At(s, F)
           m == Cardinality(F)
           f == Ordered(F)
           v == Values(all)
           none == <<>>
<1>1. s \in Seq(T) /\ F \in SUBSET DOMAIN s /\ F \in SUBSET Nat
  BY PlainFacts DEF Plain, Of
<1>2. OfType(o, type) = all
  BY DEF OfType, Of
<1>3. p \in F /\ \A q \in F : q <= p
  OBVIOUS
<1> HIDE DEF s, T, F
<1>4. /\ m \in Nat /\ DOMAIN all = 1..m
      /\ \A i \in 1..m : f[i] \in F /\ all[i] = s[f[i]]
      /\ \A i, j \in 1..m : i < j => f[i] < f[j]
      /\ \A x \in F : \E i \in 1..m : f[i] = x
  BY <1>1, AtFacts
<1> HIDE DEF all, m, f
<1>5. PICK j \in 1..m : f[j] = p
  BY <1>3, <1>4
<1>6. m # 0 /\ m \in 1..m /\ (j = m \/ j < m)
  BY <1>4
<1>7. f[m] = p
  <2>1. f[m] <= p /\ f[m] \in Nat /\ p \in Nat
    BY <1>1, <1>3, <1>4, <1>6
  <2>2. j < m => p < f[m]
    BY <1>4, <1>5, <1>6
  <2>3. QED
    BY <1>5, <1>6, <2>1, <2>2
<1>8. v = [i \in 1..m |-> all[i].value]
  BY <1>4 DEF Values
<1>9. Len(v) = m /\ DOMAIN v = 1..m /\ v[m] = s[p].value
  <2> DEFINE V == {all[i].value : i \in 1..m}
  <2>1. v \in [1..m -> V] /\ v[m] = all[m].value
    BY <1>6, <1>8
  <2>2. v[m] = s[p].value
    BY <1>4, <1>6, <1>7, <2>1
  <2> HIDE DEF V, v
  <2>3. QED
    BY <1>4, <2>1, <2>2, SeqFrom
<1>10. v # none
  <2>1. DOMAIN none = {}
    OBVIOUS
  <2> HIDE DEF v, none
  <2>2. QED
    BY <1>6, <1>9, <2>1
<1>11. LastOf(o, type) = {Last(v)}
  BY <1>2, <1>10 DEF LastOf
<1>12. QED
  BY <1>9, <1>11 DEF Last, s

\* No response of a type was read.
LEMMA NoneOfType ==
  ASSUME NEW o, Plain(o.data), NEW type, DOMAIN OfType(o, type) = {}
  PROVE  Of(o.data, type) = {}
<1> DEFINE s == o.data
           T == ToSet(s)
           F == Of(s, type)
           m == Cardinality(F)
<1>1. s \in Seq(T) /\ F \in SUBSET DOMAIN s
  BY DEF Plain, Of
<1>2. OfType(o, type) = At(s, F)
  BY DEF OfType, Of
<1> HIDE DEF s, T, F
<1>3. DOMAIN At(s, F) = 1..m /\ \A x \in F : \E i \in 1..m : Ordered(F)[i] = x
  BY <1>1, AtFacts
<1>4. F = {}
  BY <1>2, <1>3
<1>5. QED
  BY <1>4 DEF F, s

LEMMA SilentSeqs ==
  ASSUME NEW o, Plain(o.data), Seqs(o) = <<>>
  PROVE  Of(o.data, "Expunge") = {}
<1> DEFINE e == OfType(o, "Expunge")
           none == <<>>
<1>1. DOMAIN none = {}
  OBVIOUS
<1>2. [i \in DOMAIN e |-> e[i].seq] = none
  BY DEF Seqs
<1> HIDE DEF e, none
<1>3. DOMAIN e = {}
  BY <1>1, <1>2
<1>4. QED
  BY <1>3, NoneOfType DEF e

LEMMA FlattenOne ==
  ASSUME NEW s, Len(s) = 1
  PROVE  FlattenSeq(s) = s[1]
<1> DEFINE g == [i \in 1..Len(s) |-> s[1]]
           Flat(f) == f = [i \in 1..Len(s) |-> IF i = 1 THEN s[i] ELSE f[i - 1] \o s[i]]
<1>1. Flat(g)
  <2>1. \A i \in 1..Len(s) : i = 1
    OBVIOUS
  <2>2. QED
    BY <2>1
<1>2. FlattenSeq(s) = (CHOOSE f : Flat(f))[1]
  BY DEF FlattenSeq
<1> HIDE DEF g
<1>3. \E f : Flat(f)
  BY <1>1
<1>4. Flat(CHOOSE f : Flat(f))
  <2> HIDE DEF Flat
  <2>1. QED
    BY <1>3
<1>5. (CHOOSE f : Flat(f))[1] = s[1]
  <2> DEFINE h == CHOOSE f : Flat(f)
  <2>1. Flat(h)
    BY <1>4
  <2> HIDE DEF h
  <2>2. h[1] = s[1]
    BY <2>1
  <2>3. QED
    BY <2>2 DEF h
<1>6. QED
  BY <1>2, <1>5

-----------------------------------------------------------------------------
(* What a SELECT keeps of the VANISHED.                                    *)

Covers(w, U) ==
  /\ Len(w) \in Nat /\ DOMAIN w = 1..Len(w)
  /\ UNION {Lower(w[i])..Upper(w[i]) : i \in 1..Len(w)} = U

\* The UIDs of a list of ranges.
Denoted(v) == UNION {v[i][1]..v[i][2] : i \in DOMAIN v}

\* The UIDs that vanished are those of the one VANISHED, or there are none.
Ranging(s, U) ==
  \/ Of(s, "Vanished") = {} /\ U = {}
  \/ \E p \in DOMAIN s : Of(s, "Vanished") = {p} /\ Covers(s[p].value, U)

LEMMA VanishedFacts ==
  ASSUME NEW o, Plain(o.data), NEW U, Ranging(o.data, U), NEW v, v = SelectData(o).vanished
  PROVE  Denoted(v) = U
<1> USE DEF Denoted
<1> DEFINE s == o.data
           T == ToSet(s)
           F == Of(s, "Vanished")
           e == At(s, F)
           m == Cardinality(F)
           h == [i \in DOMAIN e |-> UidRanges(e[i].value)]
<1>1. s \in Seq(T) /\ F \in SUBSET DOMAIN s
  BY DEF Plain, Of
<1>2. OfType(o, "Vanished") = e
  BY DEF OfType, Of
<1>3. v = FlattenSeq(h)
  BY <1>2 DEF SelectData
<1> HIDE DEF s, T, F
<1>4. /\ m \in Nat /\ DOMAIN e = 1..m
      /\ \A i \in 1..m : Ordered(F)[i] \in F /\ e[i] = s[Ordered(F)[i]]
  BY <1>1, AtFacts
<1> HIDE DEF e, m
<1>5. h = [i \in 1..m |-> UidRanges(e[i].value)]
  BY <1>4
<1>6. Len(h) = m /\ DOMAIN h = 1..m /\ \A i \in 1..m : h[i] = UidRanges(e[i].value)
  <2> DEFINE V == {UidRanges(e[i].value) : i \in 1..m}
  <2>1. h \in [1..m -> V] /\ \A i \in 1..m : h[i] = UidRanges(e[i].value)
    BY <1>5
  <2> HIDE DEF V, h
  <2>2. QED
    BY <1>4, <2>1, SeqFrom
<1> HIDE DEF h
<1>7. CASE F = {} /\ U = {}
  <2>1. m = 0
    BY <1>7, FS_EmptySet DEF m
  <2>2. v = h /\ DOMAIN h = {}
    BY <1>3, <1>6, <2>1 DEF FlattenSeq
  <2>3. QED
    BY <1>7, <2>2
<1>8. ASSUME NEW p \in DOMAIN s, F = {p}, Covers(s[p].value, U)
      PROVE  UNION {v[i][1]..v[i][2] : i \in DOMAIN v} = U
  <2>1. m = 1
    BY <1>8, FS_Singleton DEF m
  <2>2. e[1] = s[p]
    BY <1>4, <1>8, <2>1
  <2>3. v = h[1] /\ h[1] = UidRanges(s[p].value)
    BY <1>3, <1>6, <2>1, <2>2, FlattenOne
  <2> DEFINE w == s[p].value
  <2>4. v = [i \in 1..Len(w) |-> <<Lower(w[i]), Upper(w[i])>>]
    BY <2>3 DEF UidRanges
  <2> HIDE DEF w
  <2>5. DOMAIN v = 1..Len(w) /\ \A i \in 1..Len(w) : v[i][1] = Lower(w[i]) /\ v[i][2] = Upper(w[i])
    BY <2>4
  <2>6. {v[i][1]..v[i][2] : i \in DOMAIN v} = {Lower(w[i])..Upper(w[i]) : i \in 1..Len(w)}
    BY <2>5
  <2>7. QED
    BY <1>8, <2>6 DEF Covers, w
<1>9. QED
  BY <1>7, <1>8 DEF Ranging, s, F

\* What lists a set names each of its members once.
LEMMA ListingFacts ==
  ASSUME NEW S, IsFiniteSet(S), NEW s \in Listings(S)
  PROVE  /\ Cardinality(S) \in Nat /\ s \in [1..Cardinality(S) -> S]
         /\ \A i, j \in 1..Cardinality(S) : s[i] = s[j] => i = j
         /\ \A x \in S : \E i \in 1..Cardinality(S) : s[i] = x
         /\ s \in Seq(S) /\ Len(s) = Cardinality(S) /\ DOMAIN s = 1..Cardinality(S)
         /\ ToSet(s) = S
<1> DEFINE n == Cardinality(S)
<1>1. n \in Nat
  BY FS_CardinalityType
<1>2. s \in Bijection(1..n, S)
  BY DEF Listings
<1> HIDE DEF n
<1>3. s \in [1..n -> S]
  BY <1>2 DEF Bijection, Injection
<1>4. \A i, j \in 1..n : s[i] = s[j] => i = j
  BY <1>2, <1>3 DEF Bijection, Injection, IsInjective
<1>5. \A x \in S : \E i \in 1..n : s[i] = x
  BY <1>2 DEF Bijection, Surjection
<1>6. s \in Seq(S) /\ Len(s) = n /\ DOMAIN s = 1..n
  BY <1>1, <1>3, SeqFrom
<1>7. ToSet(s) = S
  BY <1>3, <1>5, <1>6 DEF ToSet
<1>8. QED
  BY <1>1, <1>3, <1>4, <1>5, <1>6, <1>7 DEF n

\* A listing that can be written as one range is that range.
LEMMA ListingRange ==
  ASSUME NEW S \in SUBSET Nat, IsFiniteSet(S), NEW s \in Listings(S), NEW e \in S \X S,
         Len(s) = Upper(e) - Lower(e) + 1, \A i \in DOMAIN s : s[i] = Lower(e) + i - 1
  PROVE  Lower(e)..Upper(e) = S /\ Expanded(e) = s
<1> DEFINE l == Lower(e)
           u == Upper(e)
<1>1. l \in Nat /\ u \in Nat /\ l <= u
  <2>1. e[1] \in S /\ e[2] \in S
    OBVIOUS
  <2>2. e[1] \in Nat /\ e[2] \in Nat
    BY <2>1
  <2>3. QED
    BY <2>2 DEF Lower, Upper
<1>2. Expanded(e) = [i \in 1..(u - l + 1) |-> l + i - 1]
  BY DEF Expanded
<1>3. Len(s) = u - l + 1 /\ \A i \in DOMAIN s : s[i] = l + i - 1
  OBVIOUS
<1>4. /\ s \in Seq(S) /\ DOMAIN s = 1..Len(s)
      /\ \A x \in S : \E i \in DOMAIN s : s[i] = x
      /\ \A i \in DOMAIN s : s[i] \in S
  <2> DEFINE n == Cardinality(S)
  <2>1. /\ s \in [1..n -> S] /\ s \in Seq(S) /\ Len(s) = n /\ DOMAIN s = 1..n
        /\ \A x \in S : \E i \in 1..n : s[i] = x
    BY ListingFacts
  <2> HIDE DEF n
  <2>2. QED
    BY <2>1
<1> HIDE DEF l, u
<1>5. s = [i \in 1..(u - l + 1) |-> l + i - 1]
  <2>1. s = [i \in DOMAIN s |-> s[i]]
    BY <1>4
  <2>2. QED
    BY <1>3, <1>4, <2>1
<1>6. ASSUME NEW x \in S
      PROVE  x \in l..u
  <2>1. PICK i \in DOMAIN s : s[i] = x
    BY <1>4
  <2>2. i \in 1..(u - l + 1) /\ x = l + i - 1
    BY <1>3, <1>4, <2>1
  <2>3. QED
    BY <1>1, <2>2
<1>7. ASSUME NEW x \in l..u
      PROVE  x \in S
  <2>1. x - l + 1 \in 1..(u - l + 1) /\ l + (x - l + 1) - 1 = x
    BY <1>1
  <2>2. x - l + 1 \in DOMAIN s
    BY <1>3, <1>4, <2>1
  <2>3. s[x - l + 1] = x
    BY <1>3, <2>1, <2>2
  <2>4. QED
    BY <1>4, <2>2, <2>3
<1>8. QED
  BY <1>2, <1>5, <1>6, <1>7 DEF l, u

\* A set written as ranges.
LEMMA WrittenCovers ==
  ASSUME NEW S \in SUBSET Nat, IsFiniteSet(S), NEW w \in Written(S)
  PROVE  Covers(w, S)
<1> DEFINE n == Cardinality(S)
<1>1. PICK o \in Listings(S) : w \in Listing(o)
  BY DEF Written
<1>5. /\ n \in Nat /\ o \in [1..n -> S] /\ DOMAIN o = 1..n /\ ToSet(o) = S
      /\ \A x \in S : \E i \in 1..n : o[i] = x
  BY ListingFacts
<1>2. CASE w = [i \in DOMAIN o |-> <<o[i], o[i]>>]
  <2> HIDE DEF n
  <2>1. w \in [1..n -> S \X S] /\ \A i \in 1..n : w[i][1] = o[i] /\ w[i][2] = o[i]
    BY <1>2, <1>5
  <2>2. Len(w) = n /\ DOMAIN w = 1..n
    BY <1>5, <2>1, SeqFrom
  <2>3. \A i \in 1..n : o[i] \in S /\ o[i] \in Nat
    BY <1>5
  <2>4. \A i \in 1..n : Lower(w[i]) = o[i] /\ Upper(w[i]) = o[i]
    BY <2>1 DEF Lower, Upper
  <2>5. \A i \in 1..n : Lower(w[i])..Upper(w[i]) = {o[i]}
    BY <2>3, <2>4
  <2>6. UNION {Lower(w[i])..Upper(w[i]) : i \in 1..n} = S
    <3>1. ASSUME NEW x \in S
          PROVE  x \in UNION {Lower(w[i])..Upper(w[i]) : i \in 1..n}
      BY <1>5, <2>5
    <3>2. ASSUME NEW x \in UNION {Lower(w[i])..Upper(w[i]) : i \in 1..n}
          PROVE  x \in S
      BY <2>3, <2>5
    <3>3. QED
      BY <3>1, <3>2
  <2>7. QED
    BY <1>5, <2>2, <2>6 DEF Covers
<1>3. ASSUME NEW e \in S \X S, w = <<e>>, Len(o) = Upper(e) - Lower(e) + 1,
             \A i \in DOMAIN o : o[i] = Lower(e) + i - 1
      PROVE  Covers(w, S)
  <2>1. Len(w) = 1 /\ DOMAIN w = 1..1 /\ w[1] = e
    BY <1>3
  <2>7. Lower(e)..Upper(e) = S
    BY <1>3, ListingRange
  <2>2. {Lower(w[i])..Upper(w[i]) : i \in 1..1} = {S}
    BY <2>1, <2>7
  <2>3. UNION {S} = S
    OBVIOUS
  <2>4. {Lower(w[i])..Upper(w[i]) : i \in 1..Len(w)} = {S}
    BY <2>1, <2>2
  <2>5. UNION {Lower(w[i])..Upper(w[i]) : i \in 1..Len(w)} = S
    BY <2>3, <2>4, Zenon
  <2>6. QED
    BY <2>1, <2>5 DEF Covers
<1>4. QED
  BY <1>1, <1>2, <1>3, <1>5 DEF Listing

-----------------------------------------------------------------------------
(* What was announced of the numbering while a call was under way.         *)

\* The entry at p is the last one about its message.
Latest(s, p) == \A q \in Of(s, "Fetch") : s[q].seq = s[p].seq => q <= p

\* Every entry is about the message numbered, and the last of each has its flags.
Accurate(s, t) ==
  \A p \in Of(s, "Fetch") :
    /\ s[p].seq \in DOMAIN t /\ s[p].value.msg = t[s[p].seq].uid
    /\ Latest(s, p) => s[p].value.deleted = t[s[p].seq].deleted
Speaks(s, t) == Of(s, "Expunge") = {} => Accurate(s, t)

Flagging == phase \in Exchanging /\ cmd.op \in {"Fetch", "Store"} => Speaks(out.data, told)

\* The entries of one response after those of another.
LEMMA OfConcat ==
  ASSUME NEW s, NEW d, Plain(s), Plain(d), NEW type
  PROVE  /\ \A p \in Of(s, type) : p \in Of(s \o d, type) /\ (s \o d)[p] = s[p]
         /\ \A p \in Of(d, type) : /\ Len(s) + p \in Of(s \o d, type)
                                   /\ (s \o d)[Len(s) + p] = d[p]
         /\ \A p \in Of(s \o d, type) :
              p \in Of(s, type) \/ (p - Len(s) \in Of(d, type) /\ p > Len(s))
<1> DEFINE c == s \o d
<1>1. /\ DOMAIN c = 1..(Len(s) + Len(d))
      /\ \A i \in DOMAIN s : i \in DOMAIN c /\ c[i] = s[i]
      /\ \A i \in DOMAIN d : Len(s) + i \in DOMAIN c /\ c[Len(s) + i] = d[i]
      /\ \A i \in DOMAIN c : i \in DOMAIN s \/ i - Len(s) \in DOMAIN d
  <2>1. DOMAIN c = 1..(Len(s) + Len(d))
    BY PlainConcat
  <2>2. \A i \in DOMAIN s : i \in DOMAIN c /\ c[i] = s[i]
    BY PlainConcat
  <2>3. \A i \in DOMAIN d : Len(s) + i \in DOMAIN c /\ c[Len(s) + i] = d[i]
    BY PlainConcat
  <2>4. \A i \in DOMAIN c : i \in DOMAIN s \/ i - Len(s) \in DOMAIN d
    BY PlainConcat
  <2>5. QED
    BY <2>1, <2>2, <2>3, <2>4
<1>2. Len(s) \in Nat /\ Len(d) \in Nat /\ DOMAIN s = 1..Len(s) /\ DOMAIN d = 1..Len(d)
  BY PlainFacts
<1> HIDE DEF c
<1>3. \A p \in Of(s, type) : p \in Of(c, type) /\ c[p] = s[p]
  BY <1>1 DEF Of
<1>4. \A p \in Of(d, type) : Len(s) + p \in Of(c, type) /\ c[Len(s) + p] = d[p]
  BY <1>1 DEF Of
<1>5. ASSUME NEW p \in Of(c, type)
      PROVE  p \in Of(s, type) \/ (p - Len(s) \in Of(d, type) /\ p > Len(s))
  <2>1. p \in DOMAIN c /\ p \in Nat
    BY <1>1, <1>2 DEF Of
  <2>2. CASE p \in DOMAIN s
    BY <1>1, <2>2 DEF Of
  <2>3. CASE p - Len(s) \in DOMAIN d
    <3>1. Len(s) + (p - Len(s)) = p /\ p > Len(s)
      BY <1>2, <2>1, <2>3
    <3>2. c[p] = d[p - Len(s)]
      BY <1>1, <2>3, <3>1
    <3>3. QED
      BY <2>3, <3>1, <3>2 DEF Of
  <2>4. QED
    BY <1>1, <2>1, <2>2, <2>3
<1>6. QED
  BY <1>3, <1>4, <1>5 DEF c

\* An entry is about message k.
Reaches(s, k) == \E p \in Of(s, "Fetch") : s[p].seq = k

\* A response is accurate after others when it speaks of all that changes.
LEMMA SpeaksConcat ==
  ASSUME NEW s, NEW d, NEW t, NEW u, Plain(s), Plain(d), Speaks(s, t), Speaks(d, u),
         Of(d, "Expunge") = {} =>
           \A k \in DOMAIN t :
             /\ k \in DOMAIN u /\ u[k].uid = t[k].uid
             /\ u[k].deleted = t[k].deleted \/ Reaches(d, k)
  PROVE  Speaks(s \o d, u)
<1> DEFINE c == s \o d
<1> SUFFICES ASSUME Of(c, "Expunge") = {}
             PROVE  Accurate(c, u)
  BY DEF Speaks
<1>1. /\ \A p \in Of(s, "Fetch") : p \in Of(c, "Fetch") /\ c[p] = s[p]
      /\ \A p \in Of(d, "Fetch") : Len(s) + p \in Of(c, "Fetch") /\ c[Len(s) + p] = d[p]
      /\ \A p \in Of(c, "Fetch") :
           p \in Of(s, "Fetch") \/ (p - Len(s) \in Of(d, "Fetch") /\ p > Len(s))
  BY OfConcat
<1>2. Of(s, "Expunge") = {} /\ Of(d, "Expunge") = {}
  <2>1. /\ \A p \in Of(s, "Expunge") : p \in Of(c, "Expunge")
        /\ \A p \in Of(d, "Expunge") : Len(s) + p \in Of(c, "Expunge")
    BY OfConcat
  <2>2. QED
    BY <2>1
<1>3. /\ Len(s) \in Nat /\ DOMAIN s = 1..Len(s) /\ Len(d) \in Nat /\ DOMAIN d = 1..Len(d)
  BY PlainFacts
<1>4. Accurate(s, t) /\ Accurate(d, u)
  BY <1>2 DEF Speaks
<1> HIDE DEF c
<1>5. ASSUME NEW p \in Of(c, "Fetch"), p \in Of(s, "Fetch")
      PROVE  /\ c[p].seq \in DOMAIN u /\ c[p].value.msg = u[c[p].seq].uid
             /\ Latest(c, p) => c[p].value.deleted = u[c[p].seq].deleted
  <2> DEFINE k == s[p].seq
  <2>1. k \in DOMAIN t /\ s[p].value.msg = t[k].uid /\ c[p] = s[p]
    BY <1>1, <1>4, <1>5 DEF Accurate
  <2>2. k \in DOMAIN u /\ u[k].uid = t[k].uid
    BY <1>2, <2>1
  <2>3. ASSUME Latest(c, p)
        PROVE  s[p].value.deleted = u[k].deleted
    <3>1. p \in Nat /\ p <= Len(s)
      BY <1>3, <1>5 DEF Of
    <3>2. ASSUME NEW q \in Of(d, "Fetch"), d[q].seq = k
          PROVE  FALSE
      <4>1. Len(s) + q \in Of(c, "Fetch") /\ c[Len(s) + q].seq = c[p].seq
        BY <1>1, <2>1, <3>2
      <4>2. Len(s) + q <= p
        BY <2>3, <4>1 DEF Latest
      <4>3. q \in Nat /\ q >= 1
        BY <1>3 DEF Of
      <4>4. QED
        BY <1>3, <3>1, <4>2, <4>3
    <3>3. u[k].deleted = t[k].deleted
      BY <1>2, <2>1, <3>2 DEF Reaches
    <3>4. Latest(s, p)
      <4>1. ASSUME NEW q \in Of(s, "Fetch"), s[q].seq = s[p].seq
            PROVE  q <= p
        BY <1>1, <2>1, <2>3, <4>1 DEF Latest
      <4>2. QED
        BY <4>1 DEF Latest
    <3>5. s[p].value.deleted = t[k].deleted
      BY <1>4, <1>5, <3>4 DEF Accurate
    <3>6. QED
      BY <3>3, <3>5
  <2>4. QED
    BY <2>1, <2>2, <2>3
<1>6. ASSUME NEW p \in Of(c, "Fetch"), p - Len(s) \in Of(d, "Fetch"), p > Len(s)
      PROVE  /\ c[p].seq \in DOMAIN u /\ c[p].value.msg = u[c[p].seq].uid
             /\ Latest(c, p) => c[p].value.deleted = u[c[p].seq].deleted
  <2> DEFINE j == p - Len(s)
  <2>1. j \in Nat /\ Len(s) + j = p
    <3>1. p - Len(s) \in 1..Len(d)
      BY <1>3, <1>6 DEF Of
    <3>2. p \in Nat
      BY PlainFacts, PlainConcat, <1>3 DEF Of, c
    <3>3. QED
      BY <1>3, <3>1, <3>2
  <2> HIDE DEF j
  <2>2. c[p] = d[j] /\ j \in Of(d, "Fetch")
    BY <1>1, <1>6, <2>1 DEF j
  <2>3. d[j].seq \in DOMAIN u /\ d[j].value.msg = u[d[j].seq].uid
    BY <1>4, <2>2 DEF Accurate
  <2>4. ASSUME Latest(c, p)
        PROVE  Latest(d, j)
    <3>1. ASSUME NEW q \in Of(d, "Fetch"), d[q].seq = d[j].seq
          PROVE  q <= j
      <4>1. Len(s) + q \in Of(c, "Fetch") /\ c[Len(s) + q].seq = c[p].seq
        BY <1>1, <2>2, <3>1
      <4>2. Len(s) + q <= p
        BY <2>4, <4>1 DEF Latest
      <4>3. q \in Nat
        BY <1>3 DEF Of
      <4>4. QED
        BY <1>3, <2>1, <4>2, <4>3
    <3>2. QED
      BY <3>1 DEF Latest
  <2>5. Latest(c, p) => d[j].value.deleted = u[d[j].seq].deleted
    BY <1>4, <2>2, <2>4 DEF Accurate
  <2>6. QED
    BY <2>2, <2>3, <2>5
<1>7. QED
  BY <1>1, <1>5, <1>6 DEF Accurate

\* An entry says of message k what the numbering t says of it.
Says(e, k, t) ==
  e.type = "Fetch" /\ e.seq = k /\ e.value.msg = t[k].uid /\ e.value.deleted = t[k].deleted

LEMMA EntriesAccurate ==
  ASSUME Numbered, NEW S \in SUBSET DOMAIN told, NEW u, DOMAIN told \in SUBSET DOMAIN u,
         NEW f, f = [i \in 1..Cardinality(S) |-> f[i]],
         \A i \in 1..Cardinality(S) : Says(f[i], Ordered(S)[i], u)
  PROVE  Plain(f) /\ Speaks(f, u)
<1> DEFINE n == Cardinality(S)
           o == Ordered(S)
<1>1. n \in Nat /\ o \in [1..n -> S]
  BY NumbersFinite, OrderedFacts
<1>2. f = [i \in 1..n |-> f[i]] /\ \A i \in 1..n : Says(f[i], o[i], u)
  OBVIOUS
<1> HIDE DEF n, o
<1>3. f \in [1..n -> {f[i] : i \in 1..n}]
  BY <1>2
<1>4. Plain(f) /\ DOMAIN f = 1..n
  BY <1>1, <1>3, PlainFrom
<1>5. ASSUME NEW p \in 1..n
      PROVE  /\ o[p] \in S /\ o[p] \in DOMAIN u /\ f[p].type = "Fetch" /\ f[p].seq = o[p]
             /\ f[p].value.msg = u[o[p]].uid /\ f[p].value.deleted = u[o[p]].deleted
  <2>1. Says(f[p], o[p], u)
    BY <1>2
  <2>2. o[p] \in S
    BY <1>1
  <2>3. QED
    BY <2>1, <2>2 DEF Says
<1>6. Of(f, "Fetch") = 1..n
  BY <1>4, <1>5 DEF Of
<1>7. ASSUME NEW p \in Of(f, "Fetch")
      PROVE  /\ f[p].seq \in DOMAIN u /\ f[p].value.msg = u[f[p].seq].uid
             /\ f[p].value.deleted = u[f[p].seq].deleted
  <2>1. p \in 1..n
    BY <1>6
  <2>2. QED
    BY <1>5, <2>1
<1>8. Accurate(f, u)
  BY <1>7 DEF Accurate
<1>9. QED
  BY <1>4, <1>8 DEF Speaks

\* There is one for each of the messages.
Entries(f, S) ==
  /\ DOMAIN f = 1..Cardinality(S)
  /\ \A i \in 1..Cardinality(S) : f[i].type = "Fetch" /\ f[i].seq = Ordered(S)[i]

LEMMA EntriesReach ==
  ASSUME Numbered, NEW S \in SUBSET DOMAIN told, NEW f, Entries(f, S), NEW k \in S
  PROVE  Reaches(f, k)
<1>1. PICK i \in 1..Cardinality(S) : Ordered(S)[i] = k
  BY NumbersFinite, OrderedFacts
<1>2. i \in Of(f, "Fetch") /\ f[i].seq = k
  BY <1>1 DEF Of, Entries
<1>3. QED
  BY <1>2 DEF Reaches

\* The server answers with the flags it then counts as announced.
LEMMA FetchedSpeaks ==
  ASSUME Stays, NEW S \in SUBSET DOMAIN told, NEW names, "Flags" \in names, Plain(out.data),
         Speaks(out.data, told)
  PROVE  /\ Plain(Fetched(S, names)) /\ Speaks(out.data \o Fetched(S, names), Sync(S))
<1> USE DEF Stays
<1> DEFINE n == Cardinality(S)
           o == Ordered(S)
           f == Fetched(S, names)
           u == Sync(S)
<1>1. n \in Nat /\ o \in [1..n -> S]
  BY NumbersFinite, OrderedFacts
<1>2. f = [i \in 1..n |-> D("Fetch", o[i], Item(o[i], names))]
  BY DEF Fetched
<1>3. /\ \A k \in DOMAIN told : told[k].uid \in Uids
      /\ DOMAIN u = DOMAIN told /\ \A k \in DOMAIN told : u[k].uid = told[k].uid
      /\ \A k \in DOMAIN told : u[k] = IF k \in S THEN Told(told[k].uid) ELSE told[k]
  BY ToldFacts, SyncFacts
<1> HIDE DEF f, n, o, u
<1>4. ASSUME NEW i \in 1..n
      PROVE  Says(f[i], o[i], u)
  <2>1. o[i] \in S /\ o[i] \in DOMAIN told /\ told[o[i]].uid \in Uids
    BY <1>1, <1>3
  <2>2. f[i] = D("Fetch", o[i], Item(o[i], names))
    BY <1>2
  <2>3. u[o[i]].uid = told[o[i]].uid /\ u[o[i]].deleted = deleted[told[o[i]].uid]
    BY <1>3, <2>1, ToldEntry
  <2>4. deleted[told[o[i]].uid] \in BOOLEAN
    BY <2>1 DEF Boxed
  <2>5. /\ f[i].type = "Fetch" /\ f[i].seq = o[i] /\ f[i].value = Item(o[i], names)
    BY <2>2 DEF D
  <2>6. /\ Item(o[i], names).msg = told[o[i]].uid
        /\ Item(o[i], names).deleted = (deleted[told[o[i]].uid] /\ "Flags" \in names)
    BY DEF Item
  <2>7. QED
    BY <2>3, <2>4, <2>5, <2>6 DEF Says
<1>5. f = [i \in 1..n |-> f[i]]
  BY <1>2
<1>6. Plain(f) /\ Speaks(f, u) /\ \A k \in S : Reaches(f, k)
  <2>1. /\ DOMAIN told \in SUBSET DOMAIN u /\ f = [i \in 1..Cardinality(S) |-> f[i]]
        /\ \A i \in 1..Cardinality(S) : Says(f[i], Ordered(S)[i], u)
    BY <1>3, <1>4, <1>5 DEF n, o
  <2>2. Numbered
    OBVIOUS
  <2>3. Plain(f) /\ Speaks(f, u)
    BY <2>1, <2>2, EntriesAccurate, Zenon
  <2>4. \A k \in S : Reaches(f, k)
    <3>1. Numbered /\ Entries(f, S)
      BY <1>4, <1>5 DEF Says, Entries, n, o
    <3>2. QED
      BY <3>1, EntriesReach
  <2>5. QED
    BY <2>3, <2>4
<1>7. \A k \in DOMAIN told : /\ k \in DOMAIN u /\ u[k].uid = told[k].uid
                             /\ u[k].deleted = told[k].deleted \/ Reaches(f, k)
  BY <1>3, <1>6
<1>8. Speaks(out.data \o f, u)
  BY <1>6, <1>7, SpeaksConcat
<1>9. QED
  BY <1>6, <1>8 DEF f, u

\* What the commands AsTold speaks of are answered with.
LEMMA Served ==
  ASSUME OInv, CallState, Server, phase \in Exchanging,
         cmd.op \in {"Fetch", "Store", "Select", "Examine"}
  PROVE  /\ Asked(cmd, req)
         /\ \/ SrvFetch \/ SrvStore \/ SrvSelect \/ TellExpunge \/ TellExists \/ TellFlags
            \/ SrvContinue \/ SrvOk \/ SrvRefuse \/ SrvBye
<1>1. Asked(cmd, req)
  BY DEF CallState, Requests
<1>2. req.op \in {"FETCH", "STORE", "SELECT", "EXAMINE"}
  BY <1>1 DEF Asked
<1>3. ~SrvPlain /\ ~SrvLeave /\ ~SrvLogout /\ ~SrvNames /\ ~SrvSearch
  BY <1>2 DEF SrvPlain, SrvLeave, SrvLogout, SrvNames, SrvSearch, Answers, Executes, InView
<1>4. ~SrvExpunge /\ ~SrvCopy /\ ~SrvMove /\ ~SrvAppend /\ ~SrvRaw
  BY <1>2 DEF SrvExpunge, SrvCopy, SrvMove, SrvAppend, SrvRaw, InView, ReadWrite
<1>5. QED
  BY <1>1, <1>3, <1>4 DEF Server

\* Announcements come after what was read.
LEMMA AnnouncesAdds ==
  ASSUME OInv, NEW d, Announces(d)
  PROVE  /\ out'.data = out.data \o d /\ phase \in {"sent", "served"}
         /\ UNCHANGED <<cmd, req, phase, result, ran, box, deleted, nextUid, view>>
<1>1. DOMAIN out = DOMAIN NoOutput
  BY DEF OInv, Statuses
<1>2. out'.data = out.data \o d
  BY <1>1 DEF Announces, NoOutput
<1>3. QED
  BY <1>2 DEF Announces, boxVars

LEMMA AnswersAdds ==
  ASSUME OInv, NEW op, NEW d, Answers(op, d)
  PROVE  out'.data = out.data \o d /\ phase' = "served" /\ ran' = TRUE /\ UNCHANGED <<cmd, req>>
<1>1. DOMAIN out = DOMAIN NoOutput
  BY DEF OInv, Statuses
<1>2. out'.data = out.data \o d
  BY <1>1 DEF Answers, Executes, NoOutput
<1>3. QED
  BY <1>2 DEF Answers, Executes

\* A response that is no FETCH says nothing of the flags.
LEMMA OneSpeaks ==
  ASSUME NEW x, x.type \notin {"Fetch", "Expunge"}, NEW u
  PROVE  Plain(<<x>>) /\ Speaks(<<x>>, u)
<1> DEFINE e == <<x>>
<1>1. e \in [1..1 -> {x}] /\ e[1] = x
  OBVIOUS
<1> HIDE DEF e
<1>2. Plain(e) /\ DOMAIN e = 1..1
  BY <1>1, PlainFrom
<1>3. Of(e, "Fetch") = {}
  BY <1>1, <1>2 DEF Of
<1>4. Plain(e) /\ Speaks(e, u)
  BY <1>2, <1>3 DEF Speaks, Accurate
<1>5. QED
  BY <1>4 DEF e

\* The flags a STORE sets are those it is answered with.
LEMMA StoreSpeaks ==
  ASSUME Stays, NEW S \in SUBSET DOMAIN told, NEW names, NEW flag \in BOOLEAN,
         Plain(out.data), Speaks(out.data, told),
         NEW f, f = [i \in 1..Cardinality(S) |->
                       D("Fetch", Ordered(S)[i], [Item(Ordered(S)[i], names) EXCEPT !.deleted = flag])],
         NEW u, u = [k \in DOMAIN told |-> IF k \in S THEN [told[k] EXCEPT !.deleted = flag] ELSE told[k]]
  PROVE  Plain(f) /\ Speaks(out.data \o f, u)
<1> DEFINE n == Cardinality(S)
           o == Ordered(S)
<1>1. Numbered /\ n \in Nat /\ o \in [1..n -> S]
  BY NumbersFinite, OrderedFacts DEF Stays
<1>2. f = [i \in 1..n |-> D("Fetch", o[i], [Item(o[i], names) EXCEPT !.deleted = flag])]
  OBVIOUS
<1>3. \A k \in DOMAIN told : told[k].uid \in Uids /\ told[k] \in Entry
  BY ToldFacts DEF Stays
<1> HIDE DEF n, o
<1>4. DOMAIN u = DOMAIN told
  OBVIOUS
<1>5. ASSUME NEW k \in DOMAIN told
      PROVE  /\ u[k].uid = told[k].uid
             /\ u[k].deleted = IF k \in S THEN flag ELSE told[k].deleted
  BY <1>3 DEF Entry
<1>6. ASSUME NEW i \in 1..n
      PROVE  Says(f[i], o[i], u)
  <2>1. o[i] \in S /\ o[i] \in DOMAIN told
    BY <1>1
  <2> DEFINE x == [Item(o[i], names) EXCEPT !.deleted = flag]
  <2>2. x.msg = told[o[i]].uid /\ x.deleted = flag
    BY DEF Item
  <2>3. f[i] = D("Fetch", o[i], x)
    BY <1>2
  <2> HIDE DEF x
  <2>4. f[i].type = "Fetch" /\ f[i].seq = o[i] /\ f[i].value = x
    BY <2>3 DEF D
  <2>5. u[o[i]].uid = told[o[i]].uid /\ u[o[i]].deleted = flag
    BY <1>5, <2>1
  <2>6. QED
    BY <2>2, <2>4, <2>5 DEF Says
<1>7. DOMAIN f = 1..n /\ f = [i \in 1..n |-> f[i]]
  BY <1>2
<1>8. Plain(f) /\ Speaks(f, u)
  <2>1. /\ DOMAIN told \in SUBSET DOMAIN u /\ f = [i \in 1..Cardinality(S) |-> f[i]]
        /\ \A i \in 1..Cardinality(S) : Says(f[i], Ordered(S)[i], u)
    BY <1>4, <1>6, <1>7 DEF n, o
  <2>2. QED
    BY <1>1, <2>1, EntriesAccurate, Zenon
<1>9. \A k \in S : Reaches(f, k)
  <2>1. Entries(f, S)
    BY <1>6, <1>7 DEF Says, Entries, n, o
  <2>2. QED
    BY <1>1, <2>1, EntriesReach
<1>10. \A k \in DOMAIN told : /\ k \in DOMAIN u /\ u[k].uid = told[k].uid
                              /\ u[k].deleted = told[k].deleted \/ Reaches(f, k)
  BY <1>4, <1>5, <1>9
<1>11. QED
  BY <1>8, <1>10, SpeaksConcat

\* The server moves a call that is under way, and leaves it under way.
LEMMA ServerUnderWay ==
  ASSUME Server
  PROVE  phase \in Exchanging /\ phase' \in Exchanging /\ UNCHANGED cmd
<1>1. CASE SrvPlain \/ SrvLeave \/ SrvLogout \/ SrvNames \/ SrvSelect \/ SrvSearch \/ SrvFetch
  BY <1>1 DEF SrvPlain, SrvLeave, SrvLogout, SrvNames, SrvSelect, SrvSearch, SrvFetch,
              Answers, Executes, Exchanging
<1>2. CASE SrvStore \/ SrvExpunge \/ SrvCopy \/ SrvMove \/ SrvAppend
  BY <1>2 DEF SrvStore, SrvExpunge, SrvCopy, SrvMove, SrvAppend, Answers, Executes, Exchanging
<1>3. CASE SrvContinue \/ SrvOk \/ SrvRefuse \/ SrvBye \/ SrvRaw
  BY <1>3 DEF SrvContinue, SrvOk, SrvRefuse, SrvBye, SrvRaw, SrvTagged, Exchanging
<1>4. CASE TellExpunge \/ TellExists \/ TellFlags
  BY <1>4 DEF TellExpunge, TellExists, TellFlags, Announces, Exchanging
<1>5. QED
  BY <1>1, <1>2, <1>3, <1>4 DEF Server

\* What is only concluded leaves what was announced.
LEMMA ConcludingKeeps ==
  ASSUME OInv, SrvContinue \/ SrvOk \/ SrvRefuse \/ SrvBye
  PROVE  /\ out'.data = out.data /\ UNCHANGED <<cmd, req, phase, ran, box, deleted, nextUid>>
         /\ told' = told \/ (SrvRefuse /\ req.op \in {"SELECT", "EXAMINE"})
<1>1. DOMAIN out = DOMAIN NoOutput
  BY DEF OInv, Statuses
<1>2. CASE SrvContinue
  BY <1>1, <1>2 DEF SrvContinue, srvVars, sesVars, boxVars
<1>3. CASE SrvBye
  BY <1>1, <1>3 DEF SrvBye, srvVars, sesVars, boxVars
<1>4. CASE SrvOk
  BY <1>1, <1>4 DEF SrvOk, SrvTagged, sesVars, boxVars
<1>5. CASE SrvRefuse
  <2>1. PICK kind \in {"No", "Bad"} : SrvTagged(kind)
    BY <1>5 DEF SrvRefuse
  <2>2. out'.data = out.data /\ UNCHANGED <<cmd, req, phase, ran, box, deleted, nextUid>>
    BY <1>1, <2>1 DEF SrvTagged, boxVars
  <2>3. told' = told \/ req.op \in {"SELECT", "EXAMINE"}
    BY <1>5 DEF SrvRefuse, sesVars
  <2>4. QED
    BY <1>5, <2>2, <2>3
<1>6. QED
  BY <1>2, <1>3, <1>4, <1>5

LEMMA PlainSoFar ==
  ASSUME Answered, phase \in Exchanging, cmd.op # "Raw"
  PROVE  Plain(out.data)
BY DEF Answered, Data

\* The server's steps keep what was announced accurate,
LEMMA FlaggingServer ==
  ASSUME OInv, CallState, Stays, Answered, Flagging, Server
  PROVE  Flagging'
<1> SUFFICES ASSUME cmd'.op \in {"Fetch", "Store"}
             PROVE  Speaks(out'.data, told')
  BY DEF Flagging
<1> DEFINE s == out.data
<1>1. phase \in Exchanging /\ cmd' = cmd /\ cmd.op \in {"Fetch", "Store"} /\ Boxed /\ Numbered
  BY ServerUnderWay DEF Stays
<1>2. Plain(s) /\ Speaks(s, told)
  BY <1>1, PlainSoFar DEF Flagging
<1>3. /\ Asked(cmd, req)
      /\ \/ SrvFetch \/ SrvStore \/ SrvSelect \/ TellExpunge \/ TellExists \/ TellFlags
         \/ SrvContinue \/ SrvOk \/ SrvRefuse \/ SrvBye
  BY <1>1, Served
<1>4. /\ cmd.op = "Fetch" => req.op = "FETCH" /\ "Flags" \in req.names
      /\ cmd.op = "Store" => req.op = "STORE" /\ ~req.silent
      /\ req.op = "STORE" => req.flag \in BOOLEAN
      /\ req.op \in {"FETCH", "STORE"}
  BY <1>1, <1>3 DEF Asked
<1>5. CASE SrvFetch
  <2> DEFINE names == req.names \cup IF req.uid THEN {"Uid"} ELSE {}
  <2>1. Targets \in SUBSET DOMAIN told /\ "Flags" \in req.names
    BY <1>1, <1>4, <1>5 DEF Targets, SrvFetch, InView
  <2>2. Answers("FETCH", Fetched(Targets, names)) /\ told' = Sync(Targets)
    BY <1>5, <2>1 DEF SrvFetch
  <2>3. "Flags" \in names
    BY <2>1
  <2> HIDE DEF names
  <2>4. out'.data = s \o Fetched(Targets, names)
    BY <2>2, AnswersAdds
  <2>5. QED
    BY <1>2, <2>1, <2>2, <2>3, <2>4, FetchedSpeaks
<1>6. CASE SrvStore
  <2> DEFINE names == {"Flags"} \cup IF req.uid THEN {"Uid"} ELSE {}
             f == [i \in 1..Cardinality(Targets) |->
                     D("Fetch", Ordered(Targets)[i],
                       [Item(Ordered(Targets)[i], names) EXCEPT !.deleted = req.flag])]
             u == [k \in DOMAIN told |->
                     IF k \in Targets THEN [told[k] EXCEPT !.deleted = req.flag] ELSE told[k]]
  <2>1. Targets \in SUBSET DOMAIN told /\ ~req.silent /\ req.flag \in BOOLEAN
    BY <1>1, <1>4, <1>6 DEF Targets, SrvStore, ReadWrite
  <2>2. Answers("STORE", f) /\ told' = u
    BY <1>6, <2>1 DEF SrvStore
  <2>3. Speaks(s \o f, u)
    <3> DEFINE flag == req.flag
    <3> HIDE DEF names, flag
    <3>1. QED
      BY <1>2, <2>1, StoreSpeaks DEF flag
  <2> HIDE DEF f, u
  <2>4. QED
    BY <2>2, <2>3, AnswersAdds
<1>7. ~SrvSelect
  BY <1>4 DEF SrvSelect
<1>8. CASE TellExpunge
  <2>1. PICK k \in DOMAIN told : Announces(Expunges({k}))
    BY <1>8 DEF TellExpunge
  <2> DEFINE d == Expunges({k})
  <2>2. Plain(d) /\ DOMAIN d = 1..1 /\ d[1].type = "Expunge"
    <3>1. Cardinality({k}) = 1 /\ IsFiniteSet({k})
      BY FS_Singleton
    <3>2. Plain(d)
      <4> DEFINE S == {k}
      <4> HIDE DEF S
      <4>1. Data(Expunges(S), req, 0)
        BY <3>1, ExpungesData DEF S
      <4>2. QED
        BY <4>1 DEF Data, S
    <3>3. QED
      BY <3>1, <3>2 DEF Expunges, D
  <2>3. out'.data = s \o d
    BY <2>1, AnnouncesAdds
  <2> HIDE DEF d
  <2>4. 1 \in Of(d, "Expunge")
    BY <2>2 DEF Of
  <2>5. Len(s) + 1 \in Of(out'.data, "Expunge")
    BY <1>2, <2>2, <2>3, <2>4, OfConcat
  <2>6. QED
    BY <2>5 DEF Speaks
<1>9. CASE TellExists
  <2> DEFINE x == D("Exists", 0, Len(told) + Len(Fresh))
             d == <<x>>
             u == told \o News
  <2>1. Announces(d) /\ told' = u
    BY <1>9 DEF TellExists, News, Fresh
  <2>2. x.type \notin {"Fetch", "Expunge"}
    BY DEF D
  <2> HIDE DEF x
  <2>3. Plain(d) /\ Speaks(d, u)
    <3> HIDE DEF u
    <3>1. QED
      BY <2>2, OneSpeaks
  <2>4. \A k \in DOMAIN told : k \in DOMAIN u /\ u[k] = told[k]
    <3>1. view' = view /\ view # "none"
      BY <2>1 DEF Announces
    <3> HIDE DEF d
    <3>2. \A k \in DOMAIN told : k \in DOMAIN told' /\ told'[k] = told[k]
      BY <1>1, <2>1, <3>1, FreshNumbered
    <3>3. QED
      BY <2>1, <3>2
  <2> HIDE DEF d, u
  <2>5. Speaks(s \o d, u)
    BY <1>2, <2>3, <2>4, SpeaksConcat
  <2>6. QED
    BY <2>1, <2>5, AnnouncesAdds
<1>10. CASE TellFlags
  <2>1. PICK k \in DOMAIN told, names \in {{"Flags"}, {"Flags", "Uid"}} :
          Announces(Fetched({k}, names)) /\ told' = Sync({k})
    BY <1>10 DEF TellFlags
  <2> DEFINE S == {k}
  <2>2. S \in SUBSET DOMAIN told /\ "Flags" \in names
    OBVIOUS
  <2>3. Announces(Fetched(S, names)) /\ told' = Sync(S)
    BY <2>1
  <2> HIDE DEF S
  <2>4. Speaks(s \o Fetched(S, names), Sync(S))
    BY <1>2, <2>2, FetchedSpeaks
  <2>5. QED
    BY <2>3, <2>4, AnnouncesAdds
<1>11. CASE SrvContinue \/ SrvOk \/ SrvRefuse \/ SrvBye
  <2>1. out'.data = s /\ told' = told
    BY <1>4, <1>11, ConcludingKeeps
  <2>2. QED
    BY <1>2, <2>1
<1>12. QED
  BY <1>3, <1>5, <1>6, <1>7, <1>8, <1>9, <1>10, <1>11

\* and the client's, and those of others, leave it so.
LEMMA FlaggingSteps ==
  ASSUME OInv, CallState, Stays, Answered, Flagging, Next
  PROVE  Flagging'
<1>1. CASE out' = NoOutput
  <2>1. Of(out'.data, "Fetch") = {}
    BY <1>1 DEF NoOutput, Of
  <2>2. QED
    BY <2>1 DEF Flagging, Speaks, Accurate
<1>2. CASE SessionCommands \/ MailboxCommands \/ MessageCommands \/ ReadEof
  <2>1. CASE Starts \/ FetchesNext
    BY <1>1, <2>1 DEF Starts, FetchesNext
  <2>2. CASE Reads
    BY <2>2 DEF Reads, Flagging, Exchanging
  <2>3. CASE Advances
    <3>1. told' = told /\ cmd' = cmd /\ phase \in Exchanging
      BY <2>3 DEF Advances, srvVars, sesVars, Exchanging
    <3>2. CASE out' = out
      BY <3>1, <3>2 DEF Flagging
    <3>3. QED
      BY <1>1, <2>3, <3>2 DEF Advances
  <2>4. CASE Raw
    BY <1>1, <2>4 DEF Raw, RawRefused, RawStart, RawRead, RawEof, Kept, Flagging
  <2>5. QED
    BY <1>2, <2>1, <2>2, <2>3, <2>4, ClientSteps
<1>3. CASE OtherExpunge \/ OtherStore \/ OtherDeliver
  <2>1. UNCHANGED <<cmd, phase, out, told>>
    BY <1>3 DEF OtherExpunge, OtherStore, OtherDeliver, Changes, callVars, sesVars
  <2>2. QED
    BY <2>1 DEF Flagging
<1>4. QED
  BY <1>2, <1>3, FlaggingServer DEF Next
-----------------------------------------------------------------------------
(* What a SELECT has announced.                                            *)

Numbers == {told[k].uid : k \in DOMAIN told}

\* The last count announced is n.
Counts(s, n) ==
  \E p \in Of(s, "Exists") : s[p].value = n /\ \A q \in Of(s, "Exists") : q <= p

Selecting ==
  phase \in Exchanging /\ cmd.op \in {"Select", "Examine"} =>
    IF ran
    THEN /\ Counts(out.data, Len(told))
         /\ cmd.qresync => Ranging(out.data, Known \ Numbers)
         /\ Known \cap ToSet(box) \subseteq Numbers
    ELSE Of(out.data, "Vanished") = {}

LEMMA NoneConcat ==
  ASSUME NEW s, NEW d, Plain(s), Plain(d), NEW type, Of(s, type) = {}, Of(d, type) = {}
  PROVE  Of(s \o d, type) = {}
<1>1. \A p \in Of(s \o d, type) : p \in Of(s, type) \/ p - Len(s) \in Of(d, type)
  BY OfConcat
<1>2. QED
  BY <1>1

\* A count announced later is the last.
LEMMA CountsConcat ==
  ASSUME NEW s, NEW d, Plain(s), Plain(d), NEW n, Counts(d, n)
  PROVE  Counts(s \o d, n)
<1> DEFINE c == s \o d
<1>1. PICK p \in Of(d, "Exists") : d[p].value = n /\ \A q \in Of(d, "Exists") : q <= p
  BY DEF Counts
<1>2. /\ \A i \in Of(s, "Exists") : i \in Of(c, "Exists") /\ c[i] = s[i]
      /\ \A i \in Of(d, "Exists") : Len(s) + i \in Of(c, "Exists") /\ c[Len(s) + i] = d[i]
      /\ \A i \in Of(c, "Exists") :
           i \in Of(s, "Exists") \/ (i - Len(s) \in Of(d, "Exists") /\ i > Len(s))
  BY OfConcat
<1>3. Len(s) \in Nat /\ DOMAIN s = 1..Len(s) /\ Len(d) \in Nat /\ DOMAIN d = 1..Len(d)
  BY PlainFacts
<1>4. DOMAIN c = 1..(Len(s) + Len(d))
  BY PlainConcat
<1> HIDE DEF c
<1>5. p \in Nat /\ p >= 1 /\ \A i \in Of(c, "Exists") : i \in Nat
  BY <1>3, <1>4 DEF Of
<1>6. ASSUME NEW i \in Of(c, "Exists")
      PROVE  i <= Len(s) + p
  <2>1. CASE i \in Of(s, "Exists")
    <3>1. i \in 1..Len(s)
      BY <1>3, <2>1 DEF Of
    <3>2. QED
      BY <1>3, <1>5, <3>1
  <2>2. CASE i - Len(s) \in Of(d, "Exists")
    <3>1. i - Len(s) <= p
      BY <1>1, <2>2
    <3>2. QED
      BY <1>3, <1>5, <3>1
  <2>3. QED
    BY <1>2, <2>1, <2>2
<1>7. Len(s) + p \in Of(c, "Exists") /\ c[Len(s) + p].value = n
  BY <1>1, <1>2
<1>8. QED
  BY <1>6, <1>7 DEF Counts, c

\* Without one, it is the last announced before.
LEMMA CountsStay ==
  ASSUME NEW s, NEW d, Plain(s), Plain(d), NEW n, Counts(s, n), Of(d, "Exists") = {}
  PROVE  Counts(s \o d, n)
<1> DEFINE c == s \o d
<1>1. PICK p \in Of(s, "Exists") : s[p].value = n /\ \A q \in Of(s, "Exists") : q <= p
  BY DEF Counts
<1>2. /\ \A i \in Of(s, "Exists") : i \in Of(c, "Exists") /\ c[i] = s[i]
      /\ \A i \in Of(c, "Exists") : i \in Of(s, "Exists") \/ i - Len(s) \in Of(d, "Exists")
  BY OfConcat
<1> HIDE DEF c
<1>3. p \in Of(c, "Exists") /\ c[p].value = n /\ \A q \in Of(c, "Exists") : q <= p
  BY <1>1, <1>2
<1>4. QED
  BY <1>3 DEF Counts, c

\* There is one VANISHED at most.
LEMMA RangingStay ==
  ASSUME NEW s, NEW d, Plain(s), Plain(d), NEW U, Ranging(s, U), Of(d, "Vanished") = {}
  PROVE  Ranging(s \o d, U)
<1> DEFINE c == s \o d
<1>1. /\ \A i \in Of(s, "Vanished") : i \in Of(c, "Vanished") /\ c[i] = s[i]
      /\ \A i \in Of(c, "Vanished") : i \in Of(s, "Vanished") \/ i - Len(s) \in Of(d, "Vanished")
  BY OfConcat
<1>2. \A i \in DOMAIN s : i \in DOMAIN c
  BY PlainConcat
<1> HIDE DEF c
<1>3. Of(c, "Vanished") = Of(s, "Vanished")
  BY <1>1
<1>4. CASE Of(s, "Vanished") = {} /\ U = {}
  BY <1>3, <1>4 DEF Ranging, c
<1>5. ASSUME NEW p \in DOMAIN s, Of(s, "Vanished") = {p}, Covers(s[p].value, U)
      PROVE  Ranging(c, U)
  <2>1. c[p] = s[p] /\ p \in DOMAIN c /\ Of(c, "Vanished") = {p}
    BY <1>1, <1>2, <1>3, <1>5
  <2>2. QED
    BY <1>5, <2>1 DEF Ranging
<1>6. QED
  BY <1>4, <1>5 DEF Ranging, c

LEMMA RangingConcat ==
  ASSUME NEW s, NEW d, Plain(s), Plain(d), NEW U, Of(s, "Vanished") = {}, Ranging(d, U)
  PROVE  Ranging(s \o d, U)
<1> DEFINE c == s \o d
<1>1. /\ \A i \in Of(s, "Vanished") : i \in Of(c, "Vanished") /\ c[i] = s[i]
      /\ \A i \in Of(d, "Vanished") : Len(s) + i \in Of(c, "Vanished") /\ c[Len(s) + i] = d[i]
      /\ \A i \in Of(c, "Vanished") :
           i \in Of(s, "Vanished") \/ (i - Len(s) \in Of(d, "Vanished") /\ i > Len(s))
  BY OfConcat
<1>2. Len(s) \in Nat /\ DOMAIN c = 1..(Len(s) + Len(d)) /\ DOMAIN d = 1..Len(d) /\ Len(d) \in Nat
  BY PlainFacts, PlainConcat
<1> HIDE DEF c
<1>3. CASE Of(d, "Vanished") = {} /\ U = {}
  BY <1>1, <1>3 DEF Ranging, c
<1>4. ASSUME NEW p \in DOMAIN d, Of(d, "Vanished") = {p}, Covers(d[p].value, U)
      PROVE  Ranging(c, U)
  <2>1. Len(s) + p \in Of(c, "Vanished") /\ c[Len(s) + p] = d[p]
    BY <1>1, <1>4
  <2>2. ASSUME NEW i \in Of(c, "Vanished")
        PROVE  i = Len(s) + p
    <3>1. i - Len(s) \in Of(d, "Vanished")
      BY <1>1
    <3>2. i - Len(s) = p
      BY <1>4, <3>1
    <3>3. i \in Nat
      BY <1>2 DEF Of
    <3>4. QED
      BY <1>2, <3>2, <3>3
  <2>3. Of(c, "Vanished") = {Len(s) + p} /\ Len(s) + p \in DOMAIN c
    BY <2>1, <2>2 DEF Of
  <2>4. QED
    BY <1>4, <2>1, <2>3 DEF Ranging
<1>5. QED
  BY <1>3, <1>4 DEF Ranging, c

\* Of one response.
LEMMA OfOne ==
  ASSUME NEW x, NEW type
  PROVE  /\ Plain(<<x>>)
         /\ x.type # type => Of(<<x>>, type) = {}
         /\ x.type = "Exists" => Counts(<<x>>, x.value)
         /\ \A U : x.type = "Vanished" /\ Covers(x.value, U) => Ranging(<<x>>, U)
<1> DEFINE e == <<x>>
<1>1. e \in [1..1 -> {x}] /\ e[1] = x
  OBVIOUS
<1> HIDE DEF e
<1>2. Plain(e) /\ DOMAIN e = 1..1
  BY <1>1, PlainFrom
<1>3. x.type # type => Of(e, type) = {}
  BY <1>1, <1>2 DEF Of
<1>4. x.type = "Exists" => Of(e, "Exists") = {1}
  BY <1>1, <1>2 DEF Of
<1>5. x.type = "Vanished" => Of(e, "Vanished") = {1}
  BY <1>1, <1>2 DEF Of
<1>6. x.type = "Exists" => Counts(e, x.value)
  BY <1>1, <1>4 DEF Counts
<1>7. ASSUME NEW U, x.type = "Vanished", Covers(x.value, U)
      PROVE  Ranging(e, U)
  BY <1>1, <1>2, <1>5, <1>7 DEF Ranging
<1>8. QED
  BY <1>2, <1>3, <1>6, <1>7 DEF e

\* What a SELECT is answered with, in whole.
LEMMA SelectAnswers ==
  ASSUME Boxed, NEW d, NEW q \in BOOLEAN,
         LET gone == {u \in Known : u \notin ToSet(box)}
             fresh == <<D("Exists", 0, Len(box))>>
             changed == [i \in DOMAIN box |->
                           D("Fetch", i, [msg |-> box[i], names |-> {"Uid", "Flags"},
                                          deleted |-> deleted[box[i]]])]
         IN IF q /\ gone # {}
            THEN \E w \in Written(gone) : d = fresh \o <<D("Vanished", 0, w)>> \o changed
            ELSE d = fresh \o IF q THEN changed ELSE <<>>
  PROVE  Plain(d) /\ Counts(d, Len(box)) /\ (q => Ranging(d, Known \ ToSet(box)))
<1> DEFINE gone == {u \in Known : u \notin ToSet(box)}
           x == D("Exists", 0, Len(box))
           f == <<x>>
           V(w) == D("Vanished", 0, w)
           item(i) == [msg |-> box[i], names |-> {"Uid", "Flags"}, deleted |-> deleted[box[i]]]
           changed == [i \in DOMAIN box |-> D("Fetch", i, item(i))]
           none == <<>>
<1>1. gone = Known \ ToSet(box) /\ gone \in SUBSET Nat /\ IsFiniteSet(gone)
  <2>1. IsFiniteSet(1..MaxUid)
    BY BoundNat, FS_Interval
  <2>2. gone \in SUBSET (1..MaxUid) /\ gone \in SUBSET Nat /\ gone = Known \ ToSet(box)
    BY BoundNat
  <2> HIDE DEF gone
  <2>3. IsFiniteSet(gone)
    BY <2>1, <2>2, FS_Subset, Zenon
  <2>4. QED
    BY <2>2, <2>3
<1>2. /\ Plain(f) /\ Counts(f, Len(box)) /\ Of(f, "Vanished") = {}
  <2>1. x.type = "Exists" /\ x.type # "Vanished" /\ x.value = Len(box)
    BY DEF D
  <2> HIDE DEF x
  <2>2. QED
    BY <2>1, OfOne
<1>3. /\ Plain(changed) /\ Of(changed, "Exists") = {} /\ Of(changed, "Vanished") = {}
  <2>1. Len(box) \in Nat /\ DOMAIN box = 1..Len(box)
    BY BoxBounded
  <2>2. changed \in [1..Len(box) -> {D("Fetch", i, item(i)) : i \in 1..Len(box)}]
        /\ \A i \in 1..Len(box) : changed[i].type = "Fetch"
    BY <2>1 DEF D
  <2> HIDE DEF changed
  <2>3. Plain(changed) /\ DOMAIN changed = 1..Len(box)
    BY <2>1, <2>2, PlainFrom
  <2>4. QED
    BY <2>2, <2>3 DEF Of
<1>4. Plain(none) /\ Of(none, "Exists") = {} /\ Of(none, "Vanished") = {}
  BY DataNone DEF Data, Of
<1>5. IF q /\ gone # {}
      THEN \E w \in Written(gone) : d = f \o <<V(w)>> \o changed
      ELSE d = f \o IF q THEN changed ELSE none
  OBVIOUS
<1> HIDE DEF x, f, changed, none, gone
<1>6. CASE ~q
  <2>1. d = f \o none
    BY <1>5, <1>6
  <2>2. QED
    BY <1>2, <1>4, <1>6, <2>1, CountsStay, PlainConcat
<1>7. CASE q /\ gone = {}
  <2>1. d = f \o changed
    BY <1>5, <1>7
  <2>2. Plain(d) /\ Counts(d, Len(box))
    BY <1>2, <1>3, <2>1, CountsStay, PlainConcat
  <2>3. Ranging(f, gone)
    BY <1>2, <1>7 DEF Ranging
  <2>4. Ranging(d, gone)
    BY <1>2, <1>3, <2>1, <2>3, RangingStay
  <2>5. QED
    BY <1>1, <2>2, <2>4
<1>8. CASE q /\ gone # {}
  <2>1. PICK w \in Written(gone) : d = f \o <<V(w)>> \o changed
    BY <1>5, <1>8
  <2> DEFINE v == <<V(w)>>
             c == f \o v
  <2>2. Covers(w, gone)
    BY <1>1, WrittenCovers
  <2>3. Plain(v) /\ Of(v, "Exists") = {} /\ Ranging(v, gone)
    <3>1. V(w).type = "Vanished" /\ V(w).value = w
      BY DEF D
    <3> HIDE DEF V
    <3>2. QED
      BY <2>2, <3>1, OfOne
  <2> HIDE DEF v
  <2>4. Plain(c) /\ Counts(c, Len(box)) /\ Ranging(c, gone)
    <3>1. Plain(c)
      BY <1>2, <2>3, PlainConcat
    <3>2. Counts(c, Len(box))
      BY <1>2, <2>3, CountsStay
    <3>3. Ranging(c, gone)
      BY <1>2, <2>3, RangingConcat
    <3>4. QED
      BY <3>1, <3>2, <3>3
  <2>5. d = c \o changed
    BY <2>1 DEF v
  <2> HIDE DEF c
  <2>6. Plain(d) /\ Counts(d, Len(box)) /\ Ranging(d, gone)
    <3>1. Plain(d)
      BY <1>3, <2>4, <2>5, PlainConcat
    <3>2. Counts(d, Len(box))
      BY <1>3, <2>4, <2>5, CountsStay
    <3>3. Ranging(d, gone)
      BY <1>3, <2>4, <2>5, RangingStay
    <3>4. QED
      BY <3>1, <3>2, <3>3
  <2>7. QED
    BY <1>1, <2>6
<1>9. QED
  BY <1>6, <1>7, <1>8

\* The numbering of INBOX as it is.
LEMMA ListedNumbers ==
  ASSUME Boxed, told' = Listed
  PROVE  Len(told') = Len(box) /\ Numbers' = ToSet(box)
<1>1. /\ Len(Listed) = Len(box) /\ DOMAIN Listed = DOMAIN box
      /\ \A k \in DOMAIN box : Listed[k].uid = box[k]
  BY ListedFacts
<1>2. QED
  BY <1>1 DEF Numbers, ToSet

\* The flags are no part of it, and what is new was not known.
LEMMA SyncNumbers ==
  ASSUME Boxed, Numbered, NEW S, told' = Sync(S)
  PROVE  Len(told') = Len(told) /\ Numbers' = Numbers
<1>1. Sync(S) \in [DOMAIN told -> Entry] /\ \A k \in DOMAIN told : Sync(S)[k].uid = told[k].uid
  BY SyncFacts
<1>2. Len(told) \in Nat /\ DOMAIN told = 1..Len(told)
  BY ToldFacts
<1>3. told' \in [1..Len(told) -> Entry] /\ \A k \in DOMAIN told : told'[k].uid = told[k].uid
  BY <1>1, <1>2
<1>4. Len(told') = Len(told) /\ DOMAIN told' = DOMAIN told
  BY <1>2, <1>3, SeqFrom
<1>5. QED
  BY <1>3, <1>4 DEF Numbers

LEMMA FreshNumbers ==
  ASSUME Boxed, Numbered, told' = told \o News, UNCHANGED view, view # "none",
         Known \cap ToSet(box) \subseteq Numbers
  PROVE  Known \ Numbers' = Known \ Numbers /\ Known \cap ToSet(box) \subseteq Numbers'
<1>1. /\ \A k \in DOMAIN told : k \in DOMAIN told' /\ told'[k] = told[k]
      /\ \A k \in DOMAIN told' \ DOMAIN told : told'[k].uid \in ToSet(Fresh)
  BY FreshNumbered
<1>2. ToSet(Fresh) = {u \in ToSet(box) : \A k \in DOMAIN told : told[k].uid # u}
  BY NewsFacts
<1>3. Numbers \in SUBSET Numbers'
  BY <1>1 DEF Numbers
<1>4. \A u \in ToSet(Fresh) : u \in ToSet(box) /\ u \notin Numbers
  BY <1>2 DEF Numbers
<1>5. \A u \in Numbers' : u \in Numbers \/ u \in ToSet(Fresh)
  BY <1>1 DEF Numbers
<1>6. ASSUME NEW u \in Known, u \in Numbers'
      PROVE  u \in Numbers
  BY <1>4, <1>5, <1>6
<1>7. QED
  BY <1>3, <1>6

\* What the server announces during a SELECT keeps count,
LEMMA CountingServer ==
  ASSUME OInv, CallState, Stays, Answered, Selecting, Server
  PROVE  Selecting'
<1> SUFFICES ASSUME cmd'.op \in {"Select", "Examine"}
             PROVE  IF ran'
                    THEN /\ Counts(out'.data, Len(told'))
                         /\ cmd'.qresync => Ranging(out'.data, Known \ Numbers')
                         /\ Known \cap ToSet(box') \subseteq Numbers'
                    ELSE Of(out'.data, "Vanished") = {}
  BY DEF Selecting
<1> DEFINE s == out.data
<1>1. phase \in Exchanging /\ cmd' = cmd /\ cmd.op \in {"Select", "Examine"} /\ Boxed /\ Numbered
  BY ServerUnderWay DEF Stays
<1>2. Plain(s)
  BY <1>1, PlainSoFar
<1>3. IF ran
      THEN /\ Counts(s, Len(told))
           /\ cmd.qresync => Ranging(s, Known \ Numbers)
           /\ Known \cap ToSet(box) \subseteq Numbers
      ELSE Of(s, "Vanished") = {}
  BY <1>1 DEF Selecting
<1>4. /\ Asked(cmd, req)
      /\ \/ SrvFetch \/ SrvStore \/ SrvSelect \/ TellExpunge \/ TellExists \/ TellFlags
         \/ SrvContinue \/ SrvOk \/ SrvRefuse \/ SrvBye
  BY <1>1, Served
<1>5. req.op \in {"SELECT", "EXAMINE"} /\ req.qresync = cmd.qresync /\ ran \in BOOLEAN
  BY <1>1, <1>4 DEF Asked, CallState, Counted
<1>6. ~SrvFetch /\ ~SrvStore /\ ~TellExpunge
  BY <1>5 DEF SrvFetch, SrvStore, InView, ReadWrite, TellExpunge, MayExpunge
<1>7. ASSUME NEW d, Plain(d), out'.data = s \o d, Of(d, "Vanished") = {}, UNCHANGED <<ran, box>>,
             Known \ Numbers' = Known \ Numbers,
             ran => Known \cap ToSet(box) \subseteq Numbers',
             Counts(d, Len(told')) \/ (Of(d, "Exists") = {} /\ Len(told') = Len(told))
      PROVE  IF ran'
             THEN /\ Counts(out'.data, Len(told'))
                  /\ cmd'.qresync => Ranging(out'.data, Known \ Numbers')
                  /\ Known \cap ToSet(box') \subseteq Numbers'
             ELSE Of(out'.data, "Vanished") = {}
  <2>1. CASE ran
    <3>1. Counts(out'.data, Len(told'))
      BY <1>2, <1>3, <1>7, <2>1, CountsConcat, CountsStay
    <3>2. cmd.qresync => Ranging(out'.data, Known \ Numbers)
      <4> DEFINE U == Known \ Numbers
      <4>1. cmd.qresync => Ranging(s, U)
        BY <1>3, <2>1
      <4> HIDE DEF U
      <4>2. cmd.qresync => Ranging(out'.data, U)
        BY <1>2, <1>7, <4>1, RangingStay
      <4>3. QED
        BY <4>2 DEF U
    <3>3. QED
      BY <1>1, <1>7, <2>1, <3>1, <3>2
  <2>2. CASE ~ran
    BY <1>2, <1>3, <1>7, <2>2, NoneConcat
  <2>3. QED
    BY <2>1, <2>2
<1>8. CASE SrvSelect
  <2> DEFINE gone == {u \in Known : u \notin ToSet(box)}
             fresh == <<D("Exists", 0, Len(box))>>
             changed == [i \in DOMAIN box |->
                           D("Fetch", i, [msg |-> box[i], names |-> {"Uid", "Flags"},
                                          deleted |-> deleted[box[i]]])]
             Reply(d) == IF req.qresync /\ gone # {}
                          THEN \E w \in Written(gone) : d = fresh \o <<D("Vanished", 0, w)>> \o changed
                          ELSE d = fresh \o IF req.qresync THEN changed ELSE <<>>
  <2>1. PICK op \in {"SELECT", "EXAMINE"} :
          IF req.qresync /\ gone # {}
          THEN \E w \in Written(gone) :
                 Answers(op, fresh \o <<D("Vanished", 0, w)>> \o changed)
          ELSE Answers(op, fresh \o IF req.qresync THEN changed ELSE <<>>)
    BY <1>8 DEF SrvSelect
  <2>2. phase = "sent" /\ told' = Listed /\ box' = box
    BY <1>8 DEF SrvSelect, boxVars
  <2>3. \E d : Answers(op, d) /\ Reply(d)
    <3> HIDE DEF gone, fresh, changed
    <3>1. QED
      BY <2>1
  <2>4. PICK d : Answers(op, d) /\ Reply(d)
    BY <2>3
  <2>5. Plain(d) /\ Counts(d, Len(box)) /\ (cmd.qresync => Ranging(d, Known \ ToSet(box)))
    BY <1>1, <1>5, <2>4, SelectAnswers
  <2>6. out'.data = s \o d /\ ran' = TRUE
    BY <2>4, AnswersAdds
  <2>7. Of(s, "Vanished") = {}
    BY <1>3, <2>2 DEF OInv, Staged, Waiting
  <2>8. Len(told') = Len(box) /\ Numbers' = ToSet(box)
    BY <1>1, <2>2, ListedNumbers
  <2> HIDE DEF Reply
  <2>9. Counts(out'.data, Len(told'))
    BY <1>2, <2>5, <2>6, <2>8, CountsConcat
  <2>10. cmd.qresync => Ranging(out'.data, Known \ Numbers')
    <3> DEFINE U == Known \ ToSet(box)
    <3> HIDE DEF U
    <3>1. cmd.qresync => Ranging(s \o d, U)
      BY <1>2, <2>5, <2>7, RangingConcat DEF U
    <3>2. QED
      BY <2>6, <2>8, <3>1 DEF U
  <2>11. QED
    BY <1>1, <2>2, <2>6, <2>8, <2>9, <2>10
<1>9. CASE TellExists
  <2> DEFINE n == Len(told) + Len(Fresh)
             x == D("Exists", 0, n)
             d == <<x>>
  <2>1. Announces(d) /\ told' = told \o News
    BY <1>9 DEF TellExists, News, Fresh
  <2>2. x.type = "Exists" /\ x.value = n
    BY DEF D
  <2> HIDE DEF x
  <2>3. Plain(d) /\ Counts(d, n) /\ Of(d, "Vanished") = {}
    BY <2>2, OfOne
  <2>4. view' = view /\ view # "none"
    BY <2>1 DEF Announces
  <2> HIDE DEF d
  <2>5. Len(told') = n
    BY <1>1, <2>1, <2>4, FreshNumbered
  <2>6. out'.data = s \o d /\ UNCHANGED <<ran, box>>
    BY <2>1, AnnouncesAdds
  <2>7. CASE ran
    <3>1. Known \ Numbers' = Known \ Numbers /\ Known \cap ToSet(box) \subseteq Numbers'
      BY <1>1, <1>3, <2>1, <2>4, <2>7, FreshNumbers
    <3>2. QED
      BY <1>7, <2>3, <2>5, <2>6, <3>1
  <2>8. CASE ~ran
    BY <1>2, <1>3, <2>3, <2>6, <2>8, NoneConcat
  <2>9. QED
    BY <2>7, <2>8
<1>10. CASE TellFlags
  <2>1. PICK k \in DOMAIN told, names \in {{"Flags"}, {"Flags", "Uid"}} :
          Announces(Fetched({k}, names)) /\ told' = Sync({k})
    BY <1>10 DEF TellFlags
  <2> DEFINE d == Fetched({k}, names)
  <2>2. d \in [1..1 -> {d[1]}] /\ d[1].type = "Fetch"
    <3>1. Cardinality({k}) = 1
      BY FS_Singleton
    <3>2. QED
      BY <3>1 DEF Fetched, D
  <2>3. out'.data = s \o d /\ UNCHANGED <<ran, box>>
    BY <2>1, AnnouncesAdds
  <2> HIDE DEF d
  <2>4. Plain(d) /\ Of(d, "Exists") = {} /\ Of(d, "Vanished") = {}
    <3>1. Plain(d) /\ DOMAIN d = 1..1
      BY <2>2, PlainFrom
    <3>2. QED
      BY <2>2, <3>1 DEF Of
  <2>5. Len(told') = Len(told) /\ Numbers' = Numbers
    BY <1>1, <2>1, SyncNumbers
  <2>6. QED
    BY <1>3, <1>7, <2>3, <2>4, <2>5
<1>11. CASE SrvContinue \/ SrvOk \/ SrvRefuse \/ SrvBye
  <2>1. out'.data = s /\ UNCHANGED <<phase, ran, box>>
    BY <1>11, ConcludingKeeps
  <2>2. CASE told' = told
    BY <1>1, <1>3, <2>1, <2>2 DEF Numbers
  <2>3. CASE SrvRefuse
    <3>1. ~ran
      BY <2>3 DEF SrvRefuse, OInv, Staged, Waiting
    <3>2. QED
      BY <1>3, <2>1, <3>1
  <2>4. QED
    BY <1>11, <2>2, <2>3, ConcludingKeeps
<1>12. QED
  BY <1>4, <1>6, <1>8, <1>9, <1>10, <1>11

\* and the others' changes are not announced.
LEMMA SelectingSteps ==
  ASSUME OInv, CallState, Stays, Answered, Selecting, Next
  PROVE  Selecting'
<1>1. CASE out' = NoOutput /\ ran' = FALSE
  <2>1. Of(out'.data, "Vanished") = {}
    BY <1>1 DEF NoOutput, Of
  <2>2. QED
    BY <1>1, <2>1 DEF Selecting
<1>2. CASE SessionCommands \/ MailboxCommands \/ MessageCommands \/ ReadEof
  <2>1. CASE Starts \/ FetchesNext
    BY <1>1, <2>1 DEF Starts, FetchesNext
  <2>2. CASE Reads
    BY <2>2 DEF Reads, Selecting, Exchanging
  <2>3. CASE Advances
    <3>1. /\ UNCHANGED <<told, box, cmd, ran>> /\ phase \in Exchanging /\ ~ran /\ ran \in BOOLEAN
      BY <2>3 DEF Advances, srvVars, sesVars, boxVars, Exchanging, OInv, Staged, Waiting,
                  CallState, Counted
    <3>2. CASE out' = out
      BY <3>1, <3>2 DEF Selecting
    <3>3. CASE out' = NoOutput
      BY <1>1, <3>1, <3>3
    <3>4. QED
      BY <2>3, <3>2, <3>3 DEF Advances
  <2>4. CASE Raw
    BY <2>4 DEF Raw, RawRefused, RawStart, RawRead, RawEof, Kept, Selecting
  <2>5. QED
    BY <1>2, <2>1, <2>2, <2>3, <2>4, ClientSteps
<1>3. CASE OtherExpunge \/ OtherStore \/ OtherDeliver
  <2>1. UNCHANGED <<cmd, phase, out, told, ran>> /\ Boxed
    BY <1>3 DEF OtherExpunge, OtherStore, OtherDeliver, Changes, callVars, sesVars, Stays
  <2>2. Known \cap ToSet(box') \subseteq ToSet(box)
    <3>1. CASE OtherStore
      BY <3>1 DEF OtherStore
    <3>2. CASE OtherExpunge
      BY <2>1, <3>2, InBoxFacts DEF OtherExpunge
    <3>3. CASE OtherDeliver
      <4>1. nextUid \notin Known
        BY <2>1, BoundNat DEF Boxed
      <4>2. box \in Seq(Uids) /\ box' = Append(box, nextUid) /\ nextUid \in Uids
        BY <2>1, <3>3 DEF OtherDeliver, Boxed
      <4>3. /\ DOMAIN box = 1..Len(box) /\ DOMAIN box' = 1..(Len(box) + 1) /\ Len(box) \in Nat
            /\ \A i \in 1..Len(box) : box'[i] = box[i]
            /\ box'[Len(box) + 1] = nextUid
        BY <4>2, AppendProperties, LenProperties
      <4>4. ASSUME NEW i \in DOMAIN box'
            PROVE  box'[i] = nextUid \/ box'[i] \in ToSet(box)
        <5>1. i \in 1..Len(box) \/ i = Len(box) + 1
          BY <4>3
        <5>2. QED
          BY <4>3, <5>1 DEF ToSet
      <4>5. QED
        BY <4>1, <4>4 DEF ToSet
    <3>4. QED
      BY <1>3, <3>1, <3>2, <3>3
  <2>3. Numbers' = Numbers
    BY <2>1 DEF Numbers
  <2>4. QED
    BY <2>1, <2>2, <2>3 DEF Selecting
<1>4. QED
  BY <1>2, <1>3, CountingServer DEF Next

-----------------------------------------------------------------------------
(* What the call returns.                                                  *)

\* FETCH and STORE,
LEMMA FlagsReturned ==
  ASSUME Plain(out.data), Speaks(out.data, told), Seqs(out) = <<>>,
         NEW value, value = FetchMap(out) \/ value = StoreMap(out), NEW k \in DOMAIN value,
         NEW items, items = value[k]
  PROVE  /\ k \in DOMAIN told /\ \A i \in DOMAIN items : items[i].msg = told[k].uid
         /\ Last(items).deleted = told[k].deleted
<1> DEFINE s == out.data
           all == FetchMap(out)[k]
<1>1. Accurate(s, told)
  BY SilentSeqs DEF Speaks
<1>2. k \in DOMAIN FetchMap(out)
  BY DEF StoreMap
<1>3. /\ Len(all) \in Nat \ {0} /\ DOMAIN all = 1..Len(all)
      /\ \A i \in DOMAIN all : \E p \in Of(s, "Fetch") : s[p].seq = k /\ all[i] = s[p].value
      /\ \E p \in Of(s, "Fetch") :
           /\ s[p].seq = k /\ Last(all) = s[p].value
           /\ \A q \in Of(s, "Fetch") : s[q].seq = k => q <= p
  BY <1>2, FetchMapItems
<1> HIDE DEF all, s
<1>4. PICK p \in Of(s, "Fetch") :
        /\ s[p].seq = k /\ Last(all) = s[p].value
        /\ \A q \in Of(s, "Fetch") : s[q].seq = k => q <= p
  BY <1>3
<1>5. k \in DOMAIN told /\ Last(all).msg = told[k].uid /\ Last(all).deleted = told[k].deleted
  <2>1. Latest(s, p)
    BY <1>4 DEF Latest
  <2>2. QED
    BY <1>1, <1>4, <2>1 DEF Accurate
<1>6. \A i \in DOMAIN all : all[i].msg = told[k].uid
  BY <1>1, <1>3 DEF Accurate
<1>7. CASE items = all
  BY <1>5, <1>6, <1>7
<1>8. CASE items = <<Last(all)>>
  <2>1. DOMAIN items = {1} /\ items[1] = Last(all) /\ Last(items) = items[1]
    <3> DEFINE x == Last(all)
    <3> HIDE DEF x
    <3>1. items = <<x>>
      BY <1>8 DEF x
    <3>2. DOMAIN items = {1} /\ items[1] = x /\ Len(items) = 1
      BY <3>1
    <3>3. QED
      BY <3>2 DEF Last, x
  <2>2. QED
    BY <1>5, <2>1
<1>9. items = all \/ items = <<Last(all)>>
  <2>1. value = FetchMap(out) => items = all
    BY DEF all
  <2>2. value = StoreMap(out) => items = <<Last(all)>>
    BY <1>2 DEF all, StoreMap
  <2>3. QED
    BY <2>1, <2>2
<1>10. QED
  BY <1>7, <1>8, <1>9

\* and SELECT.
LEMMA SelectReturned ==
  ASSUME Plain(out.data), Counts(out.data, Len(told)), NEW value, value = SelectData(out)
  PROVE  /\ value.exists = {Len(told)}
         /\ Ranging(out.data, Known \ Numbers) => Denoted(value.vanished) = Known \ Numbers
<1>1. PICK p \in Of(out.data, "Exists") :
        out.data[p].value = Len(told) /\ \A q \in Of(out.data, "Exists") : q <= p
  BY DEF Counts
<1>2. LastOf(out, "Exists") = {Len(told)}
  BY <1>1, LastOfFacts
<1>3. value.exists = LastOf(out, "Exists")
  BY DEF SelectData
<1>4. ASSUME Ranging(out.data, Known \ Numbers)
      PROVE  Denoted(value.vanished) = Known \ Numbers
  <2> DEFINE v == value.vanished
             U == Known \ Numbers
  <2>1. v = SelectData(out).vanished /\ Ranging(out.data, U)
    BY <1>4
  <2> HIDE DEF v, U
  <2>2. Denoted(v) = U
    BY <2>1, VanishedFacts
  <2>3. QED
    BY <2>2 DEF v, U
<1>5. QED
  BY <1>2, <1>3, <1>4

-----------------------------------------------------------------------------
ToldInv == TInv /\ Flagging /\ Selecting /\ AsTold

LEMMA ReadsAsTold ==
  ASSUME TInv, Flagging, Selecting, Reads
  PROVE  AsTold'
<1>1. /\ UNCHANGED <<cmd, out, told>> /\ phase \in Exchanging /\ cmd.op # "Raw"
      /\ cmd.op \in {"Fetch", "Store", "Select", "Examine"} /\ result'.status = "Ok" =>
           result'.value = Reading(cmd.op, out)
      /\ result'.status = "Ok" => "Ok" \in out.tagged
  BY DEF Reads, Reported, Kept, srvVars, sesVars
<1>2. Plain(out.data)
  BY <1>1, PlainSoFar DEF TInv
<1> DEFINE value == result'.value
<1>3. ASSUME result'.status = "Ok", cmd.op \in {"Fetch", "Store"}, Seqs(out) = <<>>,
             NEW k \in DOMAIN value, NEW items, items = value[k]
      PROVE  /\ k \in DOMAIN told /\ \A i \in DOMAIN items : items[i].msg = told[k].uid
             /\ Last(items).deleted = told[k].deleted
  <2>1. value = FetchMap(out) \/ value = StoreMap(out)
    BY <1>1, <1>3 DEF Reading
  <2>2. Speaks(out.data, told)
    BY <1>1, <1>3 DEF Flagging
  <2> HIDE DEF value
  <2>3. QED
    BY <1>2, <1>3, <2>1, <2>2, FlagsReturned
<1>4. ASSUME result'.status = "Ok", cmd.op \in {"Select", "Examine"}
      PROVE  /\ value.exists = {Len(told)}
             /\ cmd.qresync => Denoted(value.vanished) = Known \ Numbers
  <2>1. value = SelectData(out)
    BY <1>1, <1>4 DEF Reading
  <2>2. ran
    BY <1>1, <1>4 DEF TInv, OInv, Statuses
  <2>3. Counts(out.data, Len(told)) /\ (cmd.qresync => Ranging(out.data, Known \ Numbers))
    BY <1>1, <1>4, <2>2 DEF Selecting
  <2> HIDE DEF value
  <2>4. QED
    BY <1>2, <2>1, <2>3, SelectReturned
<1>5. QED
  BY <1>1, <1>3, <1>4 DEF AsTold, Returned, Numbers, Seqs, OfType, Denoted

LEMMA ToldStep == ToldInv /\ [Next]_vars => ToldInv'
<1> SUFFICES ASSUME ToldInv, [Next]_vars
             PROVE  ToldInv'
  OBVIOUS
<1> USE DEF ToldInv
<1>1. TInv'
  BY TypesStep
<1>2. CASE UNCHANGED vars
  <2>1. UNCHANGED <<cmd, phase, out, result, ran, box, told>>
    BY <1>2 DEF vars, callVars, srvVars, boxVars, sesVars
  <2>2. QED
    BY <1>1, <2>1 DEF Flagging, Selecting, AsTold, Returned, Numbers, Seqs, OfType
<1>3. CASE Next
  <2>1. Flagging' /\ Selecting'
    BY <1>3, FlaggingSteps, SelectingSteps DEF TInv
  <2>2. CASE phase' \in Exchanging
    <3>1. result'.status = "none"
      BY <1>1, <2>2 DEF TInv, CallState, Called
    <3>2. QED
      BY <1>1, <2>1, <3>1 DEF AsTold, Returned
  <2>3. CASE phase' \notin Exchanging
    <3>1. ~Server
      BY <2>3, ServerUnderWay
    <3>2. CASE OtherExpunge \/ OtherStore \/ OtherDeliver
      <4>1. UNCHANGED <<cmd, out, result, told>>
        BY <3>2 DEF OtherExpunge, OtherStore, OtherDeliver, Changes, callVars, sesVars
      <4>2. QED
        BY <1>1, <2>1, <4>1 DEF AsTold, Returned, Seqs, OfType
    <3>3. CASE SessionCommands \/ MailboxCommands \/ MessageCommands \/ ReadEof
      <4>1. Reads \/ Raw
        BY <2>3, <3>3, ClientSteps DEF TInv, Starts, FetchesNext, Advances, Exchanging, Waiting
      <4>2. CASE Reads
        BY <1>1, <2>1, <4>2, ReadsAsTold
      <4>3. CASE Raw
        <5>1. cmd'.op = "Raw"
          BY <4>3 DEF Raw, RawRefused, RawStart, RawRead, RawEof, Kept
        <5>2. QED
          BY <1>1, <2>1, <5>1 DEF AsTold, Returned
      <4>4. QED
        BY <4>1, <4>2, <4>3
    <3>4. QED
      BY <1>3, <3>1, <3>2, <3>3 DEF Next
  <2>4. QED
    BY <2>2, <2>3
<1>4. QED
  BY <1>2, <1>3

LEMMA ToldInit == Init => ToldInv
<1> SUFFICES ASSUME Init
             PROVE  ToldInv
  OBVIOUS
<1>1. phase = "idle" /\ result.status = "none"
  BY DEF Init, NoResult
<1>2. QED
  BY <1>1, TypesInit DEF ToldInv, Flagging, Selecting, AsTold, Returned, Exchanging

(* What FETCH, STORE and SELECT return is the mailbox as it was announced  *)
(* to this session, for any number of messages, commands and changes by    *)
(* others, and however the server interleaves what it announces with its   *)
(* answer: every entry is about the message its number stands for and ends *)
(* with the flags announced last, a SELECT counts the messages it numbers, *)
(* and its ranges hold exactly the known messages that are gone            *)
(* (src/rfc3501/store.rs:203-212, fetch.rs:204-212, select.rs:191-224,     *)
(* 251-270).                                                               *)
THEOREM ReturnsAsTold == Spec => []AsTold
<1>1. ToldInv => AsTold
  BY DEF ToldInv
<1>2. QED
  BY <1>1, ToldInit, ToldStep, PTL DEF Spec

-----------------------------------------------------------------------------
(* A set of numbers has one enumeration from the least up.                 *)

\* s goes up, and has every number of S: with both, s is the members of S in
\* order.
Rises(s) == \A i, j \in DOMAIN s : i < j => s[i] < s[j]
Enumerates(s, S) ==
  s \in Seq(S) /\ Rises(s) /\ \A x \in S : \E i \in DOMAIN s : s[i] = x

\* Every set of numbers that is not empty has a least one.
LEMMA Least ==
  ASSUME NEW S \in SUBSET Nat, S # {}
  PROVE  \E i \in S : \A j \in S : i <= j
<1>1. PICK i \in S : \A j \in S : ~(<<j, i>> \in OpToRel(<, Nat))
  BY WFMin, NatLessThanWellFounded, Zenon
<1>2. \A j \in S : ~(j < i)
  BY <1>1 DEF OpToRel
<1>3. i \in Nat /\ \A j \in S : j \in Nat
  OBVIOUS
<1>4. QED
  BY <1>2, <1>3

\* Two enumerations of a set agree where the first has a place.
LEMMA Agreeing ==
  ASSUME NEW S \in SUBSET Nat, NEW s, NEW t, Enumerates(s, S), Enumerates(t, S)
  PROVE  \A i \in DOMAIN s : i \in DOMAIN t /\ t[i] = s[i]
<1> DEFINE B == {i \in DOMAIN s : ~(i \in DOMAIN t /\ t[i] = s[i])}
<1> SUFFICES ASSUME B # {}
             PROVE  FALSE
  OBVIOUS
<1>1. /\ DOMAIN s = 1..Len(s) /\ Len(s) \in Nat /\ \A i \in DOMAIN s : s[i] \in S /\ s[i] \in Nat
      /\ DOMAIN t = 1..Len(t) /\ Len(t) \in Nat /\ \A i \in DOMAIN t : t[i] \in S /\ t[i] \in Nat
  BY LenProperties, ElementOfSeq DEF Enumerates
<1>2. B \in SUBSET Nat
  BY <1>1
<1>3. PICK i \in B : \A j \in B : i <= j
  BY <1>2, Least
<1>4. i \in DOMAIN s /\ ~(i \in DOMAIN t /\ t[i] = s[i])
  OBVIOUS
<1>5. \A j \in DOMAIN s : j < i => j \in DOMAIN t /\ t[j] = s[j]
  <2>1. \A j \in DOMAIN s : j \notin B => j \in DOMAIN t /\ t[j] = s[j]
    OBVIOUS
  <2>2. \A j \in DOMAIN s : j < i => j \notin B
    BY <1>1, <1>2, <1>3
  <2>3. QED
    BY <2>1, <2>2
<1> HIDE DEF B
<1>6. PICK p \in DOMAIN t : t[p] = s[i]
  BY <1>1, <1>4 DEF Enumerates
<1>7. i <= p
  <2> SUFFICES ASSUME p < i
               PROVE  FALSE
    BY <1>1, <1>4
  <2>1. p \in DOMAIN s /\ s[p] = t[p]
    BY <1>1, <1>4, <1>5
  <2>2. s[p] < s[i]
    BY <1>4, <2>1 DEF Enumerates, Rises
  <2>3. QED
    BY <1>1, <1>4, <1>6, <2>1, <2>2
<1>8. i \in DOMAIN t
  BY <1>1, <1>4, <1>7
<1>9. PICK q \in DOMAIN s : s[q] = t[i]
  BY <1>1, <1>8 DEF Enumerates
<1>10. i <= q
  <2> SUFFICES ASSUME q < i
               PROVE  FALSE
    BY <1>1, <1>4
  <2>1. q \in DOMAIN t /\ t[q] = s[q]
    BY <1>5
  <2>2. t[q] < t[i]
    BY <1>8, <2>1 DEF Enumerates, Rises
  <2>3. QED
    BY <1>1, <1>8, <1>9, <2>1, <2>2
<1>11. s[i] <= s[q] /\ t[i] <= t[p]
  <2>1. i = q \/ i < q
    BY <1>1, <1>4, <1>10
  <2>2. i = p \/ i < p
    BY <1>1, <1>4, <1>7
  <2>3. s[i] = s[q] \/ s[i] < s[q]
    BY <1>4, <2>1 DEF Enumerates, Rises
  <2>4. t[i] = t[p] \/ t[i] < t[p]
    BY <1>8, <2>2 DEF Enumerates, Rises
  <2>5. QED
    BY <1>1, <1>4, <1>8, <2>3, <2>4
<1>12. QED
  BY <1>1, <1>4, <1>6, <1>8, <1>9, <1>11

\* A set of numbers has one enumeration from the least up.
LEMMA OneEnumeration ==
  ASSUME NEW S \in SUBSET Nat, NEW s, NEW t, Enumerates(s, S), Enumerates(t, S)
  PROVE  s = t
<1>1. DOMAIN s = DOMAIN t /\ \A i \in DOMAIN s : s[i] = t[i]
  <2>1. \A i \in DOMAIN s : i \in DOMAIN t /\ t[i] = s[i]
    BY Agreeing
  <2>2. \A i \in DOMAIN t : i \in DOMAIN s /\ s[i] = t[i]
    BY Agreeing
  <2>3. QED
    BY <2>1, <2>2
<1>2. s \in Seq(S) /\ t \in Seq(S)
  BY DEF Enumerates
<1>3. s = [i \in DOMAIN s |-> s[i]] /\ t = [i \in DOMAIN t |-> t[i]]
  BY <1>2
<1>4. QED
  BY <1>1, <1>3

\* Ordered is that enumeration.
LEMMA OrderedEnumerates ==
  ASSUME NEW S \in SUBSET Nat, IsFiniteSet(S)
  PROVE  Enumerates(Ordered(S), S)
<1> DEFINE o == Ordered(S)
           n == Cardinality(S)
<1>1. /\ n \in Nat /\ o \in [1..n -> S]
      /\ \A i, j \in 1..n : i < j => o[i] < o[j]
      /\ \A x \in S : \E i \in 1..n : o[i] = x
  BY OrderedFacts
<1> HIDE DEF o, n
<1>2. o \in Seq(S) /\ DOMAIN o = 1..n
  BY <1>1, SeqFrom
<1>3. QED
  BY <1>1, <1>2 DEF Enumerates, Rises, o

\* Of what goes up, the k-th has k - 1 below it and k up to it.
LEMMA RisingCounts ==
  ASSUME NEW S \in SUBSET Nat, NEW s \in Seq(S), Rises(s), NEW k \in DOMAIN s
  PROVE  /\ Cardinality({j \in DOMAIN s : s[j] < s[k]}) = k - 1
         /\ Cardinality({j \in DOMAIN s : s[j] <= s[k]}) = k
<1>1. DOMAIN s = 1..Len(s) /\ Len(s) \in Nat /\ \A i \in DOMAIN s : s[i] \in Nat
  BY LenProperties, ElementOfSeq
<1>2. \A j \in DOMAIN s : (j < k => s[j] < s[k]) /\ (k < j => s[k] < s[j])
  BY DEF Rises
<1>3. k \in Nat /\ k >= 1 /\ k - 1 \in Nat /\ \A j \in DOMAIN s : j \in Nat
  BY <1>1
<1>4. \A j \in DOMAIN s : s[j] < s[k] <=> j < k
  BY <1>1, <1>2, <1>3
<1>5. \A j \in DOMAIN s : s[j] <= s[k] <=> j <= k
  BY <1>1, <1>2, <1>3
<1>6. {j \in DOMAIN s : j < k} = 1..(k - 1) /\ {j \in DOMAIN s : j <= k} = 1..k
  BY <1>1, <1>3
<1>7. ASSUME NEW n \in Nat
      PROVE  Cardinality(1..n) = n
  <2>1. Cardinality(1..n) = IF 1 > n THEN 0 ELSE n - 1 + 1
    BY FS_Interval
  <2>2. QED
    BY <2>1
<1>8. /\ {j \in DOMAIN s : s[j] < s[k]} = {j \in DOMAIN s : j < k}
      /\ {j \in DOMAIN s : s[j] <= s[k]} = {j \in DOMAIN s : j <= k}
  BY <1>4, <1>5
<1>9. QED
  BY <1>3, <1>6, <1>7, <1>8

\* Any listing of a set has as many places below a number as the set has members.
LEMMA CountListed ==
  ASSUME NEW S \in SUBSET Nat, IsFiniteSet(S), NEW s \in Listings(S), NEW x \in Nat
  PROVE  /\ Cardinality({j \in DOMAIN s : s[j] < x}) = Cardinality({y \in S : y < x})
         /\ Cardinality({j \in DOMAIN s : s[j] <= x}) = Cardinality({y \in S : y <= x})
<1> DEFINE n == Cardinality(S)
<1>1. /\ n \in Nat /\ s \in [1..n -> S] /\ DOMAIN s = 1..n
      /\ \A i, j \in 1..n : s[i] = s[j] => i = j
      /\ \A y \in S : \E i \in 1..n : s[i] = y
  BY ListingFacts
<1> HIDE DEF n
<1>2. ASSUME NEW B \in SUBSET S
      PROVE  Cardinality({j \in 1..n : s[j] \in B}) = Cardinality(B)
  <2> DEFINE A == {j \in 1..n : s[j] \in B}
             f == [j \in A |-> s[j]]
  <2>1. IsFiniteSet(A)
    <3>1. IsFiniteSet(1..n)
      BY <1>1, FS_Interval
    <3>2. A \in SUBSET (1..n)
      OBVIOUS
    <3> HIDE DEF A
    <3>3. QED
      BY <3>1, <3>2, FS_Subset
  <2>2. f \in [A -> B] /\ \A j \in A : f[j] = s[j]
    OBVIOUS
  <2>3. \A y \in B : \E j \in A : s[j] = y
    BY <1>1
  <2>4. \A i, j \in A : s[i] = s[j] => i = j
    BY <1>1
  <2> HIDE DEF A, f
  <2>5. f \in Injection(A, B)
    BY <2>2, <2>4 DEF Injection, IsInjective
  <2>6. f \in Surjection(A, B)
    BY <2>2, <2>3 DEF Surjection
  <2>7. ExistsBijection(A, B)
    BY <2>5, <2>6 DEF ExistsBijection, Bijection
  <2>8. Cardinality(B) = Cardinality(A)
    BY <2>1, <2>7, FS_Bijection
  <2>9. QED
    BY <2>8 DEF A
<1>3. /\ {j \in DOMAIN s : s[j] < x} = {j \in 1..n : s[j] \in {y \in S : y < x}}
      /\ {j \in DOMAIN s : s[j] <= x} = {j \in 1..n : s[j] \in {y \in S : y <= x}}
  BY <1>1
<1>4. {y \in S : y < x} \in SUBSET S /\ {y \in S : y <= x} \in SUBSET S
  OBVIOUS
<1>5. QED
  BY <1>2, <1>3, <1>4

\* However it is listed, a set is put in order.
LEMMA AscendingListed ==
  ASSUME NEW S \in SUBSET Nat, IsFiniteSet(S), NEW s \in Listings(S)
  PROVE  Ascending(s) = Ordered(S)
<1> DEFINE n == Cardinality(S)
           o == Ordered(S)
           Below(t, x) == Cardinality({j \in DOMAIN t : t[j] < x})
           UpTo(t, x) == Cardinality({j \in DOMAIN t : t[j] <= x})
           Fitting(x, i) == Below(s, x) < i /\ UpTo(s, x) >= i
<1>1. /\ n \in Nat /\ o \in [1..n -> S]
      /\ \A i, j \in 1..n : i < j => o[i] < o[j]
      /\ \A x \in S : \E i \in 1..n : o[i] = x
  BY OrderedFacts
<1>2. Enumerates(o, S)
  BY OrderedEnumerates
<1>3. DOMAIN s = 1..n /\ ToSet(s) = S
  BY ListingFacts
<1>4. Ascending(s) = [i \in DOMAIN s |-> CHOOSE x \in ToSet(s) : Fitting(x, i)]
  BY DEF Ascending
<1>5. o \in Listings(S)
  <2> HIDE DEF n, o
  <2>1. \A i, j \in 1..n : o[i] = o[j] => i = j
    <3>1. \A i \in 1..n : o[i] \in Nat /\ i \in Nat
      <4> SUFFICES ASSUME NEW i \in 1..n
                   PROVE  o[i] \in Nat /\ i \in Nat
        OBVIOUS
      <4>1. n \in Nat /\ o \in [1..n -> S]
        BY <1>1
      <4>2. o[i] \in S
        BY <4>1
      <4>3. o[i] \in Nat
        BY <4>2
      <4>4. QED
        BY <4>1, <4>3
    <3>2. QED
      BY <1>1, <3>1
  <2>2. o \in Injection(1..n, S) /\ o \in Surjection(1..n, S)
    BY <1>1, <2>1 DEF Injection, Surjection, IsInjective
  <2>3. QED
    BY <2>2 DEF Listings, Bijection, n
<1>6. \A x \in S : Below(s, x) = Below(o, x) /\ UpTo(s, x) = UpTo(o, x)
  <2> SUFFICES ASSUME NEW x \in S
               PROVE  Below(s, x) = Below(o, x) /\ UpTo(s, x) = UpTo(o, x)
    OBVIOUS
  <2> HIDE DEF o
  <2>1. x \in Nat
    OBVIOUS
  <2>2. Below(s, x) = Cardinality({y \in S : y < x}) /\ UpTo(s, x) = Cardinality({y \in S : y <= x})
    BY <2>1, CountListed
  <2>3. Below(o, x) = Cardinality({y \in S : y < x}) /\ UpTo(o, x) = Cardinality({y \in S : y <= x})
    BY <1>5, <2>1, CountListed
  <2>4. QED
    BY <2>2, <2>3
<1> HIDE DEF o, n
<1>7. \A k \in 1..n : Below(o, o[k]) = k - 1 /\ UpTo(o, o[k]) = k
  <2> SUFFICES ASSUME NEW k \in 1..n
               PROVE  Below(o, o[k]) = k - 1 /\ UpTo(o, o[k]) = k
    OBVIOUS
  <2>1. o \in Seq(S) /\ Rises(o) /\ k \in DOMAIN o
    BY <1>1, <1>2 DEF Enumerates
  <2>2. QED
    BY <2>1, RisingCounts
<1> HIDE DEF Below, UpTo
<1>8. \A i, k \in 1..n : Fitting(o[k], i) <=> k = i
  <2> SUFFICES ASSUME NEW i \in 1..n, NEW k \in 1..n
               PROVE  Fitting(o[k], i) <=> k = i
    OBVIOUS
  <2>1. o[k] \in S /\ i \in Nat /\ k \in Nat
    BY <1>1
  <2>2. Below(s, o[k]) = k - 1 /\ UpTo(s, o[k]) = k
    BY <1>6, <1>7, <2>1
  <2>3. QED
    BY <2>1, <2>2
<1> HIDE DEF Fitting
<1>9. ASSUME NEW i \in 1..n
      PROVE  (CHOOSE x \in S : Fitting(x, i)) = o[i]
  <2>1. o[i] \in S /\ Fitting(o[i], i)
    BY <1>1, <1>8
  <2>2. \A x \in S : Fitting(x, i) => x = o[i]
    BY <1>1, <1>8
  <2>3. QED
    BY <2>1, <2>2
<1>10. o = [i \in 1..n |-> o[i]]
  BY <1>1
<1>11. QED
  BY <1>3, <1>4, <1>9, <1>10 DEF o

\* One by one, they are put together.
LEMMA FlattenSingles ==
  ASSUME NEW n \in Nat \ {0}, NEW T, NEW o \in [1..n -> T], NEW s, s = [i \in 1..n |-> <<o[i]>>]
  PROVE  FlattenSeq(s) = o
<1> DEFINE g == [i \in 1..n |-> [j \in 1..i |-> o[j]]]
           Flat(f) == f = [i \in 1..Len(s) |-> IF i = 1 THEN s[i] ELSE f[i - 1] \o s[i]]
<1>1. Len(s) = n /\ DOMAIN s = 1..n /\ \A i \in 1..n : s[i] = <<o[i]>>
  <2>1. s \in [1..n -> {<<o[i]>> : i \in 1..n}] /\ \A i \in 1..n : s[i] = <<o[i]>>
    OBVIOUS
  <2>2. QED
    BY <2>1, SeqFrom
<1>2. ASSUME NEW i \in 1..n
      PROVE  /\ i = 1 => g[i] = s[i]
             /\ i # 1 => g[i] = g[i - 1] \o s[i]
  <2>1. \A k \in 1..n : g[k] \in Seq(T) /\ Len(g[k]) = k /\ \A j \in 1..k : g[k][j] = o[j]
    <3>1. ASSUME NEW k \in 1..n
          PROVE  [j \in 1..k |-> o[j]] \in Seq(T) /\ Len([j \in 1..k |-> o[j]]) = k
      <4>1. [j \in 1..k |-> o[j]] \in [1..k -> T]
        OBVIOUS
      <4>2. QED
        BY <4>1, SeqFrom
    <3>2. QED
      BY <3>1
  <2>2. s[i] \in Seq(T) /\ Len(s[i]) = 1 /\ s[i][1] = o[i]
    BY <1>1
  <2>3. CASE i = 1
    BY <2>1, <2>2, <2>3
  <2>4. CASE i # 1
    <3>1. i - 1 \in 1..n /\ i \in Nat
      BY <2>4
    <3> DEFINE a == g[i - 1]
               b == s[i]
               c == g[i]
    <3>2. /\ a \in Seq(T) /\ Len(a) = i - 1 /\ \A j \in 1..(i - 1) : a[j] = o[j]
          /\ b \in Seq(T) /\ Len(b) = 1 /\ b[1] = o[i]
          /\ c \in Seq(T) /\ Len(c) = i /\ \A j \in 1..i : c[j] = o[j]
      BY <2>1, <2>2, <3>1
    <3> HIDE DEF a, b, c
    <3> DEFINE d == a \o b
    <3>3. /\ d \in Seq(T) /\ Len(d) = i
          /\ \A j \in 1..i : d[j] = IF j <= i - 1 THEN a[j] ELSE b[j - (i - 1)]
      <4>1. /\ d \in Seq(T) /\ Len(d) = Len(a) + Len(b)
            /\ \A j \in 1..(Len(a) + Len(b)) : d[j] = IF j <= Len(a) THEN a[j] ELSE b[j - Len(a)]
        BY <3>2, ConcatProperties
      <4>2. Len(a) + Len(b) = i
        BY <3>1, <3>2
      <4>3. QED
        BY <3>2, <4>1, <4>2
    <3> HIDE DEF d
    <3>4. \A j \in 1..i : d[j] = c[j]
      <4>1. ASSUME NEW j \in 1..i
            PROVE  d[j] = c[j]
        <5>1. CASE j <= i - 1
          <6>1. j \in 1..(i - 1)
            BY <3>1, <5>1
          <6>2. a[j] = o[j] /\ c[j] = o[j] /\ d[j] = a[j]
            BY <3>2, <3>3, <5>1, <6>1
          <6>3. QED
            BY <6>2
        <5>2. CASE ~(j <= i - 1)
          <6>1. j = i /\ j - (i - 1) = 1
            BY <3>1, <5>2
          <6>2. QED
            BY <3>2, <3>3, <5>2, <6>1
        <5>3. QED
          BY <5>1, <5>2
      <4>2. QED
        BY <4>1
    <3>5. c = d
      BY <3>2, <3>3, <3>4, SeqEqual
    <3>6. QED
      BY <2>4, <3>5 DEF a, b, c, d
  <2>5. QED
    BY <2>3, <2>4
<1>3. Flat(g)
  <2> DEFINE R(f, i) == IF i = 1 THEN s[i] ELSE f[i - 1] \o s[i]
  <2>1. \A i \in 1..n : g[i] = R(g, i)
    BY <1>2
  <2>2. g = [i \in 1..n |-> g[i]]
    OBVIOUS
  <2> HIDE DEF g, R
  <2>3. g = [i \in 1..n |-> R(g, i)]
    BY <2>1, <2>2
  <2>4. QED
    BY <1>1, <2>3 DEF R
<1>4. FlattenSeq(s) = (CHOOSE f : Flat(f))[n]
  <2>1. FlattenSeq(s) = IF Len(s) = 0 THEN s ELSE (CHOOSE f : Flat(f))[Len(s)]
    BY DEF FlattenSeq
  <2>2. QED
    BY <1>1, <2>1
<1> DEFINE h == CHOOSE f : Flat(f)
<1> HIDE DEF g
<1>5. \E f : Flat(f)
  <2> HIDE DEF Flat
  <2>1. QED
    BY <1>3
<1>6. Flat(h)
  <2> HIDE DEF Flat
  <2>1. QED
    BY <1>5
<1> HIDE DEF h
<1>7. \A i \in 1..n : h[i] = IF i = 1 THEN s[i] ELSE h[i - 1] \o s[i]
  BY <1>1, <1>6
<1>8. \A i \in 1..n : h[i] = g[i]
  <2> DEFINE B == {i \in 1..n : h[i] # g[i]}
  <2> SUFFICES ASSUME B # {}
               PROVE  FALSE
    OBVIOUS
  <2>1. B \in SUBSET Nat
    OBVIOUS
  <2>2. PICK i \in B : \A j \in B : i <= j
    BY <2>1, Least
  <2>3. i \in 1..n /\ h[i] # g[i] /\ (i # 1 => i - 1 \in 1..n /\ i - 1 \notin B)
    BY <2>2
  <2>4. i # 1 => h[i - 1] = g[i - 1]
    BY <2>3
  <2> HIDE DEF B
  <2>5. CASE i = 1
    BY <1>2, <1>7, <2>3, <2>5
  <2>6. CASE i # 1
    <3>1. g[i] = g[i - 1] \o s[i]
      BY <1>2, <2>3, <2>6
    <3>2. h[i] = h[i - 1] \o s[i]
      BY <1>7, <2>3, <2>6
    <3>3. QED
      BY <2>3, <2>4, <2>6, <3>1, <3>2
  <2>7. QED
    BY <2>5, <2>6
<1>9. g[n] = o
  <2>1. n \in 1..n /\ o = [j \in 1..n |-> o[j]]
    OBVIOUS
  <2>2. g[n] = [j \in 1..n |-> o[j]]
    BY <2>1 DEF g
  <2>3. QED
    BY <2>1, <2>2
<1>10. QED
  <2>1. n \in 1..n /\ FlattenSeq(s) = h[n]
    BY <1>4 DEF h
  <2>2. QED
    BY <1>8, <1>9, <2>1

-----------------------------------------------------------------------------
(* INBOX and its numbering are in the order of the UIDs.                   *)

\* Every message of the numbering has a UID below u; none has the UID u.
Above(t, u) == \A k \in DOMAIN t : t[k].uid < u
Unnumbered(t, u) == \A k \in DOMAIN t : t[k].uid # u

\* UIDs are given upwards, and what has no number yet is above all that has.
Ranked(b, t, n) ==
  /\ Rises(b)
  /\ \A i, j \in DOMAIN t : i < j => t[i].uid < t[j].uid
  /\ Above(t, n)
  /\ \A u \in ToSet(b) : Unnumbered(t, u) => Above(t, u)

\* What InBox keeps is in the same order,
LEMMA InBoxRises ==
  ASSUME Boxed, Rises(box), NEW U
  PROVE  Rises(InBox(U))
<1> DEFINE S == {i \in DOMAIN box : box[i] \in U}
           a == At(box, S)
           o == Ordered(S)
           n == Cardinality(S)
<1>1. box \in Seq(Uids) /\ S \in SUBSET DOMAIN box
  BY DEF Boxed
<1>2. /\ DOMAIN a = 1..n
      /\ \A i \in 1..n : o[i] \in S /\ a[i] = box[o[i]]
      /\ \A i, j \in 1..n : i < j => o[i] < o[j]
  <2> HIDE DEF S
  <2>1. QED
    BY <1>1, AtFacts
<1>3. InBox(U) = a
  BY DEF InBox
<1> HIDE DEF S, a, o, n
<1>4. \A i \in 1..n : o[i] \in DOMAIN box
  BY <1>1, <1>2
<1>5. QED
  BY <1>2, <1>3, <1>4 DEF Rises

\* and so is what is left of the numbering, with every number but those of S.
LEMMA WithoutRises ==
  ASSUME Numbered, \A i, j \in DOMAIN told : i < j => told[i].uid < told[j].uid, NEW S
  PROVE  /\ \A i, j \in DOMAIN Without(S) : i < j => Without(S)[i].uid < Without(S)[j].uid
         /\ \A k \in DOMAIN Without(S) : \E p \in DOMAIN told : Without(S)[k] = told[p]
         /\ \A p \in DOMAIN told \ S : \E k \in DOMAIN Without(S) : Without(S)[k] = told[p]
<1> DEFINE R == DOMAIN told \ S
           a == At(told, R)
           o == Ordered(R)
           n == Cardinality(R)
<1>1. told \in Seq(Entry) /\ R \in SUBSET DOMAIN told
  BY DEF Numbered
<1>2. /\ DOMAIN a = 1..n
      /\ \A i \in 1..n : o[i] \in R /\ a[i] = told[o[i]]
      /\ \A i, j \in 1..n : i < j => o[i] < o[j]
      /\ \A p \in R : \E i \in 1..n : o[i] = p
  <2> HIDE DEF R
  <2>1. QED
    BY <1>1, AtFacts
<1>3. Without(S) = a
  BY DEF Without
<1>4. \A p \in R : p \in DOMAIN told
  OBVIOUS
<1>5. \A p \in DOMAIN told \ S : p \in R
  OBVIOUS
<1> HIDE DEF R, a, o, n
<1>6. \A i, j \in 1..n : i < j => a[i].uid < a[j].uid
  BY <1>2, <1>4
<1>7. \A p \in DOMAIN told \ S : \E k \in 1..n : a[k] = told[p]
  <2>1. ASSUME NEW p \in R
        PROVE  \E k \in 1..n : a[k] = told[p]
    <3>1. PICK i \in 1..n : o[i] = p
      BY <1>2
    <3>2. QED
      BY <1>2, <3>1
  <2>2. QED
    BY <1>5, <2>1
<1>8. QED
  BY <1>2, <1>3, <1>4, <1>6, <1>7

\* Messages go, and expunges of messages that are gone are announced.
LEMMA RankedLess ==
  ASSUME NEW b, NEW t, NEW n, Ranked(b, t, n), NEW c, NEW v,
         Rises(c), ToSet(c) \subseteq ToSet(b),
         \A i, j \in DOMAIN v : i < j => v[i].uid < v[j].uid,
         \A k \in DOMAIN v : \E p \in DOMAIN t : v[k] = t[p],
         \A u \in ToSet(c) : Unnumbered(v, u) => Unnumbered(t, u)
  PROVE  Ranked(c, v, n)
<1>1. ASSUME NEW u, Above(t, u)
      PROVE  Above(v, u)
  BY <1>1 DEF Above
<1>2. QED
  BY <1>1 DEF Ranked

\* The order does not depend on the flags of the entries.
LEMMA RankedSame ==
  ASSUME NEW b, NEW t, NEW n, Ranked(b, t, n), NEW v, DOMAIN v = DOMAIN t,
         \A k \in DOMAIN t : v[k].uid = t[k].uid
  PROVE  Ranked(b, v, n)
<1>1. ASSUME NEW u
      PROVE  (Above(t, u) <=> Above(v, u)) /\ (Unnumbered(t, u) <=> Unnumbered(v, u))
  BY DEF Above, Unnumbered
<1>2. QED
  BY <1>1 DEF Ranked

\* What an EXPUNGE leaves of INBOX and of its numbering is in order.
LEMMA RankedExpunge ==
  ASSUME Boxed, Numbered, Ranked(box, told, nextUid), NEW c, NEW S,
         Rises(c), ToSet(c) \subseteq ToSet(box),
         \A p \in S \cap DOMAIN told : told[p].uid \notin ToSet(c)
  PROVE  Ranked(c, Without(S), nextUid)
<1>1. \A i, j \in DOMAIN told : i < j => told[i].uid < told[j].uid
  BY DEF Ranked
<1>2. /\ \A i, j \in DOMAIN Without(S) : i < j => Without(S)[i].uid < Without(S)[j].uid
      /\ \A k \in DOMAIN Without(S) : \E p \in DOMAIN told : Without(S)[k] = told[p]
      /\ \A p \in DOMAIN told \ S : \E k \in DOMAIN Without(S) : Without(S)[k] = told[p]
  BY <1>1, WithoutRises
<1>3. ASSUME NEW u \in ToSet(c), Unnumbered(Without(S), u)
      PROVE  Unnumbered(told, u)
  BY <1>2, <1>3 DEF Unnumbered
<1>4. QED
  BY <1>2, <1>3, RankedLess

\* A message comes.
LEMMA RankedAppend ==
  ASSUME Boxed, Numbered, Ranked(box, told, nextUid), nextUid \in Uids
  PROVE  Ranked(Append(box, nextUid), told, nextUid + 1)
<1> DEFINE c == Append(box, nextUid)
<1>1. /\ box \in Seq(Uids) /\ DOMAIN box = 1..Len(box) /\ Len(box) \in Nat
      /\ \A i \in DOMAIN box : box[i] \in Nat /\ box[i] < nextUid
  <2>1. box \in Seq(Uids)
    BY DEF Boxed
  <2>2. DOMAIN box = 1..Len(box) /\ Len(box) \in Nat /\ \A i \in 1..Len(box) : box[i] \in Uids
    BY <2>1, LenProperties, ElementOfSeq
  <2>3. \A i \in DOMAIN box : box[i] < nextUid
    BY DEF Boxed, ToSet
  <2>4. QED
    BY <2>1, <2>2, <2>3, BoundNat
<1>2. /\ c \in Seq(Uids) /\ DOMAIN c = 1..(Len(box) + 1)
      /\ \A i \in 1..Len(box) : c[i] = box[i]
      /\ c[Len(box) + 1] = nextUid
  BY <1>1, AppendProperties
<1> HIDE DEF c
<1>3. nextUid \in Nat
  BY BoundNat
<1>4. Rises(c)
  <2>1. ASSUME NEW i \in DOMAIN c, NEW j \in DOMAIN c, i < j
        PROVE  c[i] < c[j]
    <3>1. i \in DOMAIN box /\ (j \in DOMAIN box \/ j = Len(box) + 1)
      BY <1>1, <1>2, <2>1
    <3>2. CASE j \in DOMAIN box
      BY <1>1, <1>2, <2>1, <3>1, <3>2 DEF Ranked, Rises
    <3>3. CASE j = Len(box) + 1
      BY <1>1, <1>2, <3>1, <3>3
    <3>4. QED
      BY <3>1, <3>2, <3>3
  <2>2. QED
    BY <2>1 DEF Rises
<1>5. Above(told, nextUid) /\ Above(told, nextUid + 1)
  <2>1. Above(told, nextUid)
    BY DEF Ranked
  <2>2. \A k \in DOMAIN told : told[k].uid \in Nat
    BY ToldFacts, BoundNat
  <2>3. QED
    BY <1>3, <2>1, <2>2 DEF Above
<1>6. ASSUME NEW i \in DOMAIN c, Unnumbered(told, c[i])
      PROVE  Above(told, c[i])
  <2>1. CASE i \in DOMAIN box
    BY <1>1, <1>2, <1>6, <2>1 DEF Ranked, ToSet
  <2>2. CASE i = Len(box) + 1
    BY <1>2, <1>5, <2>2
  <2>3. QED
    BY <1>1, <1>2, <2>1, <2>2
<1>7. QED
  BY <1>4, <1>5, <1>6 DEF Ranked, ToSet, c

\* The mailbox is selected.
LEMMA RankedListed ==
  ASSUME Boxed, Rises(box)
  PROVE  Ranked(box, Listed, nextUid)
<1>1. DOMAIN Listed = DOMAIN box /\ \A k \in DOMAIN box : Listed[k].uid = box[k]
  BY ListedFacts
<1>2. \A i, j \in DOMAIN Listed : i < j => Listed[i].uid < Listed[j].uid
  BY <1>1 DEF Rises
<1>3. Above(Listed, nextUid)
  BY <1>1 DEF Above, Boxed, ToSet
<1>4. \A u \in ToSet(box) : ~Unnumbered(Listed, u)
  BY <1>1 DEF Unnumbered, ToSet
<1>5. QED
  BY <1>2, <1>3, <1>4 DEF Ranked

\* A session that selected nothing numbers nothing.
LEMMA RankedNone ==
  ASSUME NEW b, NEW n, Rises(b)
  PROVE  Ranked(b, <<>>, n)
<1> DEFINE e == <<>>
<1>1. DOMAIN e = {}
  OBVIOUS
<1> HIDE DEF e
<1>2. Ranked(b, e, n)
  BY <1>1 DEF Ranked, Above
<1>3. QED
  BY <1>2 DEF e

\* New messages are announced.
LEMMA RankedNews ==
  ASSUME Boxed, Numbered, Ranked(box, told, nextUid)
  PROVE  Ranked(box, told \o News, nextUid)
<1> DEFINE v == told \o News
           n == Len(told)
           m == Len(Fresh)
<1>1. /\ told \in Seq(Entry) /\ n \in Nat /\ DOMAIN told = 1..n
      /\ \A k \in DOMAIN told : told[k].uid \in Nat
  BY ToldFacts, BoundNat DEF Numbered
<1>2. /\ News \in Seq(Entry) /\ Len(News) = m /\ m \in Nat
      /\ \A i \in 1..m : News[i].uid = Fresh[i] /\ Fresh[i] \in ToSet(Fresh)
      /\ ToSet(Fresh) = {u \in ToSet(box) : \A k \in DOMAIN told : told[k].uid # u}
      /\ Fresh \in Seq(Uids)
  BY NewsFacts
<1>3. DOMAIN Fresh = 1..m /\ Rises(Fresh)
  BY <1>2, LenProperties, InBoxRises DEF Fresh, Ranked
<1>4. /\ v \in Seq(Entry) /\ Len(v) = Len(told) + Len(News)
      /\ \A k \in 1..Len(told) + Len(News) :
           v[k] = IF k <= Len(told) THEN told[k] ELSE News[k - Len(told)]
  <2>1. told \in Seq(Entry) /\ News \in Seq(Entry)
    BY <1>1, <1>2
  <2>2. QED
    BY <2>1, ConcatProperties
<1>5. DOMAIN v = 1..(n + m)
  BY <1>2, <1>4, LenProperties
<1>6. \A k \in DOMAIN told : k \in DOMAIN v /\ v[k] = told[k]
  <2> HIDE DEF v
  <2>1. QED
    BY <1>1, <1>2, <1>4, <1>5
<1>7. ASSUME NEW k \in DOMAIN v, k \notin DOMAIN told
      PROVE  k - n \in 1..m /\ v[k].uid = Fresh[k - n]
  <2> HIDE DEF v
  <2>1. k \in 1..Len(told) + Len(News) /\ ~(k <= Len(told)) /\ k - n \in 1..m
    BY <1>1, <1>2, <1>5, <1>7
  <2>2. v[k] = News[k - n]
    BY <1>4, <2>1
  <2>3. QED
    BY <1>2, <2>1, <2>2
<1>8. \A i \in 1..m : Fresh[i] \in ToSet(box) /\ Unnumbered(told, Fresh[i]) /\ Above(told, Fresh[i])
  <2>1. \A i \in 1..m : Fresh[i] \in ToSet(box) /\ Unnumbered(told, Fresh[i])
    BY <1>2 DEF Unnumbered
  <2>2. QED
    BY <2>1 DEF Ranked
<1> HIDE DEF v, n, m
<1>9. ASSUME NEW i \in DOMAIN v, NEW j \in DOMAIN v, i < j
      PROVE  v[i].uid < v[j].uid
  <2>1. CASE i \in DOMAIN told /\ j \in DOMAIN told
    BY <1>6, <1>9, <2>1 DEF Ranked
  <2>2. CASE i \in DOMAIN told /\ j \notin DOMAIN told
    BY <1>6, <1>7, <1>8, <2>2 DEF Above
  <2>3. CASE i \notin DOMAIN told
    <3>1. j \notin DOMAIN told
      BY <1>1, <1>2, <1>5, <1>9, <2>3
    <3>2. i - n < j - n
      BY <1>1, <1>2, <1>5, <1>9
    <3>3. QED
      BY <1>3, <1>7, <2>3, <3>1, <3>2 DEF Rises
  <2>4. QED
    BY <2>1, <2>2, <2>3
<1>10. Above(v, nextUid)
  <2>1. ASSUME NEW k \in DOMAIN v
        PROVE  v[k].uid < nextUid
    <3>1. CASE k \in DOMAIN told
      BY <1>6, <3>1 DEF Ranked, Above
    <3>2. CASE k \notin DOMAIN told
      BY <1>7, <1>8, <3>2 DEF Boxed
    <3>3. QED
      BY <3>1, <3>2
  <2>2. QED
    BY <2>1 DEF Above
<1>11. ASSUME NEW u \in ToSet(box)
       PROVE  ~Unnumbered(v, u)
  <2>1. CASE Unnumbered(told, u)
    <3>1. u \in ToSet(Fresh)
      BY <1>2, <2>1 DEF Unnumbered
    <3>2. PICK i \in 1..m : Fresh[i] = u
      BY <1>3, <3>1 DEF ToSet
    <3>3. n + i \in DOMAIN v /\ n + i \notin DOMAIN told /\ (n + i) - n = i
      BY <1>1, <1>2, <1>5
    <3>4. v[n + i].uid = u
      BY <1>7, <3>2, <3>3
    <3>5. QED
      BY <3>3, <3>4 DEF Unnumbered
  <2>2. CASE ~Unnumbered(told, u)
    BY <1>6, <2>2 DEF Unnumbered
  <2>3. QED
    BY <2>1, <2>2
<1>12. Ranked(box, v, nextUid)
  BY <1>9, <1>10, <1>11 DEF Ranked
<1>13. QED
  BY <1>12 DEF v

\* INBOX and its numbering are in the order of the UIDs, at any time.
RankedNow == Ranked(box, told, nextUid)

\* Each step of the server keeps the order: it announces, adds or takes away,
LEMMA RankedServer ==
  ASSUME OInv, Stays, RankedNow, Server
  PROVE  RankedNow'
<1> USE DEF RankedNow, Stays
<1>1. CASE UNCHANGED <<boxVars, sesVars>>
  BY <1>1 DEF boxVars, sesVars
<1>2. ASSUME UNCHANGED <<box, nextUid>>, NEW S, told' = Sync(S)
      PROVE  RankedNow'
  <2>1. Sync(S) \in [DOMAIN told -> Entry] /\ \A k \in DOMAIN told : Sync(S)[k].uid = told[k].uid
    BY SyncFacts
  <2>2. DOMAIN Sync(S) = DOMAIN told
    BY <2>1
  <2>3. Ranked(box, Sync(S), nextUid)
    BY <2>1, <2>2, RankedSame
  <2>4. QED
    BY <1>2, <2>3
<1>3. Rises(box) /\ \A U : Rises(InBox(U)) /\ ToSet(InBox(U)) = ToSet(box) \cap U
  BY InBoxRises, InBoxFacts DEF Ranked
<1>4. CASE SrvLeave
  <2>1. told' = <<>> /\ nextUid' = nextUid /\ \/ box' = box
                                               \/ box' = InBox({u \in Uids : ~deleted[u]})
    BY <1>4 DEF SrvLeave, boxVars
  <2>2. Rises(box')
    BY <1>3, <2>1
  <2>3. QED
    BY <2>1, <2>2, RankedNone
<1>5. CASE SrvSelect
  <2>1. told' = Listed /\ UNCHANGED <<box, nextUid>>
    BY <1>5 DEF SrvSelect, boxVars
  <2>2. QED
    BY <1>3, <2>1, RankedListed
<1>6. CASE SrvFetch
  <2>1. UNCHANGED <<box, nextUid>> /\ (told' = told \/ told' = Sync(Targets))
    BY <1>6 DEF SrvFetch, boxVars
  <2>2. QED
    BY <1>2, <2>1
<1>7. CASE SrvStore
  <2> DEFINE n == [k \in DOMAIN told |-> IF k \in Targets
                                         THEN [told[k] EXCEPT !.deleted = req.flag]
                                         ELSE told[k]]
  <2>1. UNCHANGED <<box, nextUid>> /\ told' = n
    BY <1>7 DEF SrvStore
  <2>2. DOMAIN n = DOMAIN told /\ \A k \in DOMAIN told : n[k].uid = told[k].uid
    BY ToldFacts DEF Entry
  <2> HIDE DEF n
  <2>3. Ranked(box, n, nextUid)
    BY <2>2, RankedSame
  <2>4. QED
    BY <2>1, <2>3
<1>8. CASE SrvExpunge
  <2> DEFINE S == {k \in DOMAIN told : ~Gone(k) /\ deleted[told[k].uid] /\ told[k].uid \in req.set}
             lost == {k \in DOMAIN told : Gone(k)}
             U == Uids \ {told[k].uid : k \in S}
  <2>1. box' = InBox(U) /\ told' = Without(S \cup lost) /\ nextUid' = nextUid
    BY <1>8 DEF SrvExpunge
  <2>2. \A p \in lost : told[p].uid \notin ToSet(box)
    BY DEF Gone
  <2>3. \A p \in S : told[p].uid \notin U
    OBVIOUS
  <2> HIDE DEF S, lost, U
  <2>4. Ranked(InBox(U), Without(S \cup lost), nextUid)
    <3>1. Rises(InBox(U)) /\ ToSet(InBox(U)) = ToSet(box) \cap U
      BY <1>3
    <3>2. \A p \in (S \cup lost) \cap DOMAIN told : told[p].uid \notin ToSet(InBox(U))
      BY <2>2, <2>3, <3>1
    <3>3. QED
      BY <3>1, <3>2, RankedExpunge
  <2>5. QED
    BY <2>1, <2>4
<1>9. CASE SrvMove
  <2> DEFINE a == UidsOf(Targets)
             U == Uids \ ToSet(a)
  <2>1. box' = InBox(U) /\ told' = Without(Targets) /\ nextUid' = nextUid
    <3>1. PICK s \in CopyOrders : box' = InBox(Uids \ ToSet(s))
      BY <1>9 DEF SrvMove
    <3>2. ToSet(s) = ToSet(a)
      BY CopyOrdersFacts, ListingFacts
    <3>3. QED
      BY <1>9, <3>1, <3>2 DEF SrvMove
  <2>2. \A p \in Targets : told[p].uid \in ToSet(a)
    <3>1. Targets \in SUBSET DOMAIN told /\ told \in Seq(Entry)
      BY DEF Targets, Numbered
    <3> DEFINE n == Cardinality(Targets)
               o == Ordered(Targets)
               t == At(told, Targets)
    <3>2. /\ \A i \in 1..n : t[i] = told[o[i]]
          /\ \A p \in Targets : \E i \in 1..n : o[i] = p
      BY <3>1, AtFacts
    <3>3. a = [i \in 1..n |-> t[i].uid]
      BY DEF UidsOf
    <3> HIDE DEF n, o, t, a
    <3>4. ASSUME NEW p \in Targets
          PROVE  \E i \in DOMAIN a : a[i] = told[p].uid
      <4>1. PICK i \in 1..n : o[i] = p
        BY <3>2
      <4>2. QED
        BY <3>2, <3>3, <4>1
    <3>5. QED
      BY <3>4 DEF ToSet
  <2> HIDE DEF a
  <2>3. \A p \in Targets : told[p].uid \notin U
    BY <2>2
  <2> HIDE DEF U
  <2>4. Ranked(InBox(U), Without(Targets), nextUid)
    <3>1. Rises(InBox(U)) /\ ToSet(InBox(U)) = ToSet(box) \cap U
      BY <1>3
    <3>2. \A p \in Targets \cap DOMAIN told : told[p].uid \notin ToSet(InBox(U))
      BY <2>3, <3>1
    <3>3. QED
      BY <3>1, <3>2, RankedExpunge
  <2>5. QED
    BY <2>1, <2>4
<1>10. CASE SrvAppend
  BY <1>10, RankedAppend DEF SrvAppend, sesVars
<1>11. CASE SrvRefuse
  <2>1. UNCHANGED boxVars /\ (told' = <<>> \/ UNCHANGED sesVars)
    BY <1>11 DEF SrvRefuse, SrvTagged
  <2>2. QED
    BY <1>3, <2>1, RankedNone DEF boxVars, sesVars
<1>12. CASE TellExpunge
  <2>1. PICK k \in DOMAIN told : Gone(k) /\ told' = Without({k}) /\ UNCHANGED <<box, nextUid>>
    BY <1>12 DEF TellExpunge, Announces, boxVars
  <2>2. Ranked(box, Without({k}), nextUid)
    <3>1. \A p \in {k} \cap DOMAIN told : told[p].uid \notin ToSet(box)
      BY <2>1 DEF Gone
    <3>2. QED
      BY <1>3, <3>1, RankedExpunge
  <2>3. QED
    BY <2>1, <2>2
<1>13. CASE TellExists
  <2>1. told' = told \o News /\ UNCHANGED <<box, nextUid>>
    BY <1>13 DEF TellExists, News, Fresh, Announces, boxVars
  <2>2. QED
    BY <2>1, RankedNews
<1>14. CASE TellFlags
  <2>1. \E k \in DOMAIN told : told' = Sync({k}) /\ UNCHANGED <<box, nextUid>>
    BY <1>14 DEF TellFlags, Announces, boxVars
  <2>2. QED
    BY <1>2, <2>1
<1>15. CASE SrvPlain \/ SrvLogout \/ SrvSearch \/ SrvContinue \/ SrvBye \/ SrvRaw
  BY <1>1, <1>15 DEF SrvPlain, SrvLogout, SrvSearch, SrvContinue, SrvBye, SrvRaw, srvVars
<1>16. CASE SrvNames \/ SrvCopy \/ SrvOk
  BY <1>1, <1>16 DEF SrvNames, SrvCopy, SrvOk, SrvTagged
<1>17. QED
  BY <1>4, <1>5, <1>6, <1>7, <1>8, <1>9, <1>10, <1>11, <1>12, <1>13, <1>14, <1>15, <1>16 DEF Server

\* as do the other clients; and this one leaves the server alone.
LEMMA RankedSteps ==
  ASSUME OInv, Stays, RankedNow, Next
  PROVE  RankedNow'
<1> USE DEF RankedNow, Stays
<1>1. CASE UNCHANGED srvVars
  BY <1>1 DEF srvVars, boxVars, sesVars
<1>2. CASE OtherExpunge
  <2>1. PICK U : box' = InBox(U) /\ UNCHANGED <<told, nextUid>>
    BY <1>2 DEF OtherExpunge, Changes, sesVars
  <2>2. Rises(InBox(U)) /\ ToSet(InBox(U)) \subseteq ToSet(box)
    BY InBoxRises, InBoxFacts DEF Ranked
  <2>3. Ranked(InBox(U), told, nextUid)
    BY <2>2 DEF Ranked
  <2>4. QED
    BY <2>1, <2>3
<1>3. CASE OtherStore
  BY <1>3 DEF OtherStore, Changes, sesVars
<1>4. CASE OtherDeliver
  BY <1>4, RankedAppend DEF OtherDeliver, Changes, sesVars
<1>5. CASE SessionCommands \/ MailboxCommands \/ MessageCommands \/ ReadEof
  BY <1>1, <1>5, ClientSteps, ClientKeeps
<1>6. QED
  BY <1>2, <1>3, <1>4, <1>5, RankedServer DEF Next

\* It is so at the start.
LEMMA RankedInit == Init => RankedNow
<1> SUFFICES ASSUME Init
             PROVE  RankedNow
  OBVIOUS
<1>1. Known \in SUBSET Nat /\ IsFiniteSet(Known)
  <2>1. IsFiniteSet(Uids)
    BY BoundNat, FS_Interval
  <2>2. QED
    BY <2>1, BoundNat, FS_Subset
<1>2. Rises(Ordered(Known))
  BY <1>1, OrderedEnumerates DEF Enumerates
<1>3. box = Ordered(Known) /\ told = Listed
  BY DEF Init
<1>4. Rises(box)
  BY <1>2, <1>3
<1>5. Boxed
  BY BoxInit
<1>6. Ranked(box, Listed, nextUid)
  BY <1>4, <1>5, RankedListed
<1>7. QED
  BY <1>3, <1>6 DEF RankedNow
-----------------------------------------------------------------------------
(* A UID set is read as the UIDs it denotes, in order.                     *)

\* However the server lists a set of UIDs, it is read as its members in order.
LEMMA ListingRead ==
  ASSUME NEW S \in SUBSET Nat, IsFiniteSet(S), S # {}, NEW o \in Listings(S), NEW w \in Listing(o)
  PROVE  UidSetToVec(w) = Ordered(S)
<1> DEFINE n == Cardinality(S)
           s == [i \in 1..Len(w) |-> Expanded(w[i])]
<1>1. /\ n \in Nat /\ o \in [1..n -> S] /\ DOMAIN o = 1..n /\ ToSet(o) = S
      /\ \A x \in S : \E i \in 1..n : o[i] = x
  BY ListingFacts
<1>3. UidSetToVec(w) = Ascending(FlattenSeq(s))
  BY DEF UidSetToVec
<1>4. Ascending(o) = Ordered(S)
  BY AscendingListed
<1>5. CASE w = [i \in DOMAIN o |-> <<o[i], o[i]>>]
  <2> HIDE DEF n
  <2>1. n # 0 /\ \A i \in 1..n : o[i] \in S /\ o[i] \in Nat
    <3>1. PICK x \in S : TRUE
      OBVIOUS
    <3>2. \E i \in 1..n : TRUE
      BY <1>1, <3>1
    <3>3. n # 0
      BY <3>2
    <3>4. \A i \in 1..n : o[i] \in S
      BY <1>1
    <3>5. QED
      BY <3>3, <3>4
  <2>2. w \in [1..n -> S \X S] /\ \A i \in 1..n : w[i] = <<o[i], o[i]>>
    BY <1>1, <1>5
  <2>3. Len(w) = n
    BY <1>1, <2>2, SeqFrom
  <2>4. ASSUME NEW i \in 1..n
        PROVE  Expanded(w[i]) = <<o[i]>>
    <3> DEFINE x == o[i]
    <3>1. Lower(w[i]) = x /\ Upper(w[i]) = x /\ x \in Nat
      BY <2>1, <2>2 DEF Lower, Upper
    <3>2. Expanded(w[i]) = [j \in 1..(x - x + 1) |-> x + j - 1]
      BY <3>1 DEF Expanded
    <3> HIDE DEF x
    <3>3. 1..(x - x + 1) = 1..1 /\ \A j \in 1..1 : x + j - 1 = x
      BY <3>1
    <3>4. [j \in 1..(x - x + 1) |-> x + j - 1] = [j \in 1..1 |-> x]
      BY <3>3
    <3>5. [j \in 1..1 |-> x] = <<x>>
      OBVIOUS
    <3>6. QED
      BY <3>2, <3>4, <3>5 DEF x
  <2>5. s = [i \in 1..n |-> <<o[i]>>]
    BY <2>3, <2>4
  <2> HIDE DEF s
  <2>6. FlattenSeq(s) = o
    BY <1>1, <2>1, <2>5, FlattenSingles
  <2>7. QED
    BY <1>3, <1>4, <2>6
<1>6. ASSUME NEW e \in S \X S, w = <<e>>, Len(o) = Upper(e) - Lower(e) + 1,
             \A i \in DOMAIN o : o[i] = Lower(e) + i - 1
      PROVE  UidSetToVec(w) = Ordered(S)
  <2>1. Len(w) = 1 /\ w[1] = e
    BY <1>6
  <2>2. s = [i \in 1..1 |-> Expanded(w[i])]
    BY <2>1
  <2>3. s \in [1..1 -> {Expanded(e)}] /\ s[1] = Expanded(e)
    BY <2>1, <2>2
  <2> HIDE DEF s
  <2>4. Len(s) = 1
    BY <2>3, SeqFrom
  <2>5. FlattenSeq(s) = Expanded(e)
    BY <2>3, <2>4, FlattenOne
  <2>6. Expanded(e) = o
    BY <1>6, ListingRange
  <2>7. QED
    BY <1>3, <1>4, <2>5, <2>6
<1>7. QED
  BY <1>1, <1>5, <1>6 DEF Listing

\* The numbers after n.
LEMMA NextNumbers ==
  ASSUME NEW n \in Nat, NEW m \in Nat
  PROVE  Ordered((n + 1)..(n + m)) = [i \in 1..m |-> n + i]
<1> DEFINE S == (n + 1)..(n + m)
           r == [i \in 1..m |-> n + i]
<1>1. S \in SUBSET Nat /\ IsFiniteSet(S)
  BY FS_Interval
<1>2. r \in [1..m -> S] /\ \A i \in 1..m : r[i] = n + i
  OBVIOUS
<1>3. \A x \in S : x - n \in 1..m /\ n + (x - n) = x
  OBVIOUS
<1>4. Enumerates(Ordered(S), S)
  BY <1>1, OrderedEnumerates
<1> HIDE DEF r, S
<1>5. r \in Seq(S) /\ DOMAIN r = 1..m
  BY <1>2, SeqFrom
<1>6. Rises(r)
  BY <1>2, <1>5 DEF Rises
<1>7. \A x \in S : \E i \in DOMAIN r : r[i] = x
  <2>1. ASSUME NEW x \in S
        PROVE  \E i \in DOMAIN r : r[i] = x
    <3>1. x - n \in 1..m /\ r[x - n] = x
      BY <1>2, <1>3
    <3>2. QED
      BY <1>5, <3>1
  <2>2. QED
    BY <2>1
<1>8. r = Ordered(S)
  BY <1>1, <1>4, <1>5, <1>6, <1>7, OneEnumeration DEF Enumerates
<1>9. QED
  BY <1>8 DEF r, S
-----------------------------------------------------------------------------
(* The code of a COPY or a MOVE pairs what was copied with its copies.     *)

\* What CopyPairs says of a value v and the copies k.
MadeIn(v, k) == {c \in ToSet(k) : c.uid \in ToSet(v[3])}
Pairs(v, k) ==
  /\ Len(v[2]) = Len(v[3]) /\ ToSet(v[2]) = {c.source : c \in MadeIn(v, k)}
  /\ (\A c, d \in MadeIn(v, k) : c.uid < d.uid => c.source < d.source) =>
       \A i \in DOMAIN v[2] : [uid |-> v[3][i], source |-> v[2][i]] \in ToSet(k)
\* And of the value read from a code.
Paired(c, k) == \A v \in CopyUidFromCode(c) : Pairs(v, k)

\* A code of another name pairs nothing.
LEMMA SilentPaired ==
  ASSUME NEW k, NEW c, c.name # "COPYUID"
  PROVE  Paired(c, k)
BY DEF Paired, CopyUidFromCode

\* The copies have the UIDs from 1 on.
CopyUids(k) == \A i \in DOMAIN k : k[i].uid = i

\* s names each member of S once, m of them; and s in the order p.
ListsOnce(s, m, S) ==
  /\ s \in [1..m -> S] /\ \A i, j \in 1..m : s[i] = s[j] => i = j
  /\ \A x \in S : \E i \in 1..m : s[i] = x
Via(s, p) == [i \in DOMAIN p |-> s[p[i]]]

\* What is listed in the order of a listing is listed.
LEMMA ListedAgain ==
  ASSUME NEW S, NEW m \in Nat, NEW s, ListsOnce(s, m, S), NEW p \in Listings(1..m)
  PROVE  Via(s, p) \in Listings(S) /\ IsFiniteSet(S) /\ Cardinality(S) = m
<1> DEFINE a == Via(s, p)
<1> USE DEF ListsOnce
<1>1. IsFiniteSet(1..m) /\ Cardinality(1..m) = m
  <2>1. IsFiniteSet(1..m) /\ Cardinality(1..m) = IF 1 > m THEN 0 ELSE m - 1 + 1
    BY FS_Interval
  <2>2. QED
    BY <2>1
<1>2. /\ p \in [1..m -> 1..m] /\ DOMAIN p = 1..m
      /\ \A i, j \in 1..m : p[i] = p[j] => i = j
      /\ \A x \in 1..m : \E i \in 1..m : p[i] = x
  <2> DEFINE R == 1..m
  <2>1. IsFiniteSet(R) /\ p \in Listings(R) /\ Cardinality(R) = m
    BY <1>1
  <2> HIDE DEF R
  <2>2. /\ p \in [1..m -> R] /\ DOMAIN p = 1..m
        /\ \A i, j \in 1..m : p[i] = p[j] => i = j
        /\ \A x \in R : \E i \in 1..m : p[i] = x
    BY <2>1, ListingFacts
  <2>3. QED
    BY <2>2 DEF R
<1>3. s \in Bijection(1..m, S)
  <2>1. s \in Injection(1..m, S)
    BY DEF Injection, IsInjective
  <2>2. s \in Surjection(1..m, S)
    BY DEF Surjection
  <2>3. QED
    BY <2>1, <2>2 DEF Bijection
<1>4. IsFiniteSet(S) /\ Cardinality(S) = m
  <2>1. ExistsBijection(1..m, S)
    BY <1>3 DEF ExistsBijection
  <2>2. QED
    BY <1>1, <2>1, FS_Bijection
<1>5. a \in [1..m -> S] /\ \A i \in 1..m : a[i] = s[p[i]]
  BY <1>2 DEF Via
<1> HIDE DEF a
<1>6. \A i, j \in 1..m : a[i] = a[j] => i = j
  BY <1>2, <1>5
<1>7. \A x \in S : \E i \in 1..m : a[i] = x
  <2>1. ASSUME NEW x \in S
        PROVE  \E i \in 1..m : a[i] = x
    <3>1. PICK j \in 1..m : s[j] = x
      OBVIOUS
    <3>2. PICK i \in 1..m : p[i] = j
      BY <1>2
    <3>3. QED
      BY <1>5, <3>1, <3>2
  <2>2. QED
    BY <2>1
<1>8. a \in Injection(1..m, S) /\ a \in Surjection(1..m, S)
  BY <1>5, <1>6, <1>7 DEF Injection, Surjection, IsInjective
<1>9. QED
  BY <1>4, <1>8 DEF Listings, Bijection, a

\* A code the server may send names what was copied, and pairs what was copied
\* in order.
LEMMA CodesPair ==
  ASSUME Owned, CopyUids(copies), NEW S \in SUBSET Uids, IsFiniteSet(S),
         NEW s \in Listings(S), NEW c \in CopyCodes(s)
  PROVE  Paired(c, Copied(s))
<1> DEFINE n == Len(copies)
           m == Cardinality(S)
           T == (n + 1)..(n + m)
<1>1. n \in Nat /\ copies \in Seq(Copied1) /\ DOMAIN copies = 1..n
  BY LenProperties DEF Owned
<1>2. CASE c = NoCode
  BY <1>2, SilentPaired DEF NoCode
<1>8. /\ m \in Nat /\ s \in [1..m -> S] /\ s \in Seq(S) /\ Len(s) = m /\ DOMAIN s = 1..m
      /\ \A i, j \in 1..m : s[i] = s[j] => i = j
      /\ \A x \in S : \E i \in 1..m : s[i] = x
  BY ListingFacts
<1>9. S \in SUBSET Nat
  BY BoundNat
<1> HIDE DEF m, n
<1>3. ASSUME s # <<>>, c.name = "COPYUID", c.readable, NEW p \in Listings(DOMAIN s),
             c.source \in Listing(Via(s, p)),
             c.destination \in Listing([i \in DOMAIN p |-> n + p[i]])
      PROVE  Paired(c, Copied(s))
  <2> DEFINE o == Ordered(S)
             t == [i \in 1..m |-> n + i]
             f == [i \in 1..m |-> [uid |-> n + i, source |-> s[i]]]
             k == copies \o f
  <2>1. m # 0
    BY <1>3, <1>8, EmptySeq
  <2>2. p \in Listings(1..m) /\ DOMAIN p = 1..m /\ \A i \in 1..m : p[i] \in 1..m
    <3>1. p \in Listings(1..m)
      BY <1>3, <1>8
    <3>2. IsFiniteSet(1..m) /\ Cardinality(1..m) = m
      <4>1. IsFiniteSet(1..m) /\ Cardinality(1..m) = IF 1 > m THEN 0 ELSE m - 1 + 1
        BY <1>8, FS_Interval
      <4>2. QED
        BY <1>8, <4>1
    <3>3. p \in [1..m -> 1..m] /\ DOMAIN p = 1..m
      BY <3>1, <3>2, ListingFacts
    <3>4. QED
      BY <3>1, <3>3
  <2>3. UidSetToVec(c.source) = o
    <3>1. Via(s, p) \in Listings(S)
      <4>1. ListsOnce(s, m, S)
        BY <1>8 DEF ListsOnce
      <4>2. QED
        BY <1>8, <2>2, <4>1, ListedAgain
    <3>2. S # {}
      BY <1>8, <2>1
    <3>3. QED
      BY <1>3, <1>9, <3>1, <3>2, ListingRead
  <2>4. t \in [1..m -> T] /\ \A i \in 1..m : t[i] = n + i
    BY <1>1, <1>8
  <2>5. UidSetToVec(c.destination) = t
    <3>1. \A i, j \in 1..m : t[i] = t[j] => i = j
      BY <1>1, <1>8, <2>4
    <3>2. \A x \in T : \E i \in 1..m : t[i] = x
      <4>1. \A x \in T : x - n \in 1..m /\ n + (x - n) = x
        BY <1>1, <1>8
      <4>2. QED
        BY <2>4, <4>1
    <3>3. [i \in DOMAIN p |-> n + p[i]] = Via(t, p)
      BY <2>2, <2>4 DEF Via
    <3>4. T \in SUBSET Nat /\ T # {}
      <4>1. n \in Nat /\ m \in Nat /\ m # 0
        BY <1>1, <1>8, <2>1
      <4>2. n + 1 \in T
        BY <4>1
      <4>3. QED
        BY <4>1, <4>2
    <3>9. ListsOnce(t, m, T)
      BY <2>4, <3>1, <3>2 DEF ListsOnce
    <3> HIDE DEF T, t
    <3>5. Via(t, p) \in Listings(T) /\ IsFiniteSet(T)
      BY <1>8, <2>2, <3>9, ListedAgain
    <3>6. UidSetToVec(c.destination) = Ordered(T)
      BY <1>3, <3>3, <3>4, <3>5, ListingRead
    <3>7. Ordered(T) = t
      BY <1>1, <1>8, NextNumbers DEF T, t
    <3>8. QED
      BY <3>6, <3>7
  <2>6. /\ o \in [1..m -> S] /\ Enumerates(o, S) /\ \A x \in S : \E i \in 1..m : o[i] = x
    BY <1>9, OrderedFacts, OrderedEnumerates DEF m
  <2>7. f \in [1..m -> Copied1] /\ \A i \in 1..m : f[i] = [uid |-> n + i, source |-> s[i]]
    <3>1. \A i \in 1..m : n + i \in Nat /\ s[i] \in Uids
      BY <1>1, <1>8
    <3>2. \A i \in 1..m : [uid |-> n + i, source |-> s[i]] \in Copied1
      BY <3>1 DEF Copied1
    <3>3. QED
      BY <3>2
  <2>8. Copied(s) = k
    BY <1>8 DEF Copied, n
  <2> HIDE DEF f, t, o, T
  <2>9. /\ f \in Seq(Copied1) /\ Len(f) = m /\ t \in Seq(T) /\ Len(t) = m /\ DOMAIN t = 1..m
        /\ o \in Seq(S) /\ Len(o) = m /\ DOMAIN o = 1..m
    BY <1>8, <2>4, <2>6, <2>7, SeqFrom
  <2>10. /\ k \in Seq(Copied1) /\ Len(k) = n + m
         /\ \A i \in 1..(n + m) : k[i] = IF i <= n THEN copies[i] ELSE f[i - n]
    BY <1>1, <2>9, ConcatProperties DEF n
  <2> HIDE DEF k
  <2>11. DOMAIN k = 1..(n + m)
    BY <2>10, LenProperties
  <2>12. ASSUME NEW i \in 1..m
         PROVE  f[i] \in ToSet(k)
    <3>1. n + i \in 1..(n + m) /\ ~(n + i <= n) /\ (n + i) - n = i
      BY <1>1, <1>8
    <3>2. k[n + i] = f[i]
      BY <2>10, <3>1
    <3>3. QED
      BY <2>11, <3>1, <3>2 DEF ToSet
  <2> DEFINE made == {x \in ToSet(k) : x.uid \in ToSet(t)}
  <2>13. ASSUME NEW x \in made
         PROVE  \E i \in 1..m : x = f[i]
    <3>1. PICK i \in 1..(n + m) : x = k[i]
      BY <2>11 DEF ToSet
    <3>2. PICK j \in 1..m : x.uid = n + j
      BY <2>4, <2>9 DEF ToSet
    <3>3. CASE i <= n
      <4>1. i \in 1..n
        BY <1>1, <3>3
      <4>2. x.uid = i
        BY <1>1, <2>10, <3>1, <3>3, <4>1 DEF CopyUids
      <4>3. QED
        BY <1>1, <1>8, <3>2, <3>3, <4>2
    <3>4. CASE ~(i <= n)
      <4>1. i - n \in 1..m
        BY <1>1, <1>8, <3>4
      <4>2. QED
        BY <2>10, <3>1, <3>4, <4>1
    <3>5. QED
      BY <3>3, <3>4
  <2>14. ASSUME NEW i \in 1..m
         PROVE  f[i] \in made
    <3>1. f[i].uid = t[i] /\ t[i] \in ToSet(t)
      BY <2>4, <2>7, <2>9 DEF ToSet
    <3>2. QED
      BY <2>12, <3>1
  <2> HIDE DEF made
  <2>15. ToSet(o) = {x.source : x \in made}
    <3>1. ToSet(o) = S
      BY <2>6, <2>9 DEF ToSet
    <3>2. ASSUME NEW y \in S
          PROVE  \E x \in made : y = x.source
      <4>1. PICK i \in 1..m : s[i] = y
        BY <1>8
      <4>2. f[i] \in made /\ f[i].source = y
        BY <2>7, <2>14, <4>1
      <4>3. QED
        BY <4>2
    <3>3. ASSUME NEW x \in made
          PROVE  x.source \in S
      <4>1. PICK i \in 1..m : x = f[i]
        BY <2>13
      <4>2. QED
        BY <1>8, <2>7, <4>1
    <3>4. QED
      BY <3>1, <3>2, <3>3
  <2>16. ASSUME \A x, y \in made : x.uid < y.uid => x.source < y.source, NEW i \in 1..m
         PROVE  [uid |-> t[i], source |-> o[i]] \in ToSet(k)
    <3>1. ASSUME NEW a \in 1..m, NEW b \in 1..m, a < b
          PROVE  s[a] < s[b]
      <4>1. /\ f[a] \in made /\ f[b] \in made /\ f[a].uid = n + a /\ f[b].uid = n + b
            /\ f[a].source = s[a] /\ f[b].source = s[b]
        BY <2>7, <2>14
      <4>2. n + a < n + b
        BY <1>1, <3>1
      <4>3. QED
        BY <2>16, <4>1, <4>2
    <3>2. Enumerates(s, S)
      BY <1>8, <3>1 DEF Enumerates, Rises
    <3>3. s = o
      BY <1>9, <2>6, <3>2, OneEnumeration
    <3>4. f[i] = [uid |-> t[i], source |-> o[i]]
      BY <2>4, <2>7, <3>3
    <3>5. QED
      BY <2>12, <3>4
  <2>17. ASSUME NEW x
         PROVE  Pairs(<<x, o, t>>, k)
    <3> DEFINE v == <<x, o, t>>
    <3>1. v[2] = o /\ v[3] = t
      OBVIOUS
    <3> HIDE DEF v
    <3>2. MadeIn(v, k) = made
      BY <3>1 DEF MadeIn, made
    <3>3. Len(v[2]) = Len(v[3]) /\ ToSet(v[2]) = {y.source : y \in MadeIn(v, k)}
      BY <2>9, <2>15, <3>1, <3>2
    <3>4. ASSUME \A y, z \in MadeIn(v, k) : y.uid < z.uid => y.source < z.source, NEW i \in DOMAIN v[2]
          PROVE  [uid |-> v[3][i], source |-> v[2][i]] \in ToSet(k)
      BY <2>9, <2>16, <3>1, <3>2, <3>4
    <3>5. Pairs(v, k)
      BY <3>3, <3>4 DEF Pairs
    <3>6. QED
      BY <3>5 DEF v
  <2>18. CopyUidFromCode(c) = {<<c.validity, o, t>>}
    BY <1>3, <2>3, <2>5 DEF CopyUidFromCode
  <2>19. QED
    BY <2>8, <2>17, <2>18 DEF Paired
<1>4. ASSUME c.name = "COPYUID", ~c.readable
      PROVE  Paired(c, Copied(s))
  BY <1>4 DEF Paired, CopyUidFromCode
<1>5. \/ c = NoCode
      \/ /\ s # <<>> /\ c.name = "COPYUID"
         /\ \E p \in Listings(DOMAIN s) : /\ c.source \in Listing(Via(s, p))
                                          /\ c.destination \in Listing([i \in DOMAIN p |-> n + p[i]])
  <2> DEFINE Coded(p) ==
               [name : {"COPYUID"}, readable : BOOLEAN, validity : {0, 1},
                source : Listing([i \in DOMAIN p |-> s[p[i]]]),
                destination : Listing([i \in DOMAIN p |-> Len(copies) + p[i]])]
             Valid(U) == {x \in U : x.readable \/ x.validity = 1}
             All == UNION {Coded(p) : p \in Listings(DOMAIN s)}
             Some == IF s = <<>> THEN {} ELSE Valid(All)
  <2>1. CopyCodes(s) = {NoCode} \cup Some
    BY DEF CopyCodes
  <2>4. \A U : Valid(U) \subseteq U
    OBVIOUS
  <2> HIDE DEF Valid
  <2>5. c = NoCode \/ (s # <<>> /\ c \in All)
    <3> HIDE DEF All
    <3>1. CASE s = <<>>
      BY <2>1, <3>1
    <3>2. CASE s # <<>>
      <4>1. CopyCodes(s) = {NoCode} \cup Valid(All)
        BY <2>1, <3>2
      <4>2. c = NoCode \/ c \in Valid(All)
        BY <4>1
      <4>3. QED
        BY <2>4, <3>2, <4>2
    <3>3. QED
      BY <3>1, <3>2
  <2>2. CASE c # NoCode
    <3> HIDE DEF Coded
    <3>1. PICK p \in Listings(DOMAIN s) : c \in Coded(p)
      BY <2>2, <2>5
    <3> USE DEF Coded, Via, n
    <3>2. c.name = "COPYUID" /\ c.source \in Listing(Via(s, p))
          /\ c.destination \in Listing([i \in DOMAIN p |-> n + p[i]])
      BY <3>1
    <3> HIDE DEF Coded, Via, n
    <3>3. QED
      BY <2>2, <2>5, <3>2
  <2>3. QED
    BY <2>2
<1>6. QED
  BY <1>2, <1>3, <1>4, <1>5

\* What is copied goes on from the UIDs before.
LEMMA CopiedUids ==
  ASSUME Owned, CopyUids(copies), NEW s \in Seq(Uids)
  PROVE  CopyUids(Copied(s))
<1> DEFINE n == Len(copies)
           m == Len(s)
           f == [i \in 1..m |-> [uid |-> n + i, source |-> s[i]]]
           k == copies \o f
<1>1. n \in Nat /\ m \in Nat /\ DOMAIN copies = 1..n /\ DOMAIN s = 1..m /\ copies \in Seq(Copied1)
  BY LenProperties DEF Owned
<1>2. Copied(s) = k
  BY <1>1 DEF Copied
<1>3. f \in [1..m -> {f[i] : i \in 1..m}] /\ \A i \in 1..m : f[i].uid = n + i
  OBVIOUS
<1> HIDE DEF f, m
<1>4. f \in Seq({f[i] : i \in 1..m}) /\ Len(f) = m /\ DOMAIN f = 1..m
  BY <1>1, <1>3, SeqFrom
<1>5. /\ DOMAIN k = 1..(n + m)
      /\ \A i \in 1..(n + m) : k[i] = IF i <= n THEN copies[i] ELSE f[i - n]
  BY <1>1, <1>4
<1> HIDE DEF k, n
<1>6. ASSUME NEW i \in 1..(n + m)
      PROVE  k[i].uid = i
  <2>1. CASE i <= n
    <3>1. i \in 1..n
      BY <1>1, <2>1
    <3>2. QED
      BY <1>1, <1>5, <2>1, <3>1 DEF CopyUids
  <2>2. CASE ~(i <= n)
    <3>1. i - n \in 1..m /\ n + (i - n) = i
      BY <1>1, <2>2
    <3>2. QED
      BY <1>3, <1>5, <2>2, <3>1
  <2>3. QED
    BY <2>1, <2>2
<1>7. QED
  BY <1>2, <1>5, <1>6 DEF CopyUids

\* Every code read of a command that copies pairs what it copied; before it is
\* executed there is none.
Copying ==
  phase \in Exchanging /\ cmd.op \in {"Copy", "Move"} =>
    /\ Plain(out.untagged)
    /\ Paired(out.code, copies)
    /\ \A i \in DOMAIN out.untagged : Paired(out.untagged[i], copies)
    /\ ~ran => out.untagged = <<>>

\* What is announced or concluded besides leaves the codes and the copies.
LEMMA CodesKept ==
  ASSUME OInv, \/ SrvContinue \/ SrvOk \/ SrvRefuse \/ SrvBye
               \/ TellExpunge \/ TellExists \/ TellFlags
  PROVE  out'.code = out.code /\ out'.untagged = out.untagged /\ UNCHANGED <<cmd, phase, copies, ran>>
<1>1. DOMAIN out = DOMAIN NoOutput
  BY DEF OInv, Statuses
<1>2. ASSUME NEW d, Announces(d)
      PROVE  out'.code = out.code /\ out'.untagged = out.untagged /\ UNCHANGED <<cmd, phase, copies, ran>>
  BY <1>1, <1>2 DEF Announces
<1>3. ASSUME NEW kind, SrvTagged(kind)
      PROVE  out'.code = out.code /\ out'.untagged = out.untagged /\ UNCHANGED <<cmd, phase, copies, ran>>
  BY <1>1, <1>3 DEF SrvTagged
<1>4. CASE SrvContinue
  BY <1>1, <1>4 DEF SrvContinue, srvVars
<1>5. CASE SrvBye
  BY <1>1, <1>5 DEF SrvBye, srvVars
<1>6. QED
  BY <1>2, <1>3, <1>4, <1>5 DEF SrvOk, SrvRefuse, TellExpunge, TellExists, TellFlags

\* The answers of the server, and what it reports, keep to the copies it made.
LEMMA CodesServer ==
  ASSUME OInv, CallState, Stays, CopyUids(copies), Copying, Server
  PROVE  Copying'
<1> SUFFICES ASSUME cmd'.op \in {"Copy", "Move"}
             PROVE  /\ Plain(out'.untagged) /\ Paired(out'.code, copies')
                    /\ \A i \in DOMAIN out'.untagged : Paired(out'.untagged[i], copies')
                    /\ ~ran' => out'.untagged = <<>>
  BY DEF Copying
<1> DEFINE Goal == /\ Plain(out'.untagged) /\ Paired(out'.code, copies')
                   /\ \A i \in DOMAIN out'.untagged : Paired(out'.untagged[i], copies')
                   /\ ~ran' => out'.untagged = <<>>
<1>1. phase \in Exchanging /\ cmd.op \in {"Copy", "Move"} /\ cmd.op # "Raw"
  BY ServerUnderWay
<1>2. req.op \in {"COPY", "MOVE"}
  BY <1>1 DEF CallState, Requests, Asked
<1>3. ~SrvPlain /\ ~SrvLeave /\ ~SrvLogout /\ ~SrvNames /\ ~SrvSelect /\ ~SrvSearch /\ ~SrvFetch
  BY <1>2 DEF SrvPlain, SrvLeave, SrvLogout, SrvNames, SrvSelect, SrvSearch, SrvFetch, Answers,
              Executes, InView
<1>4. ~SrvStore /\ ~SrvExpunge /\ ~SrvAppend /\ ~SrvRaw
  BY <1>2 DEF SrvStore, SrvExpunge, SrvAppend, SrvRaw, InView, ReadWrite
<1> DEFINE none == <<>>
           AllPair(u, s) == \A i \in DOMAIN u : Paired(u[i], Copied(s))
<1>6. \A s \in CopyOrders : \A c \in CopyCodes(s) : Paired(c, Copied(s))
  BY CopyOrdersFacts, CodesPair DEF Stays
<1>7. Plain(none) /\ \A s : AllPair(none, s)
  <2>1. none \in Seq(ToSet(none)) /\ DOMAIN none = {}
    OBVIOUS
  <2> HIDE DEF none
  <2>2. QED
    BY <2>1 DEF Plain
<1>8. phase = "sent" => Paired(out.code, copies) /\ out.untagged = none
  BY <1>1 DEF OInv, Staged, Waiting, Copying
<1>9. ASSUME NEW op, NEW d, NEW u, NEW c, NEW s, Executes(op, d, u, c), copies' = Copied(s),
             Plain(u), Paired(c, Copied(s)), AllPair(u, s)
      PROVE  Goal
  <2>1. out'.code = c /\ out'.untagged = out.untagged \o u /\ phase = "sent" /\ ran' = TRUE
    BY <1>9 DEF Executes, OInv, Statuses, NoOutput
  <2>2. out.untagged \o u = u
    <3>1. u \in Seq(ToSet(u)) /\ out.untagged = <<>>
      BY <1>8, <1>9, <2>1 DEF Plain
    <3>2. <<>> \o u = u
      BY <3>1
    <3>3. QED
      BY <3>1, <3>2
  <2>3. out'.untagged = u
    BY <2>1, <2>2
  <2>4. Plain(u)
    BY <1>9
  <2>5. QED
    BY <1>9, <2>1, <2>3
<1> HIDE DEF none, AllPair
<1>10. CASE SrvCopy
  <2>1. PICK s \in CopyOrders :
          /\ \E c \in CopyCodes(s) : Executes("COPY", <<>>, none, c)
          /\ copies' = Copied(s)
    BY <1>10 DEF SrvCopy, none
  <2>2. QED
    BY <1>6, <1>7, <1>9, <2>1
<1>11. CASE SrvMove
  <2>1. PICK s \in CopyOrders :
          /\ \E c \in CopyCodes(s) :
               \/ Executes("MOVE", Expunges(Targets), none, c)
               \/ Executes("MOVE", Expunges(Targets), <<[name |-> "ALERT"], c>>, NoCode)
          /\ copies' = Copied(s)
    BY <1>11 DEF SrvMove, none
  <2>2. PICK c \in CopyCodes(s) :
          \/ Executes("MOVE", Expunges(Targets), none, c)
          \/ Executes("MOVE", Expunges(Targets), <<[name |-> "ALERT"], c>>, NoCode)
    BY <2>1
  <2>3. CASE Executes("MOVE", Expunges(Targets), none, c)
    BY <1>6, <1>7, <1>9, <2>1, <2>2, <2>3
  <2>4. CASE Executes("MOVE", Expunges(Targets), <<[name |-> "ALERT"], c>>, NoCode)
    <3> DEFINE a == [name |-> "ALERT"]
               u == <<a, c>>
    <3>1. u \in [1..2 -> {a, c}] /\ u[1] = a /\ u[2] = c
      OBVIOUS
    <3>2. Paired(a, Copied(s)) /\ Paired(NoCode, Copied(s))
      BY SilentPaired DEF NoCode
    <3>3. Paired(c, Copied(s))
      BY <1>6, <2>2
    <3>4. Executes("MOVE", Expunges(Targets), u, NoCode)
      BY <2>4
    <3> HIDE DEF a, u
    <3>5. Plain(u) /\ DOMAIN u = 1..2
      BY <3>1, PlainFrom
    <3>6. AllPair(u, s)
      <4>1. \A i \in DOMAIN u : u[i] = a \/ u[i] = c
        BY <3>1, <3>5
      <4>2. QED
        BY <3>2, <3>3, <4>1 DEF AllPair
    <3>7. QED
      BY <1>9, <2>1, <3>2, <3>4, <3>5, <3>6
  <2>5. QED
    BY <2>2, <2>3, <2>4
<1>12. CASE \/ SrvContinue \/ SrvOk \/ SrvRefuse \/ SrvBye
            \/ TellExpunge \/ TellExists \/ TellFlags
  <2>1. out'.code = out.code /\ out'.untagged = out.untagged /\ UNCHANGED <<cmd, phase, copies, ran>>
    BY <1>12, CodesKept
  <2>2. QED
    BY <1>1, <2>1 DEF Copying, Goal
<1>13. QED
  BY <1>3, <1>4, <1>10, <1>11, <1>12 DEF Server, Goal

\* So does every step.
LEMMA CopyingSteps ==
  ASSUME OInv, CallState, Stays, CopyUids(copies), Copying, Next
  PROVE  Copying'
<1>1. CASE out' = NoOutput
  <2> DEFINE none == <<>>
  <2>1. out'.untagged = none /\ out'.code.name # "COPYUID" /\ none \in Seq(ToSet(none)) /\ DOMAIN none = {}
    BY <1>1 DEF NoOutput, NoCode
  <2> HIDE DEF none
  <2>2. Plain(out'.untagged) /\ DOMAIN out'.untagged = {} /\ Paired(out'.code, copies')
    BY <2>1, SilentPaired DEF Plain
  <2>3. QED
    BY <2>1, <2>2 DEF Copying, none
<1>2. CASE SessionCommands \/ MailboxCommands \/ MessageCommands \/ ReadEof
  <2>1. CASE Starts \/ FetchesNext
    BY <1>1, <2>1 DEF Starts, FetchesNext
  <2>2. CASE Reads
    BY <2>2 DEF Reads, Copying, Exchanging
  <2>3. CASE Advances
    <3>1. UNCHANGED <<cmd, copies, ran>> /\ phase \in Exchanging
      BY <2>3 DEF Advances, srvVars, Exchanging
    <3>2. CASE out' = out
      BY <3>1, <3>2 DEF Copying
    <3>3. QED
      BY <1>1, <2>3, <3>2 DEF Advances
  <2>4. CASE Raw
    BY <1>1, <2>4 DEF Raw, RawRefused, RawStart, RawRead, RawEof, Kept, Copying
  <2>5. QED
    BY <1>2, <2>1, <2>2, <2>3, <2>4, ClientSteps
<1>3. CASE OtherExpunge \/ OtherStore \/ OtherDeliver
  <2>1. UNCHANGED <<cmd, phase, out, copies, ran>>
    BY <1>3 DEF OtherExpunge, OtherStore, OtherDeliver, Changes, callVars
  <2>2. QED
    BY <2>1 DEF Copying
<1>4. CASE Server
  BY <1>4, CodesServer
<1>5. QED
  BY <1>2, <1>3, <1>4 DEF Next
-----------------------------------------------------------------------------
(* The copies go on from one UID to the next, and what a step does to the  *)
(* result.                                                                 *)

\* Only the commands that copy add copies, each with the next UID.
LEMMA CopyUidsSteps ==
  ASSUME OInv, Stays, CopyUids(copies), Next
  PROVE  CopyUids(copies)'
<1>1. CASE UNCHANGED copies
  BY <1>1 DEF CopyUids
<1>2. ASSUME NEW s \in CopyOrders, copies' = Copied(s)
      PROVE  CopyUids(copies)'
  <2>1. CopyUids(Copied(s))
    BY CopyOrdersFacts, CopiedUids DEF Stays
  <2>2. QED
    BY <1>2, <2>1 DEF CopyUids
<1>3. CASE SrvCopy
  BY <1>2, <1>3 DEF SrvCopy
<1>4. CASE SrvMove
  BY <1>2, <1>4 DEF SrvMove
<1>5. CASE \/ SrvPlain \/ SrvLeave \/ SrvLogout \/ SrvNames \/ SrvSelect \/ SrvSearch \/ SrvFetch
           \/ SrvStore \/ SrvExpunge \/ SrvAppend
  BY <1>1, <1>5 DEF SrvPlain, SrvLeave, SrvLogout, SrvNames, SrvSelect, SrvSearch, SrvFetch,
                    SrvStore, SrvExpunge, SrvAppend, srvVars
<1>6. CASE \/ SrvContinue \/ SrvOk \/ SrvRefuse \/ SrvBye \/ SrvRaw
           \/ TellExpunge \/ TellExists \/ TellFlags
  BY <1>1, <1>6 DEF SrvContinue, SrvOk, SrvRefuse, SrvTagged, SrvBye, SrvRaw, TellExpunge,
                    TellExists, TellFlags, Announces, srvVars
<1>7. CASE OtherExpunge \/ OtherStore \/ OtherDeliver
  BY <1>1, <1>7 DEF OtherExpunge, OtherStore, OtherDeliver, Changes
<1>8. CASE SessionCommands \/ MailboxCommands \/ MessageCommands \/ ReadEof
  BY <1>1, <1>8, ClientSteps, ClientKeeps DEF srvVars
<1>9. QED
  BY <1>3, <1>4, <1>5, <1>6, <1>7, <1>8 DEF Next, Server

\* A call is under way, returns what it reads, is a raw one, or is left alone.
LEMMA Outcomes ==
  ASSUME TInv, TInv', [Next]_vars
  PROVE  \/ result'.status = "none"
         \/ Reads
         \/ cmd'.op = "Raw"
         \/ UNCHANGED <<callVars, sortVars, nameVars, sesVars, copies>>
<1>1. CASE UNCHANGED vars
  BY <1>1 DEF vars, srvVars
<1>2. CASE phase' \in Exchanging
  BY <1>2 DEF TInv, CallState, Called
<1>3. CASE Next /\ phase' \notin Exchanging
  <2>1. ~Server
    BY <1>3, ServerUnderWay
  <2>2. CASE OtherExpunge \/ OtherStore \/ OtherDeliver
    BY <2>2 DEF OtherExpunge, OtherStore, OtherDeliver, Changes
  <2>3. CASE SessionCommands \/ MailboxCommands \/ MessageCommands \/ ReadEof
    <3>1. Reads \/ Raw
      BY <1>3, <2>3, ClientSteps DEF TInv, Starts, FetchesNext, Advances, Exchanging, Waiting
    <3>2. CASE Raw
      BY <3>2 DEF Raw, RawRefused, RawStart, RawRead, RawEof, Kept
    <3>3. QED
      BY <3>1, <3>2
  <2>4. QED
    BY <1>3, <2>1, <2>2, <2>3 DEF Next
<1>4. QED
  BY <1>1, <1>2, <1>3

\* COPY returns the code of its OK, MOVE that one or an untagged one.
LEMMA ReadsPairs ==
  ASSUME TInv, Copying, Reads
  PROVE  CopyPairs'
<1>1. /\ UNCHANGED <<cmd, out, copies>> /\ phase \in Exchanging
      /\ cmd.op \in {"Copy", "Move"} /\ result'.status = "Ok" => result'.value = Reading(cmd.op, out)
  BY DEF Reads, Reported, Kept, srvVars
<1>2. ASSUME result'.status = "Ok", cmd.op \in {"Copy", "Move"}, NEW v \in result'.value
      PROVE  Pairs(v, copies)
  <2>1. /\ Plain(out.untagged) /\ Paired(out.code, copies)
        /\ \A i \in DOMAIN out.untagged : Paired(out.untagged[i], copies)
    BY <1>1, <1>2 DEF Copying
  <2>2. CASE cmd.op = "Copy"
    BY <1>1, <1>2, <2>1, <2>2 DEF Reading, Paired
  <2>3. CASE cmd.op = "Move"
    <3> DEFINE e == <<out.code>>
               codes == e \o out.untagged
    <3>1. \E i \in DOMAIN codes : v \in CopyUidFromCode(codes[i])
      <4>1. v \in MoveUids(out)
        BY <1>1, <1>2, <2>3 DEF Reading
      <4>2. QED
        BY <4>1 DEF MoveUids
    <3>2. e \in [1..1 -> {out.code}] /\ e[1] = out.code
      OBVIOUS
    <3> HIDE DEF e
    <3>3. Plain(e) /\ Len(e) = 1 /\ DOMAIN e = 1..1
      BY <3>2, PlainFrom
    <3>4. /\ \A i \in DOMAIN e : codes[i] = e[i]
          /\ \A i \in DOMAIN out.untagged : codes[1 + i] = out.untagged[i]
          /\ \A i \in DOMAIN codes : i \in DOMAIN e \/ i - 1 \in DOMAIN out.untagged
          /\ DOMAIN codes = 1..(1 + Len(out.untagged)) /\ Len(out.untagged) \in Nat
      <4> DEFINE u == out.untagged
      <4>1. Plain(u) /\ Plain(e)
        BY <2>1, <3>3
      <4> HIDE DEF u
      <4>2. /\ DOMAIN (e \o u) = 1..(Len(e) + Len(u)) /\ Len(u) \in Nat
            /\ \A i \in DOMAIN e : i \in DOMAIN (e \o u) /\ (e \o u)[i] = e[i]
            /\ \A i \in DOMAIN u : /\ Len(e) + i \in DOMAIN (e \o u)
                                    /\ (e \o u)[Len(e) + i] = u[i]
            /\ \A i \in DOMAIN (e \o u) : i \in DOMAIN e \/ i - Len(e) \in DOMAIN u
        BY <4>1, PlainConcat, PlainFacts
      <4>3. codes = e \o u
        BY DEF u
      <4> HIDE DEF codes
      <4>4. QED
        BY <3>3, <4>2, <4>3 DEF u
    <3> HIDE DEF codes
    <3>5. ASSUME NEW i \in DOMAIN codes
          PROVE  Paired(codes[i], copies)
      <4>1. CASE i \in DOMAIN e
        BY <2>1, <3>2, <3>3, <3>4, <4>1
      <4>2. CASE i - 1 \in DOMAIN out.untagged
        <5>1. i = 1 + (i - 1)
          BY <3>4
        <5>2. codes[i] = out.untagged[i - 1]
          BY <3>4, <4>2, <5>1
        <5>3. QED
          BY <2>1, <4>2, <5>2
      <4>3. QED
        BY <3>4, <4>1, <4>2
    <3>6. QED
      BY <3>1, <3>5 DEF Paired
  <2>4. QED
    BY <1>2, <2>2, <2>3
<1>3. QED
  BY <1>1, <1>2 DEF CopyPairs, Returned, Pairs, MadeIn, Made, MadeInOrder, CopyPair

\* The invariant of CopyPairs.
CopyInv == TInv /\ CopyUids(copies) /\ Copying /\ CopyPairs

\* It holds at the start.
LEMMA CopyInit == Init => CopyInv
<1> SUFFICES ASSUME Init
             PROVE  CopyInv
  OBVIOUS
<1>1. phase = "idle" /\ result.status = "none"
  BY DEF Init, NoResult
<1>2. CopyUids(copies)
  BY DEF Init, CopyUids
<1>3. QED
  BY <1>1, <1>2, TypesInit DEF CopyInv, Copying, CopyPairs, Returned, Exchanging

\* Every step preserves it.
LEMMA CopyStep == CopyInv /\ [Next]_vars => CopyInv'
<1> SUFFICES ASSUME CopyInv, [Next]_vars
             PROVE  CopyInv'
  OBVIOUS
<1> USE DEF CopyInv
<1>1. TInv'
  BY TypesStep
<1>2. CopyUids(copies)' /\ Copying'
  <2>1. CASE UNCHANGED vars
    BY <2>1 DEF vars, callVars, srvVars, CopyUids, Copying
  <2>2. CASE Next
    BY <2>2, CopyUidsSteps, CopyingSteps DEF TInv
  <2>3. QED
    BY <2>1, <2>2
<1>3. CopyPairs'
  <2>1. CASE Reads
    BY <2>1, ReadsPairs
  <2>2. CASE UNCHANGED <<callVars, copies>>
    BY <2>2 DEF callVars, CopyPairs, Returned, Made, MadeInOrder, CopyPair
  <2>3. CASE result'.status = "none" \/ cmd'.op = "Raw"
    BY <2>3 DEF CopyPairs, Returned
  <2>4. QED
    BY <1>1, <2>1, <2>2, <2>3, Outcomes
<1>4. QED
  BY <1>1, <1>2, <1>3

(* However the server lists what a COPY or a MOVE copied, and whether the  *)
(* code came in the tagged OK or before it, the two lists returned hold as *)
(* many UIDs, and the first those of the messages the second has copies    *)
(* of; when the server copied the messages in the order of their UIDs, the *)
(* n-th of the one was copied to the n-th of the other. For any number of  *)
(* messages and of commands (src/rfc3501/copy.rs:189-299,                  *)
(* rfc6851/move.rs:151).                                                   *)
THEOREM CopiesPair == Spec => []CopyPairs
<1>1. CopyInv => CopyPairs
  BY DEF CopyInv
<1>2. QED
  BY <1>1, CopyInit, CopyStep, PTL DEF Spec
=============================================================================
