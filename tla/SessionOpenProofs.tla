------------------------- MODULE SessionOpenProofs -------------------------
(***************************************************************************)
(* Proofs about SessionOpen, for every set of mechanisms and every number  *)
(* of lines the server sends in clear.                                     *)
(***************************************************************************)
EXTENDS SessionOpen, SequenceTheorems, WellFoundedInduction, TLAPS

\* The states that come before the authentication.
Opening == {"Connect", "Connected", "StartTls", "Upgraded", "Capability", "Greeting",
            "GreetingCapability"}

\* The mechanism agrees that the exchange is over.
Agreed == sasl \in DOMAIN Sasl => answered \in Sasl[sasl].done

\* An authentication went through, as far as the client is concerned.
Authenticated == auth \in {"Capability", "Id"} \/ (outcome = "Ok" /\ auth # "Start")

\* Nothing is written or heard before the authentication starts.
Unstarted ==
  /\ state \in Opening => auth = "Start"
  /\ auth = "Start" => /\ payloads = <<>> /\ answered = 0 /\ ~pending
                       /\ ids = 0 /\ observed = "none"

\* As many payloads are written as challenges were answered, and the first one.
Numbered ==
  /\ PayloadsInOrder
  /\ pending => payloads = <<>> /\ answered = 0 /\ auth = "Send" /\ sasl # "Login"
  /\ auth # "Start" /\ ~pending => Len(payloads) = answered + 1

Consented ==
  /\ Authenticated => phase = "auth" /\ payloads # <<>> /\ Agreed
  /\ auth = "Id" \/ (outcome = "Ok" /\ auth # "Start") => ~autoId
  /\ outcome = "Ok" /\ auth = "Start" => preAuth \/ sasl = "None" \/ direct

\* From the upgrade on, what was read in clear ends with the answer.
Sealed ==
  starttls =>
    /\ state \notin {"Greeting", "GreetingCapability"}
    /\ state \in {"Upgraded", "Capability", "Auth"} \/ outcome = "Ok" => clean
    /\ state \in {"Capability", "Auth"} \/ outcome = "Ok" => phase # "clear"
    /\ payloads # <<>> \/ ids > 0 => clean /\ phase # "clear"

Fresh ==
  /\ CapabilityIsFresh
  /\ observed \in {"none", "auth", "before"}
  /\ auth \in {"Send", "Continue"} => observed = "none" \/ outcome = "Ok"
  /\ auth = "Id" /\ observed = "none" => direct

IInv == TypeOK /\ Unstarted /\ Numbered /\ Consented /\ Sealed /\ Fresh

-----------------------------------------------------------------------------
(* What an exchange returns, and what a read leaves.                       *)

\* An OK announces lists of the phase it ends in, or of before it did.
LEMMA AnswerFields ==
  ASSUME NEW after \in Phases, NEW o \in Answer(after)
  PROVE  /\ o.kind \in {"OK", "bye", "NO", "failed"}
         /\ Newest(o) \in {"none", after} \cup (IF phase = after THEN {} ELSE {"before"})
         /\ NewestOfLogin(o) \in {"none", after} \cup (IF phase = after THEN {} ELSE {"before"})
BY DEF Answer, Newest, NewestOfLogin

LEMMA ReadTypes ==
  ASSUME TypeOK, NEW n \in 0..Len(wire), NEW rest \in BOOLEAN, Read(n, rest)
  PROVE  /\ wire' \in Seq({"line", "own"}) /\ partial' \in BOOLEAN
         /\ \A k \in {1, 2} : SubSeq(wire, k, n) \in Seq({"line", "own"})
<1> DEFINE L == {"line", "own"}
<1>1. wire \in Seq(L) /\ Len(wire) \in Nat /\ n \in Nat
  BY DEF TypeOK
<1>2. \A i \in (n + 1)..Len(wire) : wire[i] \in L
  BY <1>1
<1>3. SubSeq(wire, n + 1, Len(wire)) \in Seq(L)
  BY <1>1, <1>2, SubSeqProperties
<1>4. \A k \in {1, 2} : \A i \in k..n : wire[i] \in L
  BY <1>1
<1>5. \A k \in {1, 2} : SubSeq(wire, k, n) \in Seq(L)
  BY <1>1, <1>4, SubSeqProperties
<1> QED
  BY <1>3, <1>5 DEF Read

\* The tagged line found first.
LEMMA FirstOwn ==
  ASSUME NEW lines \in Seq({"line", "own"}), OwnLines(lines) # {}
  PROVE  \E i \in OwnLines(lines) : \A j \in OwnLines(lines) : i <= j
<1>1. OwnLines(lines) \subseteq Nat
  BY DEF OwnLines
<1>2. PICK i \in OwnLines(lines) :
        \A j \in OwnLines(lines) : ~(<<j, i>> \in OpToRel(<, Nat))
  BY <1>1, WFMin, NatLessThanWellFounded, Zenon
<1>3. \A j \in OwnLines(lines) : ~(j < i)
  BY <1>1, <1>2 DEF OpToRel
<1> QED
  BY <1>1, <1>3

-----------------------------------------------------------------------------
(* Initial states.                                                         *)

LEMMA InitInv == Init => IInv
<1> SUFFICES ASSUME Init PROVE IInv
  OBVIOUS
<1>1. transport \in {"Tcp", "Tls", "Unix"}
  BY DEF Init, FromUrl
<1>2. phase \in Phases /\ advertises \subseteq Phases
  BY DEF Init, Phases
<1>3. buf \in Seq({"line", "own"}) /\ wire \in Seq({"line", "own"}) /\ payloads \in Seq(Nat)
  BY DEF Init
<1>4. answered \in 0..2
  BY DEF Init
<1>5. TypeOK
  BY <1>1, <1>2, <1>3, <1>4 DEF Init, TypeOK, States, List, Phases
<1>6. Unstarted /\ Numbered /\ Consented
  BY DEF Init, Unstarted, Opening, Numbered, PayloadsInOrder, Consented, Authenticated
<1>7. Sealed /\ Fresh
  BY DEF Init, Sealed, Fresh, CapabilityIsFresh
<1> QED
  BY <1>5, <1>6, <1>7 DEF IInv

-----------------------------------------------------------------------------
(* Steps before the authentication.                                        *)

\* A step that writes nothing and learns nothing of the authentication.
LEMMA OpeningStep ==
  ASSUME IInv, auth = "Start", TypeOK', Sealed', CapabilityIsFresh',
         UNCHANGED <<optVars, authVars, ids>>,
         outcome' = "Ok" => preAuth' \/ sasl = "None" \/ direct
  PROVE  IInv'
<1> USE DEF IInv, optVars, authVars
<1>1. Unstarted'
  BY DEF Unstarted
<1>2. Numbered'
  BY DEF Numbered, PayloadsInOrder, Unstarted
<1>3. Consented'
  BY DEF Consented, Authenticated
<1>4. Fresh'
  BY DEF Fresh
<1> QED
  BY <1>1, <1>2, <1>3, <1>4

\* Whatever fails the session.
LEMMA FailedStep ==
  ASSUME IInv, outcome = "none", Err, TypeOK',
         UNCHANGED <<optVars, autoId, ids, auth, observed, pending, answered, payloads>>,
         UNCHANGED <<clean, phase>> \/ (payloads = <<>> /\ ids = 0)
  PROVE  IInv'
<1> USE DEF IInv, Err, Complete, optVars
<1>1. Unstarted'
  BY DEF Unstarted, Opening
<1>2. Numbered'
  BY DEF Numbered, PayloadsInOrder
<1>3. Consented'
  BY DEF Consented, Authenticated, Agreed
<1>4. Sealed'
  BY DEF Sealed, TypeOK
<1>5. Fresh'
  BY DEF Fresh, CapabilityIsFresh
<1> QED
  BY <1>1, <1>2, <1>3, <1>4, <1>5

\* Where the opening stands while its steps are taken.
LEMMA InOpening ==
  ASSUME IInv, state \in Opening
  PROVE  /\ auth = "Start" /\ payloads = <<>> /\ ids = 0 /\ outcome = "none"
BY DEF IInv, Unstarted, Opening, TypeOK

LEMMA ConnectInv == IInv /\ Connect => IInv'
<1> SUFFICES ASSUME IInv, Connect PROVE IInv'
  OBVIOUS
<1>1. auth = "Start" /\ payloads = <<>> /\ ids = 0 /\ outcome = "none"
  BY InOpening DEF Connect, Opening
<1>2. TypeOK'
  BY DEF IInv, Connect, TypeOK, States, Err, Complete, optVars, tlsVars, authVars, srvVars
<1> QED
  BY <1>1, <1>2, OpeningStep
  DEF IInv, Connect, Err, Complete, tlsVars, authVars, Sealed, CapabilityIsFresh, optVars

LEMMA ConnectedInv == IInv /\ Connected => IInv'
<1> SUFFICES ASSUME IInv, Connected PROVE IInv'
  OBVIOUS
<1>1. auth = "Start" /\ payloads = <<>> /\ ids = 0 /\ outcome = "none"
  BY InOpening DEF Connected, Opening
<1>2. TypeOK'
  BY DEF IInv, Connected, TypeOK, States, optVars, tlsVars, authVars, srvVars
<1> QED
  BY <1>1, <1>2, OpeningStep
  DEF IInv, Connected, tlsVars, authVars, Sealed, CapabilityIsFresh, optVars
LEMMA DiscardGreetingInv ==
  ASSUME IInv, NEW n \in 0..Len(wire), NEW rest \in BOOLEAN, DiscardGreeting(n, rest)
  PROVE  IInv'
<1>1. auth = "Start" /\ payloads = <<>> /\ ids = 0 /\ outcome = "none"
  BY InOpening DEF DiscardGreeting, Opening
<1>2. wire' \in Seq({"line", "own"}) /\ partial' \in BOOLEAN
      /\ SubSeq(wire, 2, n) \in Seq({"line", "own"})
  BY ReadTypes DEF IInv, DiscardGreeting
<1>3. buf' \in Seq({"line", "own"})
  BY <1>2 DEF DiscardGreeting, IInv, TypeOK
<1>4. TypeOK'
  BY <1>2, <1>3 DEF IInv, DiscardGreeting, TypeOK, States, optVars, authVars
<1> QED
  BY <1>1, <1>4, OpeningStep
  DEF IInv, DiscardGreeting, authVars, Sealed, CapabilityIsFresh, optVars

LEMMA WriteStartTlsInv == IInv /\ WriteStartTls => IInv'
<1> SUFFICES ASSUME IInv, WriteStartTls PROVE IInv'
  OBVIOUS
<1>1. auth = "Start" /\ payloads = <<>> /\ ids = 0 /\ outcome = "none"
  BY InOpening DEF WriteStartTls, Opening
<1>2. TypeOK'
  BY DEF IInv, WriteStartTls, TypeOK, States, optVars, authVars
<1> QED
  BY <1>1, <1>2, OpeningStep
  DEF IInv, WriteStartTls, authVars, Sealed, CapabilityIsFresh, optVars

\* Without bytes past it, the tagged line is the last one read.
LEMMA DiscardStartTlsInv ==
  ASSUME IInv, NEW n \in 0..Len(wire), NEW rest \in BOOLEAN, DiscardStartTls(n, rest)
  PROVE  IInv'
<1> DEFINE lines == buf \o SubSeq(wire, 1, n)
           own == OwnLines(lines)
           at == CHOOSE i \in own : \A j \in own : i <= j
<1>1. auth = "Start" /\ payloads = <<>> /\ ids = 0 /\ outcome = "none"
  BY InOpening DEF DiscardStartTls, Opening
<1>2. wire' \in Seq({"line", "own"}) /\ partial' \in BOOLEAN
      /\ SubSeq(wire, 1, n) \in Seq({"line", "own"})
  BY ReadTypes DEF IInv, DiscardStartTls
<1>3. lines \in Seq({"line", "own"})
  BY <1>2, ConcatProperties DEF IInv, TypeOK
<1>4. buf' = <<>> /\ buf' \in Seq({"line", "own"})
  BY DEF DiscardStartTls
<1>5. CASE own = {}
  <2>1. UNCHANGED <<state, capability, preAuth, outcome, clean>>
    BY <1>5 DEF DiscardStartTls
  <2>2. TypeOK'
    BY <1>2, <1>4, <2>1 DEF IInv, DiscardStartTls, TypeOK, optVars, authVars
  <2> QED
    BY <1>1, <2>1, <2>2, OpeningStep
    DEF IInv, DiscardStartTls, authVars, Sealed, CapabilityIsFresh, optVars
<1>6. CASE own # {}
  <2>1. at \in own /\ at \in 1..Len(lines)
    BY <1>3, <1>6, FirstOwn DEF OwnLines
  <2>2. /\ clean' = (at = Len(lines) /\ ~rest)
        /\ IF Leftover(lines, at, rest) THEN Err
           ELSE state' = "Upgraded" /\ UNCHANGED <<capability, preAuth, outcome>>
    BY <1>6, Zenon DEF DiscardStartTls
  <2> HIDE DEF lines, own, at
  <2>3. ~Leftover(lines, at, rest) => at = Len(lines) /\ ~rest
    BY <1>3, <2>1 DEF Leftover
  <2>4. state' = "Upgraded" => clean'
    <3>1. Err => state' # "Upgraded"
      BY DEF Err, Complete
    <3> QED
      BY <2>2, <2>3, <3>1, Zenon
  <2>5. \/ Err
        \/ state' = "Upgraded" /\ UNCHANGED <<capability, preAuth, outcome>>
    BY <2>2
  <2>6. clean' \in BOOLEAN
    BY <2>2
  <2>7. TypeOK'
    BY <1>2, <1>4, <2>5, <2>6
    DEF IInv, DiscardStartTls, TypeOK, States, Err, Complete, optVars, authVars
  <2>8. CASE Err
    BY <1>1, <2>7, <2>8, FailedStep DEF DiscardStartTls, authVars
  <2>9. CASE state' = "Upgraded" /\ UNCHANGED <<capability, preAuth, outcome>>
    BY <1>1, <2>4, <2>7, <2>9, OpeningStep
    DEF IInv, DiscardStartTls, authVars, Sealed, CapabilityIsFresh, optVars
  <2> QED
    BY <2>5, <2>8, <2>9
<1> QED
  BY <1>5, <1>6

LEMMA StartTlsFailsInv == IInv /\ StartTlsFails => IInv'
<1> SUFFICES ASSUME IInv, StartTlsFails PROVE IInv'
  OBVIOUS
<1>1. outcome = "none"
  BY InOpening DEF StartTlsFails, Opening
<1>2. TypeOK'
  BY DEF IInv, StartTlsFails, TypeOK, States, Err, Complete, optVars, tlsVars, authVars, srvVars
<1> QED
  BY <1>1, <1>2, FailedStep DEF StartTlsFails, tlsVars, authVars

LEMMA UpgradeInv ==
  ASSUME IInv, NEW agreed \in BOOLEAN, Upgrade(agreed)
  PROVE  IInv'
<1>1. auth = "Start" /\ payloads = <<>> /\ ids = 0 /\ outcome = "none"
  BY InOpening DEF Upgrade, Opening
<1>2. TypeOK'
  BY DEF IInv, Upgrade, TypeOK, States, Phases, Err, Complete, optVars, tlsVars, authVars, srvVars
<1> QED
  BY <1>1, <1>2, OpeningStep
  DEF IInv, Upgrade, Err, Complete, tlsVars, authVars, Sealed, CapabilityIsFresh, optVars
\* What follows from a list of the phase the session is in.
LEMMA WantsAuthInv ==
  ASSUME IInv, auth = "Start", outcome = "none", NEW pre \in BOOLEAN, phase' \in Phases,
         WantsAuth(phase', pre), UNCHANGED <<optVars, authVars, autoId, ids, tlsVars, srvVars>>,
         starttls => clean /\ phase' # "clear"
  PROVE  IInv'
<1>1. /\ capability' = phase' /\ preAuth' = pre
      /\ \/ state' = "Complete" /\ outcome' = "Err"
         \/ state' = "Complete" /\ outcome' = "Ok" /\ (pre \/ sasl = "None" \/ direct)
         \/ state' = "Auth" /\ outcome' = outcome
  BY DEF WantsAuth, Complete
<1>2. TypeOK'
  BY <1>1 DEF IInv, TypeOK, States, List, Phases, optVars, authVars, tlsVars, srvVars
<1> QED
  BY <1>1, <1>2, OpeningStep
  DEF IInv, authVars, tlsVars, Sealed, CapabilityIsFresh, optVars

LEMMA CapabilityInv ==
  ASSUME IInv, NEW o \in Answer(phase), Capability(o)
  PROVE  IInv'
<1>1. auth = "Start" /\ payloads = <<>> /\ ids = 0 /\ outcome = "none"
  BY InOpening DEF Capability, Opening
<1>2. phase \in Phases /\ phase' = phase
  BY DEF IInv, TypeOK, Capability
<1>3. Newest(o) \in {"none", phase}
  BY <1>2, AnswerFields
<1>4. CASE Newest(o) # "none" /\ WantsAuth(Newest(o), FALSE) /\ UNCHANGED <<autoId, ids, auth, observed>>
  <2>1. WantsAuth(phase', FALSE)
    BY <1>2, <1>3, <1>4
  <2>2. starttls => clean /\ phase' # "clear"
    BY <1>2 DEF IInv, Sealed, Capability
  <2> QED
    BY <1>1, <1>2, <1>4, <2>1, <2>2, WantsAuthInv DEF Capability, authVars
<1>5. CASE Err /\ UNCHANGED <<autoId, ids, auth, observed>>
  <2>1. TypeOK'
    BY <1>5
    DEF IInv, Capability, TypeOK, States, Err, Complete, optVars, tlsVars, srvVars
  <2> QED
    BY <1>1, <1>5, <2>1, FailedStep DEF Capability
<1> QED
  BY <1>4, <1>5 DEF Capability, CapabilityGet

LEMMA GreetingCapabilityInv ==
  ASSUME IInv, NEW o \in Answer(phase), GreetingCapability(o)
  PROVE  IInv'
<1>1. auth = "Start" /\ payloads = <<>> /\ ids = 0 /\ outcome = "none"
  BY InOpening DEF GreetingCapability, Opening
<1>2. phase \in Phases /\ phase' = phase /\ preAuth \in BOOLEAN
  BY DEF IInv, TypeOK, GreetingCapability
<1>3. Newest(o) \in {"none", phase}
  BY <1>2, AnswerFields
<1>4. CASE /\ Newest(o) # "none"
           /\ WantsAuth(Newest(o), preAuth) /\ UNCHANGED <<autoId, ids, auth, observed>>
  <2>1. WantsAuth(phase', preAuth)
    BY <1>2, <1>3, <1>4
  <2>2. ~starttls
    BY DEF IInv, Sealed, GreetingCapability, TypeOK
  <2> QED
    BY <1>1, <1>2, <1>4, <2>1, <2>2, WantsAuthInv DEF GreetingCapability, authVars
<1>5. CASE Err /\ UNCHANGED <<autoId, ids, auth, observed>>
  <2>1. TypeOK'
    BY <1>5
    DEF IInv, GreetingCapability, TypeOK, States, Err, Complete, optVars, tlsVars, srvVars
  <2> QED
    BY <1>1, <1>5, <2>1, FailedStep DEF GreetingCapability
<1> QED
  BY <1>4, <1>5 DEF GreetingCapability, CapabilityGet

LEMMA GreetingInv ==
  ASSUME IInv, NEW kind, NEW code \in BOOLEAN, Greeting(kind, code)
  PROVE  IInv'
<1> DEFINE pre == kind = "PREAUTH"
<1>1. auth = "Start" /\ payloads = <<>> /\ ids = 0 /\ outcome = "none" /\ ~starttls
  BY InOpening DEF Greeting, Opening, IInv, Sealed, TypeOK
<1>2. phase' \in Phases
  BY DEF IInv, TypeOK, Greeting, Phases
<1>3. UNCHANGED <<optVars, autoId, ids, tlsVars, authVars, srvVars>>
  BY DEF Greeting
<1>4. CASE Err
  <2>1. TypeOK'
    BY <1>2, <1>3, <1>4
    DEF IInv, TypeOK, States, Err, Complete, optVars, tlsVars, authVars, srvVars
  <2> QED
    BY <1>1, <1>3, <1>4, <2>1, FailedStep DEF authVars, tlsVars
<1>5. CASE WantsAuth(phase', pre)
  BY <1>1, <1>2, <1>3, <1>5, WantsAuthInv
<1>6. CASE state' = "GreetingCapability" /\ preAuth' = pre /\ UNCHANGED <<capability, outcome>>
  <2>1. TypeOK'
    BY <1>1, <1>2, <1>3, <1>6
    DEF IInv, TypeOK, States, optVars, tlsVars, authVars, srvVars
  <2> QED
    BY <1>1, <1>3, <1>6, <2>1, OpeningStep
    DEF Sealed, CapabilityIsFresh, optVars, authVars
<1> QED
  BY <1>4, <1>5, <1>6 DEF Greeting

LEMMA CallAuthInv == IInv /\ CallAuth => IInv'
<1> SUFFICES ASSUME IInv, CallAuth PROVE IInv'
  OBVIOUS
<1>1. TypeOK'
  BY DEF IInv, CallAuth, TypeOK, States, optVars, tlsVars, authVars, srvVars
<1> QED
  BY <1>1, OpeningStep
  DEF IInv, CallAuth, authVars, tlsVars, Sealed, CapabilityIsFresh, optVars

LEMMA ServerInv == IInv /\ Server => IInv'
<1> SUFFICES ASSUME IInv, Server PROVE IInv'
  OBVIOUS
<1>1. InClear /\ auth = "Start" /\ outcome = "none"
  BY InOpening DEF Server, SrvAnswer, SrvLine, InClear, Opening
<1>2. /\ wire' \in Seq({"line", "own"})
      /\ command' \in {"unsent", "received", "answered"} /\ sent' \in Nat
  <2>1. CASE SrvAnswer
    BY <2>1 DEF IInv, TypeOK, SrvAnswer
  <2>2. CASE SrvLine
    BY <2>2 DEF IInv, TypeOK, SrvLine
  <2> QED
    BY <2>1, <2>2 DEF Server
<1>3. TypeOK'
  BY <1>1, <1>2 DEF IInv, InClear, TypeOK, optVars, tlsVars, authVars
<1> QED
  BY <1>1, <1>3, OpeningStep
  DEF IInv, InClear, authVars, tlsVars, Sealed, CapabilityIsFresh, optVars

-----------------------------------------------------------------------------
(* Steps of the authentication.                                            *)

\* A step of the authentication, whichever mechanism takes it.
AuthStep(A) == state = "Auth" /\ A /\ UNCHANGED <<optVars, tlsVars, srvVars>>

LEMMA InAuth ==
  ASSUME IInv, state = "Auth"
  PROVE  outcome = "none" /\ (starttls => clean /\ phase # "clear")
BY DEF IInv, TypeOK, Sealed

LEMMA AuthStartInv == IInv /\ sasl \in DOMAIN Sasl /\ AuthStep(AuthStart) => IInv'
<1> SUFFICES ASSUME IInv, sasl \in DOMAIN Sasl, AuthStep(AuthStart) PROVE IInv'
  OBVIOUS
<1>0. sasl # "Login"
  BY DEF Sasl
<1> USE DEF AuthStep, AuthStart, IInv, optVars, tlsVars, srvVars
<1>1. outcome = "none" /\ (starttls => clean /\ phase # "clear")
  BY InAuth
<1>2. \/ InitialRequest /\ pending' = FALSE /\ payloads' = <<0>>
      \/ ~InitialRequest /\ pending' = TRUE /\ payloads' = <<>>
  BY Zenon
<1>3. /\ payloads' \in Seq(Nat) /\ pending' \in BOOLEAN
      /\ IF pending' THEN payloads' = <<>> ELSE Len(payloads') = 1 /\ payloads'[1] = 0
  BY <1>2
<1>4. TypeOK'
  BY <1>2, <1>3 DEF TypeOK
<1>5. Unstarted' /\ Consented' /\ Sealed'
  BY <1>1 DEF Unstarted, Opening, Consented, Authenticated, Sealed
<1>6. Numbered'
  BY <1>0, <1>2, <1>3 DEF Numbered, PayloadsInOrder, Unstarted
<1>7. Fresh'
  BY <1>1 DEF Fresh, CapabilityIsFresh, Unstarted
<1> QED
  BY <1>4, <1>5, <1>6, <1>7
\* Steps that fail the authentication.
LEMMA AuthFailsInv ==
  ASSUME IInv, AuthStep(AuthFails), phase' = phase \/ phase' = "auth",
         UNCHANGED <<pending, answered, payloads>>
  PROVE  IInv'
<1> USE DEF AuthStep, AuthFails, IInv, Err, Complete, optVars, tlsVars, srvVars
<1>1. outcome = "none" /\ (starttls => clean /\ phase # "clear")
  BY InAuth
<1>2. phase' \in Phases
  BY DEF TypeOK, Phases
<1>3. TypeOK'
  BY <1>2 DEF TypeOK, States
<1>4. Unstarted' /\ Numbered'
  BY DEF Unstarted, Opening, Numbered, PayloadsInOrder
<1>5. Consented'
  BY DEF Consented, Authenticated, Agreed
<1>6. Sealed'
  BY <1>1 DEF Sealed
<1>7. Fresh'
  BY <1>1 DEF Fresh, CapabilityIsFresh
<1> QED
  BY <1>3, <1>4, <1>5, <1>6, <1>7

\* The server accepted; what is left is ID, or nothing.
LEMMA WantsIdInv ==
  ASSUME IInv, NEW list \in {"none", "auth", "before"}, AuthStep(WantsId(list)),
         auth # "Start", ~pending, phase' = "auth", Agreed, list = "none" => direct,
         UNCHANGED <<pending, answered, payloads>>
  PROVE  IInv'
<1> USE DEF AuthStep, WantsId, IInv, Complete, optVars, tlsVars, srvVars
<1>1. outcome = "none" /\ (starttls => clean /\ phase # "clear")
  BY InAuth
<1>2. payloads # <<>>
  BY DEF Numbered, TypeOK
<1>3. ids' \in Nat /\ autoId' = FALSE
  BY DEF TypeOK
<1>4. \/ autoId /\ auth' = "Id" /\ UNCHANGED <<state, capability, preAuth, outcome>>
      \/ capability' = list /\ Complete("Ok") /\ UNCHANGED <<auth, preAuth>>
  BY DEF TypeOK
<1>5. TypeOK'
  <2>1. list \in List
    BY DEF List, Phases
  <2>2. observed' \in List /\ capability' \in List /\ auth' \in {"Start", "Send", "Continue", "Capability", "Id"}
    BY <1>4, <2>1 DEF TypeOK
  <2>3. state' \in States /\ outcome' \in {"none", "Ok", "Err"} /\ preAuth' \in BOOLEAN
        /\ (state' = "Complete" <=> outcome' # "none")
    BY <1>4 DEF TypeOK, States
  <2> QED
    BY <1>3, <2>2, <2>3 DEF TypeOK, Phases
<1>6. Unstarted' /\ Numbered'
  BY <1>4 DEF Unstarted, Opening, Numbered, PayloadsInOrder
<1>7. Consented'
  BY <1>2, <1>3, <1>4 DEF Consented, Authenticated, Agreed
<1>8. Sealed'
  BY <1>1, <1>4 DEF Sealed
<1>9. Fresh'
  BY <1>1, <1>4 DEF Fresh, CapabilityIsFresh
<1> QED
  BY <1>5, <1>6, <1>7, <1>8, <1>9

\* The server accepted; the list may have come with it.
LEMMA WantsCapabilityInv ==
  ASSUME IInv, NEW list \in {"none", "auth", "before"}, AuthStep(WantsCapability(list)),
         auth \in {"Send", "Continue"}, ~pending, phase' = "auth", Agreed,
         UNCHANGED <<pending, answered, payloads>>
  PROVE  IInv'
<1>1. outcome = "none" /\ (starttls => clean /\ phase # "clear")
  BY InAuth DEF AuthStep
<1>2. (IF list = "none" THEN observed ELSE list) = list
  BY <1>1 DEF IInv, Fresh
<1>3. CASE EnsureCapabilities /\ list = "none"
  <2> USE DEF AuthStep, IInv, optVars, tlsVars, srvVars
  <2>1. auth' = "Capability" /\ UNCHANGED <<state, capability, preAuth, outcome, autoId, ids, observed>>
    BY <1>2, <1>3 DEF WantsCapability
  <2>2. TypeOK'
    BY <2>1 DEF TypeOK, Phases
  <2>3. Unstarted' /\ Numbered' /\ Sealed'
    BY <1>1, <2>1 DEF Unstarted, Opening, Numbered, PayloadsInOrder, Sealed
  <2>4. Consented'
    BY <1>1, <2>1 DEF Consented, Authenticated, Agreed, Numbered, TypeOK
  <2>5. Fresh'
    BY <1>1, <2>1 DEF Fresh, CapabilityIsFresh
  <2> QED
    BY <2>2, <2>3, <2>4, <2>5
<1>4. CASE ~(EnsureCapabilities /\ list = "none")
  <2>1. WantsId(list)
    BY <1>2, <1>4 DEF AuthStep, WantsCapability
  <2>2. list = "none" => direct
    BY <1>4 DEF EnsureCapabilities
  <2> QED
    BY <2>1, <2>2, WantsIdInv DEF AuthStep
<1> QED
  BY <1>3, <1>4

LEMMA StatusInv ==
  ASSUME IInv, NEW o \in Answer("auth"), NEW accepted \in BOOLEAN, AuthStep(Status(o, accepted)),
         sasl \in DOMAIN Sasl, auth \in {"Send", "Continue"}, accepted => ~pending
  PROVE  IInv'
<1>1. UNCHANGED <<pending, answered, payloads>> /\ phase' = IF o.kind = "OK" THEN "auth" ELSE phase
  BY DEF AuthStep, Status
<1>2. CASE o.kind = "OK" /\ accepted /\ Done
  <2>1. Newest(o) \in {"none", "auth", "before"}
    BY AnswerFields DEF Phases
  <2>2. Agreed
    BY <1>2 DEF Done, Agreed
  <2> QED
    BY <1>1, <1>2, <2>1, <2>2, WantsCapabilityInv DEF AuthStep, Status
<1>3. CASE ~(o.kind = "OK" /\ accepted /\ Done)
  BY <1>1, <1>3, AuthFailsInv DEF AuthStep, Status
<1> QED
  BY <1>2, <1>3

LEMMA AuthCapabilityInv ==
  ASSUME IInv, NEW o \in Answer(phase), AuthStep(AuthCapability(o))
  PROVE  IInv'
<1>1. auth = "Capability" /\ UNCHANGED <<pending, answered, payloads, phase>>
  BY DEF AuthStep, AuthCapability
<1>2. phase = "auth" /\ Agreed /\ ~pending
  BY <1>1 DEF IInv, Consented, Authenticated, Numbered
<1>3. Newest(o) \in {"none", "auth", "before"}
  BY <1>2, AnswerFields DEF Phases
<1>4. CASE Newest(o) # "none" /\ WantsId(Newest(o))
  BY <1>1, <1>2, <1>3, <1>4, WantsIdInv DEF AuthStep
<1>5. CASE AuthFails
  BY <1>1, <1>5, AuthFailsInv DEF AuthStep
<1> QED
  BY <1>4, <1>5 DEF AuthStep, AuthCapability, CapabilityGet, AuthFails

LEMMA AuthIdInv ==
  ASSUME IInv, NEW o, AuthStep(AuthId(o))
  PROVE  IInv'
<1>1. auth = "Id" /\ UNCHANGED <<pending, answered, payloads, phase>>
  BY DEF AuthStep, AuthId
<1>2. phase = "auth" /\ Agreed /\ ~pending /\ ~autoId /\ payloads # <<>>
  BY <1>1 DEF IInv, Consented, Authenticated, Numbered
<1>3. CASE capability' = observed /\ Complete("Ok") /\ UNCHANGED <<preAuth, autoId, ids, auth, observed>>
  <2> USE DEF AuthStep, IInv, Complete, optVars, tlsVars, srvVars
  <2>1. starttls => clean /\ phase # "clear"
    BY InAuth
  <2>2. TypeOK'
    BY <1>1, <1>3 DEF TypeOK, States
  <2>3. Unstarted' /\ Numbered' /\ Sealed'
    BY <1>1, <1>3, <2>1 DEF Unstarted, Opening, Numbered, PayloadsInOrder, Sealed
  <2>4. Consented'
    BY <1>1, <1>2, <1>3 DEF Consented, Authenticated, Agreed
  <2>5. Fresh'
    BY <1>1, <1>2, <1>3 DEF Fresh, CapabilityIsFresh
  <2> QED
    BY <2>2, <2>3, <2>4, <2>5
<1>4. CASE AuthFails
  BY <1>1, <1>4, AuthFailsInv DEF AuthStep
<1> QED
  BY <1>3, <1>4 DEF AuthStep, AuthId
\* A challenge: the payload held back, the mechanism's answer, or a failure.
LEMMA ChallengeInv ==
  ASSUME IInv, NEW understood \in BOOLEAN, AuthStep(AuthChallenge(understood)),
         sasl \in DOMAIN Sasl
  PROVE  IInv'
<1>1. /\ auth \in {"Send", "Continue"} /\ phase' = phase /\ pending' = FALSE
      /\ state = "Auth" /\ UNCHANGED <<optVars, tlsVars, srvVars>>
  BY DEF AuthStep, AuthChallenge, Challenge
<1>2. outcome = "none" /\ (starttls => clean /\ phase # "clear")
  BY <1>1, InAuth
<1>3. Sasl[sasl].replies \in 0..2
  BY DEF Sasl, Anonymous, Plain, AuthLogin, Xoauth2, Oauthbearer, ScramSha256
<1>4. payloads \in Seq(Nat) /\ answered \in 0..2 /\ PayloadsInOrder
  BY DEF IInv, TypeOK, Numbered
<1>5. CASE /\ auth' = "Continue" /\ payloads' = Append(payloads, answered')
           /\ answered' \in 0..2 /\ Len(payloads) = answered'
           /\ UNCHANGED <<state, capability, preAuth, outcome, autoId, ids, observed>>
  <2> USE DEF IInv, optVars, tlsVars, srvVars
  <2>1. /\ payloads' \in Seq(Nat) /\ Len(payloads') = answered' + 1
        /\ \A i \in 1..Len(payloads') : payloads'[i] = i - 1
    BY <1>4, <1>5 DEF PayloadsInOrder
  <2>2. TypeOK'
    <3>1. auth' \in {"Start", "Send", "Continue", "Capability", "Id"} /\ pending' \in BOOLEAN
      BY <1>1, <1>5
    <3> QED
      BY <1>1, <1>5, <2>1, <3>1 DEF TypeOK
  <2>3. Unstarted' /\ Sealed'
    BY <1>1, <1>2, <1>5 DEF Unstarted, Opening, Sealed
  <2>4. Numbered'
    BY <1>1, <1>5, <2>1 DEF Numbered, PayloadsInOrder
  <2>5. Consented'
    BY <1>2, <1>5 DEF Consented, Authenticated
  <2>6. Fresh'
    BY <1>1, <1>2, <1>5 DEF Fresh, CapabilityIsFresh
  <2> QED
    BY <2>2, <2>3, <2>4, <2>5, <2>6
<1>6. CASE Held
  <2>1. payloads = <<>> /\ answered = 0
    BY <1>6 DEF Held, IInv, Numbered
  <2>2. /\ auth' = "Continue" /\ payloads' = Append(payloads, 0)
        /\ UNCHANGED <<answered, state, capability, preAuth, outcome, autoId, ids, observed>>
    BY <1>6 DEF AuthStep, AuthChallenge, Challenge
  <2> QED
    BY <1>4, <1>5, <2>1, <2>2
<1>7. CASE ~Held /\ understood /\ answered < Sasl[sasl].replies
  <2>1. Len(payloads) = answered + 1
    BY <1>1, <1>7 DEF Held, IInv, Numbered
  <2>2. /\ auth' = "Continue" /\ payloads' = Append(payloads, answered + 1) /\ answered' = answered + 1
        /\ UNCHANGED <<state, capability, preAuth, outcome, autoId, ids, observed>>
    BY <1>7 DEF AuthStep, AuthChallenge, Challenge
  <2> QED
    BY <1>3, <1>4, <1>5, <1>7, <2>1, <2>2
<1>8. CASE ~Held /\ ~(understood /\ answered < Sasl[sasl].replies)
  <2>1. AuthFails /\ UNCHANGED <<answered, payloads>>
    BY <1>8 DEF AuthStep, AuthChallenge, Challenge
  <2>2. pending' = pending
    BY <1>1, <1>8 DEF Held, IInv, TypeOK
  <2> QED
    BY <1>1, <2>1, <2>2, AuthFailsInv DEF AuthStep
<1> QED
  BY <1>6, <1>7, <1>8

\* The mechanisms, framed alike.
LEMMA AuthOfInv ==
  ASSUME IInv, NEW m \in DOMAIN Sasl, AuthStep(AuthOf(m))
  PROVE  IInv'
<1>1. sasl \in DOMAIN Sasl /\ Authenticate
  BY DEF AuthStep, AuthOf
<1>2. CASE AuthStart
  BY <1>1, <1>2, AuthStartInv DEF AuthStep
<1>3. ASSUME NEW o \in Answer("auth"), AuthSend(o)
      PROVE  IInv'
  <2>1. auth = "Send" /\ AuthStep(Status(o, SentFirst /\ Sasl[sasl].inline))
    BY <1>3 DEF AuthSend, AuthStep
  <2>2. (SentFirst /\ Sasl[sasl].inline) \in BOOLEAN /\ (SentFirst /\ Sasl[sasl].inline => ~pending)
    BY DEF SentFirst
  <2> QED
    BY <1>1, <2>1, <2>2, StatusInv
<1>4. ASSUME NEW o \in Answer("auth"), AuthContinue(o)
      PROVE  IInv'
  <2>1. auth = "Continue" /\ AuthStep(Status(o, TRUE)) /\ ~pending
    BY <1>4 DEF AuthContinue, AuthStep, IInv, Numbered
  <2> QED
    BY <1>1, <2>1, StatusInv
<1>5. ASSUME NEW understood \in BOOLEAN, AuthChallenge(understood)
      PROVE  IInv'
  BY <1>1, <1>5, ChallengeInv DEF AuthStep
<1>6. ASSUME NEW o \in Answer(phase), AuthCapability(o)
      PROVE  IInv'
  BY <1>6, AuthCapabilityInv DEF AuthStep
<1>7. ASSUME NEW o \in Answer(phase), AuthId(o)
      PROVE  IInv'
  BY <1>7, AuthIdInv DEF AuthStep
<1> QED
  BY <1>1, <1>2, <1>3, <1>4, <1>5, <1>6, <1>7 DEF Authenticate

\* The LOGIN command.
LEMMA LoginInv == IInv /\ AuthStep(ResumeLogin) => IInv'
<1> SUFFICES ASSUME IInv, AuthStep(ResumeLogin) PROVE IInv'
  OBVIOUS
<1>1. /\ state = "Auth" /\ UNCHANGED <<optVars, tlsVars, srvVars>> /\ sasl = "Login"
      /\ outcome = "none" /\ (starttls => clean /\ phase # "clear")
  BY InAuth DEF AuthStep, ResumeLogin
<1>2. Agreed
  BY <1>1 DEF Agreed, Sasl
<1>3. ASSUME NEW valid \in BOOLEAN, LoginStart(valid)
      PROVE  IInv'
  <2> USE DEF IInv, optVars, tlsVars, srvVars
  <2>1. auth = "Start" /\ payloads = <<>> /\ answered = 0 /\ ~pending
        /\ ids = 0 /\ observed = "none" /\ UNCHANGED <<pending, answered, phase>>
    BY <1>3 DEF LoginStart, Unstarted
  <2>2. CASE valid
    <3>1. /\ auth' = "Send" /\ payloads' = <<0>>
          /\ UNCHANGED <<state, capability, preAuth, outcome, autoId, ids, observed>>
      BY <1>3, <2>2 DEF LoginStart
    <3>2. payloads' \in Seq(Nat) /\ Len(payloads') = 1 /\ payloads'[1] = 0
      BY <3>1
    <3>3. TypeOK'
      BY <1>1, <2>1, <3>1, <3>2 DEF TypeOK
    <3>4. Unstarted' /\ Sealed'
      BY <1>1, <2>1, <3>1 DEF Unstarted, Opening, Sealed
    <3>5. Numbered'
      BY <2>1, <3>1, <3>2 DEF Numbered, PayloadsInOrder
    <3>6. Consented' /\ Fresh'
      BY <1>1, <2>1, <3>1 DEF Consented, Authenticated, Fresh, CapabilityIsFresh
    <3> QED
      BY <3>3, <3>4, <3>5, <3>6
  <2>3. CASE ~valid
    BY <1>1, <1>3, <2>1, <2>3, AuthFailsInv DEF LoginStart, AuthStep
  <2> QED
    BY <2>2, <2>3
<1>4. ASSUME NEW o \in Answer("auth"), LoginSend(o)
      PROVE  IInv'
  <2>1. auth = "Send" /\ phase' = (IF o.kind = "OK" THEN "auth" ELSE phase)
        /\ UNCHANGED <<pending, answered, payloads>>
    BY <1>4 DEF LoginSend
  <2>2. NewestOfLogin(o) \in {"none", "auth", "before"}
    BY AnswerFields DEF Phases
  <2>5. ~pending
    BY <1>1 DEF IInv, Numbered
  <2>3. CASE o.kind = "OK"
    BY <1>1, <1>2, <1>4, <2>1, <2>2, <2>3, <2>5, WantsCapabilityInv DEF LoginSend, AuthStep
  <2>4. CASE o.kind # "OK"
    BY <1>1, <1>4, <2>1, <2>4, AuthFailsInv DEF LoginSend, AuthStep
  <2> QED
    BY <2>3, <2>4
<1>5. ASSUME NEW o \in Answer(phase), AuthCapability(o)
      PROVE  IInv'
  BY <1>1, <1>5, AuthCapabilityInv DEF AuthStep
<1>6. ASSUME NEW o \in Answer(phase), AuthId(o)
      PROVE  IInv'
  BY <1>1, <1>6, AuthIdInv DEF AuthStep
<1> QED
  BY <1>3, <1>4, <1>5, <1>6 DEF AuthStep, ResumeLogin
-----------------------------------------------------------------------------
(* The invariant and what it gives.                                        *)

LEMMA StutterInv == IInv /\ UNCHANGED vars => IInv'
<1> SUFFICES ASSUME IInv, UNCHANGED vars PROVE IInv'
  OBVIOUS
<1> USE DEF IInv, vars, optVars, tlsVars, authVars, srvVars
<1>1. TypeOK'
  BY DEF TypeOK
<1>2. Unstarted' /\ Numbered' /\ Consented'
  BY DEF Unstarted, Numbered, PayloadsInOrder, Consented, Authenticated, Agreed
<1>3. Sealed' /\ Fresh'
  BY DEF Sealed, Fresh, CapabilityIsFresh
<1> QED
  BY <1>1, <1>2, <1>3

LEMMA NextInv == IInv /\ [Next]_vars => IInv'
<1> SUFFICES ASSUME IInv, [Next]_vars PROVE IInv'
  OBVIOUS
<1>1. CASE Connect
  BY <1>1, ConnectInv
<1>2. CASE Connected
  BY <1>2, ConnectedInv
<1>3. ASSUME NEW n \in 0..Len(wire), NEW rest \in BOOLEAN,
             DiscardGreeting(n, rest) \/ DiscardStartTls(n, rest)
      PROVE  IInv'
  BY <1>3, DiscardGreetingInv, DiscardStartTlsInv
<1>4. CASE WriteStartTls
  BY <1>4, WriteStartTlsInv
<1>5. ASSUME NEW agreed \in BOOLEAN, Upgrade(agreed)
      PROVE  IInv'
  BY <1>5, UpgradeInv
<1>6. ASSUME NEW o \in Answer(phase), Capability(o) \/ GreetingCapability(o)
      PROVE  IInv'
  BY <1>6, CapabilityInv, GreetingCapabilityInv
<1>7. ASSUME NEW kind \in {"OK", "PREAUTH", "BYE", "undecodable", "eof"},
             NEW code \in BOOLEAN, Greeting(kind, code)
      PROVE  IInv'
  BY <1>7, GreetingInv
<1>8. CASE Auth
  <2>1. ASSUME NEW m \in DOMAIN Sasl, AuthOf(m)
        PROVE  IInv'
    BY <1>8, <2>1, AuthOfInv DEF Auth, AuthStep
  <2>2. CASE ResumeLogin
    BY <1>8, <2>2, LoginInv DEF Auth, AuthStep
  <2>3. {"Anonymous", "Plain", "AuthLogin", "Xoauth2", "Oauthbearer", "ScramSha256"} \subseteq DOMAIN Sasl
    BY DEF Sasl
  <2> QED
    BY <1>8, <2>1, <2>2, <2>3
    DEF Auth, ResumeAnonymous, ResumePlain, ResumeAuthLogin, ResumeXoauth2,
        ResumeOauthbearer, ResumeScramSha256
<1>9. CASE StartTlsFails
  BY <1>9, StartTlsFailsInv
<1>10. CASE CallAuth
  BY <1>10, CallAuthInv
<1>11. CASE Server
  BY <1>11, ServerInv
<1>12. CASE UNCHANGED vars
  BY <1>12, StutterInv
<1> QED
  BY <1>1, <1>2, <1>3, <1>4, <1>5, <1>6, <1>7, <1>8, <1>9, <1>10, <1>11, <1>12
  DEF Next, Resume

LEMMA Invariant == Spec => []IInv
BY InitInv, NextInv, PTL DEF Spec

(* Every reachable state of an opening session is of its type, whatever    *)
(* the server sends in clear (session.rs:324-354).                         *)
THEOREM TypeCorrect == Spec => []TypeOK
<1>1. IInv => TypeOK
  BY DEF IInv
<1> QED
  BY <1>1, Invariant, PTL

(* Nothing read in clear after the answer to STARTTLS, not even the start  *)
(* of a line, is left when the session goes on over TLS, and nothing is    *)
(* written of the credentials before (starttls.rs:234-271).                *)
THEOREM UpgradeIsClean == Spec => []CleanUpgrade
<1>1. IInv => CleanUpgrade
  BY DEF IInv, Sealed, CleanUpgrade
<1> QED
  BY <1>1, Invariant, PTL

(* The payloads of the mechanism are written in its order, the first one   *)
(* once, for every mechanism and every server (auth_plain.rs:261-312).     *)
THEOREM PayloadOrder == Spec => []PayloadsInOrder
<1>1. IInv => PayloadsInOrder
  BY DEF IInv, Numbered
<1> QED
  BY <1>1, Invariant, PTL

(* Success means that the server and the mechanism agreed, and that ID was *)
(* sent when it was asked for (auth_scram_sha_256.rs:340-428).             *)
THEOREM SuccessIsAuthenticated == Spec => []OkMeansAuthenticated
<1>1. IInv => OkMeansAuthenticated
  BY DEF IInv, TypeOK, Consented, Authenticated, Agreed, OkMeansAuthenticated
<1> QED
  BY <1>1, Invariant, PTL

(* An open session knows the capabilities of its last phase                *)
(* (session.rs:269-274, 548-552).                                          *)
THEOREM FreshCapability == Spec => []CapabilityIsFresh
<1>1. IInv => CapabilityIsFresh
  BY DEF IInv, Fresh
<1> QED
  BY <1>1, Invariant, PTL
=============================================================================
