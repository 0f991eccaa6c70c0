---------------------------- MODULE SessionOpen ----------------------------
(***************************************************************************)
(* ImapSessionOpen (src/session.rs) opens a session: it connects, upgrades *)
(* to TLS when asked, reads the greeting and the capabilities, and         *)
(* authenticates.  Its sub-coroutines are part of it here: ImapStartTls    *)
(* line by line, for it reads the socket itself; the others, which run     *)
(* over ImapSend, one exchange per step, whose outcome is any ImapSend may *)
(* return (module ImapSend).                                               *)
(*                                                                         *)
(* A capability list is told by the phase of the session the server        *)
(* announced it in; "none" is a list not known, "before" one announced in  *)
(* the exchange that authenticates, before it took effect.  The SASL       *)
(* mechanisms (io-sasl), the sockets and the server are external.          *)
(***************************************************************************)
EXTENDS Naturals, Sequences

CONSTANTS
  Mechanisms,   \* the credentials the caller may have
  MaxLines      \* bound: lines in clear beside the greeting and the answer

ASSUME MaxLinesAssumption == MaxLines \in Nat

-----------------------------------------------------------------------------
(* The mechanisms.  `replies` counts the challenges one answers after its  *)
(* first payload, `done` holds the counts after which it agrees that the   *)
(* exchange is over, `inline` says that a status may answer AUTHENTICATE.  *)

Anonymous == [replies |-> 0, done |-> {0}, inline |-> TRUE]
Plain == [replies |-> 0, done |-> {0}, inline |-> TRUE]
\* The username, then the password: a success before it is not looked into.
AuthLogin == [replies |-> 1, done |-> {0, 1}, inline |-> FALSE]
\* The only challenge explains why the token is refused.
Xoauth2 == [replies |-> 1, done |-> {0}, inline |-> TRUE]
Oauthbearer == [replies |-> 1, done |-> {0}, inline |-> TRUE]
\* The salt, then the signature that proves the server.
ScramSha256 == [replies |-> 2, done |-> {2}, inline |-> TRUE]

Sasl == [Anonymous |-> Anonymous, Plain |-> Plain, AuthLogin |-> AuthLogin,
         Xoauth2 |-> Xoauth2, Oauthbearer |-> Oauthbearer, ScramSha256 |-> ScramSha256]

\* "Login" is the LOGIN command, "Other" a mechanism that is not framed.
ASSUME MechanismsAssumption ==
  Mechanisms \subseteq DOMAIN Sasl \cup {"None", "Login", "Other"}

-----------------------------------------------------------------------------
Phases == {"clear", "tls", "auth"}
List == Phases \cup {"none", "before"}

VARIABLES
  \* ImapSessionOpen
  transport, starttls, saslIr, autoId, sasl, state, capability, preAuth,
  outcome,      \* "none", or what Complete returned
  direct,       \* the caller authenticates afterwards, with a client method
  \* ImapStartTls
  tls, buf,
  partial,      \* buf also holds the start of Head(wire)
  \* the authentication coroutine
  auth, pending, observed,
  \* the mechanism
  answered,     \* challenges answered
  \* the server
  phase,        \* of the session, as the server has it
  wire,         \* lines sent in clear and not read yet
  advertises,   \* phases in which it advertises SASL-IR
  command,      \* STARTTLS: "unsent", "received" or "answered"
  sent,         \* lines sent in clear, the answer set apart
  \* history
  clean,        \* the last line read is the answer to STARTTLS
  payloads,     \* payloads written, numbered as the mechanism gives them
  ids           \* ID commands written

optVars == <<transport, starttls, saslIr, sasl, direct, advertises>>
tlsVars == <<tls, buf, partial, clean>>
authVars == <<auth, pending, observed, answered, payloads>>
srvVars == <<wire, command, sent>>
vars == <<optVars, state, capability, preAuth, outcome, autoId, ids, tlsVars,
          authVars, phase, srvVars>>

Secure == transport = "Tls"
States == {"Connect", "Connected", "StartTls", "Upgraded", "Capability", "Greeting",
           "GreetingCapability", "Auth", "Complete"}

TypeOK ==
  /\ transport \in {"Tcp", "Tls", "Unix"} /\ starttls \in BOOLEAN
  /\ saslIr \in {"auto", "on", "off"} /\ autoId \in BOOLEAN /\ sasl \in Mechanisms
  /\ direct \in BOOLEAN
  /\ state \in States /\ capability \in List /\ preAuth \in BOOLEAN
  /\ outcome \in {"none", "Ok", "Err"} /\ (state = "Complete" <=> outcome # "none")
  /\ tls \in {"DiscardGreeting", "Tag", "DiscardStartTls"}
  /\ buf \in Seq({"line", "own"}) /\ partial \in BOOLEAN
  /\ auth \in {"Start", "Send", "Continue", "Capability", "Id"}
  /\ pending \in BOOLEAN /\ observed \in List /\ answered \in 0..2
  /\ phase \in Phases /\ advertises \subseteq Phases
  /\ wire \in Seq({"line", "own"}) /\ command \in {"unsent", "received", "answered"}
  /\ sent \in Nat
  /\ clean \in BOOLEAN /\ payloads \in Seq(Nat) /\ ids \in Nat

\* The transport an IMAP URL maps onto.
FromUrl(scheme) == CASE scheme = "imap" -> "Tcp"
                     [] scheme = "imaps" -> "Tls"
                     [] scheme = "unix" -> "Unix"

Init ==
  /\ \E scheme \in {"imap", "imaps", "unix"} : transport = FromUrl(scheme)
  /\ starttls \in BOOLEAN /\ saslIr \in {"auto", "on", "off"} /\ autoId \in BOOLEAN
  /\ sasl \in Mechanisms /\ direct \in BOOLEAN
  /\ sasl = "AuthLogin" => direct
  /\ sasl \in {"None", "Other"} => ~direct
  /\ state = "Connect" /\ capability = "none" /\ preAuth = FALSE /\ outcome = "none"
  /\ tls = "DiscardGreeting" /\ buf = <<>> /\ partial = FALSE
  /\ auth = "Start" /\ pending = FALSE /\ observed = "none" /\ answered = 0
  /\ phase = IF Secure THEN "tls" ELSE "clear"
  /\ wire = <<>> /\ command = "unsent" /\ sent = 0
  /\ advertises \in SUBSET {"clear", "tls"}
  /\ clean = FALSE /\ payloads = <<>> /\ ids = 0

CompleteQuietly(result) == state' = "Complete" /\ UNCHANGED outcome   \* mutant: no result
Complete(result) == state' = "Complete" /\ outcome' = result
Err == Complete("Err") /\ UNCHANGED <<capability, preAuth>>

-----------------------------------------------------------------------------
(* Connection and STARTTLS.                                                *)

Connect ==
  /\ state = "Connect"
  /\ IF starttls /\ Secure THEN Err
     ELSE state' = "Connected" /\ UNCHANGED <<capability, preAuth, outcome>>
  /\ UNCHANGED <<optVars, autoId, ids, tlsVars, authVars, phase, srvVars>>

Connected ==
  /\ state = "Connected"
  /\ state' = IF starttls THEN "StartTls" ELSE "Greeting"
  /\ UNCHANGED <<optVars, capability, preAuth, outcome, autoId, ids, tlsVars, authVars,
                 phase, srvVars>>

\* A read of n whole lines, and perhaps of the start of one more.
Read(n, rest) ==
  /\ n <= Len(wire) /\ (rest => n < Len(wire)) /\ (n > 0 \/ (rest /\ ~partial))
  /\ wire' = SubSeq(wire, n + 1, Len(wire))
  /\ partial' = rest

\* The first line is the greeting, whatever it says; what follows stays.
DiscardGreeting(n, rest) ==
  /\ state = "StartTls" /\ tls = "DiscardGreeting" /\ Read(n, rest)
  /\ IF n = 0 THEN UNCHANGED <<tls, buf>>
     ELSE tls' = "Tag" /\ buf' = SubSeq(wire, 2, n)
  /\ UNCHANGED <<optVars, state, capability, preAuth, outcome, autoId, ids, clean, authVars,
                 phase, command, sent>>

WriteStartTls ==
  /\ state = "StartTls" /\ tls = "Tag"
  /\ tls' = "DiscardStartTls" /\ command' = "received"
  /\ UNCHANGED <<optVars, state, capability, preAuth, outcome, autoId, ids, buf, partial,
                 clean, authVars, phase, wire, sent>>

OwnLineLast(lines) == {i \in {Len(lines)} \cap (1..Len(lines)) : lines[i] = "own"}  \* mutant: looked for in the last line
OwnLines(lines) == {i \in 1..Len(lines) : lines[i] = "own"}
\* What is left of the bytes read once the tagged line, the i-th, was found.
LeftoverLines(lines, i, rest) == i < Len(lines)   \* mutant: whole lines only
Leftover(lines, i, rest) == i < Len(lines) \/ rest

\* Lines are dropped up to the tagged one, whatever its status; bytes past it
\* refuse the upgrade.
DiscardStartTls(n, rest) ==
  /\ state = "StartTls" /\ tls = "DiscardStartTls" /\ Read(n, rest)
  /\ LET lines == buf \o SubSeq(wire, 1, n)
         own == OwnLines(lines)
         at == CHOOSE i \in own : \A j \in own : i <= j
     IN /\ buf' = <<>>
        /\ IF own = {} THEN UNCHANGED <<state, capability, preAuth, outcome, clean>>
          ELSE /\ clean' = (at = Len(lines) /\ ~rest)
               /\ IF Leftover(lines, at, rest) THEN Err
                  ELSE state' = "Upgraded" /\ UNCHANGED <<capability, preAuth, outcome>>
  /\ UNCHANGED <<optVars, autoId, ids, tls, authVars, phase, command, sent>>

\* A line longer than the limit, or the end of the stream.
StartTlsFails ==
  /\ state = "StartTls" /\ tls # "Tag" /\ (partial \/ wire = <<>>)
  /\ Err
  /\ UNCHANGED <<optVars, autoId, ids, tlsVars, authVars, phase, srvVars>>

\* WantsTlsUpgrade: the caller's handshake succeeds when the server agreed and
\* nothing is left to read in clear.
Upgrade(agreed) ==
  /\ state = "Upgraded"
  /\ agreed => wire = <<>>
  /\ IF agreed
       THEN phase' = "tls" /\ state' = "Capability" /\ UNCHANGED <<capability, preAuth, outcome>>
       ELSE Err /\ UNCHANGED phase
  /\ UNCHANGED <<optVars, autoId, ids, tlsVars, authVars, srvVars>>

-----------------------------------------------------------------------------
(* Exchanges over ImapSend: what one returns.  A status carries a list in  *)
(* its code, and untagged data and status responses each carry one, as of  *)
(* before or after the command took effect.                                *)

Answer(after) ==
  LET lists == {"none", after} \cup (IF phase = after THEN {} ELSE {"before"}) IN
  [kind : {"bye", "NO", "failed"}, code : {"none"}, data : {"none"}, untagged : {"none"}]
    \cup [kind : {"OK"}, code : {"none", after}, data : lists, untagged : lists]

\* The last list named by the code, the data and the untagged statuses.
Newest(o) == IF o.untagged # "none" THEN o.untagged
             ELSE IF o.data # "none" THEN o.data ELSE o.code
NewestOfLogin(o) == IF o.data # "none" THEN o.data ELSE o.code

InitialRequest == saslIr = "on" \/ (saslIr = "auto" /\ capability \in advertises)

\* What follows once the capabilities are known.
WantsAuth(list, pre) ==
  /\ capability' = list /\ preAuth' = pre
  /\ IF pre \/ sasl = "None" \/ direct THEN Complete("Ok")
     ELSE IF sasl = "Other" THEN Complete("Err")
     ELSE state' = "Auth" /\ UNCHANGED outcome

\* ImapCapabilityGet.
CapabilityGet(o, ok) ==
  IF o.kind = "OK" /\ Newest(o) # "none" THEN ok
  ELSE Err /\ UNCHANGED <<autoId, ids, auth, observed>>

Capability(o) ==
  /\ state = "Capability"
  /\ CapabilityGet(o, WantsAuth(Newest(o), FALSE) /\ UNCHANGED <<autoId, ids, auth, observed>>)
  /\ UNCHANGED <<optVars, tlsVars, pending, answered, payloads, phase, srvVars>>

\* The greeting, with or without a list; its PREAUTH form.
Greeting(kind, code) ==
  /\ state = "Greeting"
  /\ LET pre == kind = "PREAUTH" IN
     /\ phase' = IF pre THEN "auth" ELSE phase
     /\ IF kind \in {"BYE", "undecodable", "eof"} THEN Err
        ELSE IF code THEN WantsAuth(phase', pre)
        ELSE /\ state' = "GreetingCapability" /\ preAuth' = pre
             /\ UNCHANGED <<capability, outcome>>
  /\ UNCHANGED <<optVars, autoId, ids, tlsVars, authVars, srvVars>>

GreetingCapability(o) ==
  /\ state = "GreetingCapability"
  /\ CapabilityGet(o, WantsAuth(Newest(o), preAuth) /\ UNCHANGED <<autoId, ids, auth, observed>>)
  /\ UNCHANGED <<optVars, tlsVars, pending, answered, payloads, phase, srvVars>>

-----------------------------------------------------------------------------
(* Authentication.                                                         *)

\* A client method authenticates a session opened without credentials.
CallAuth ==
  /\ state = "Complete" /\ outcome = "Ok" /\ direct /\ ~preAuth /\ phase # "auth"
  /\ auth = "Start"
  /\ state' = "Auth" /\ outcome' = "none"
  /\ UNCHANGED <<optVars, capability, preAuth, autoId, ids, tlsVars, authVars, phase, srvVars>>

EnsureCapabilities == ~direct

AuthFails == Err /\ UNCHANGED <<autoId, ids, auth, observed>>

\* The list is known: what is left is ID, or nothing.
WantsId(list) ==
  /\ observed' = list
  /\ autoId' = FALSE
  /\ ids' = IF autoId THEN ids + 1 ELSE ids
  /\ IF autoId THEN auth' = "Id" /\ UNCHANGED <<state, capability, preAuth, outcome>>
     ELSE capability' = list /\ Complete("Ok") /\ UNCHANGED <<auth, preAuth>>

WantsCapabilityStale(list) ==       \* mutant: the list of before authentication will do
  WantsId(IF list = "none" THEN capability ELSE list)
WantsCapability(list) ==
  LET known == IF list = "none" THEN observed ELSE list IN
  IF EnsureCapabilities /\ known = "none"
    THEN auth' = "Capability" /\ UNCHANGED <<state, capability, preAuth, outcome, autoId,
                                             ids, observed>>
    ELSE WantsId(known)

\* resume_sasl(Done): the mechanism is told that the server declared success.
DoneUntold == TRUE                  \* mutant: it is not told
Done == answered \in Sasl[sasl].done

AuthStart ==
  /\ auth = "Start"
  /\ pending' = ~InitialRequest
  /\ payloads' = IF InitialRequest THEN <<0>> ELSE <<>>
  /\ auth' = "Send"
  /\ UNCHANGED <<state, capability, preAuth, outcome, autoId, ids, observed, answered, phase>>

\* The payload that answers a challenge is the one held back, if there is one;
\* otherwise the challenge is given to the mechanism.
ChallengeFed == FALSE               \* mutant: the mechanism is given the first prompt too
Held == pending

Challenge(understood) ==
  /\ pending' = FALSE
  /\ IF Held
       THEN payloads' = Append(payloads, 0) /\ auth' = "Continue"
            /\ UNCHANGED <<answered, state, capability, preAuth, outcome, autoId, ids, observed>>
     ELSE IF understood /\ answered < Sasl[sasl].replies
       THEN /\ payloads' = Append(payloads, answered + 1) /\ answered' = answered + 1
            /\ auth' = "Continue"
            /\ UNCHANGED <<state, capability, preAuth, outcome, autoId, ids, observed>>
     ELSE AuthFails /\ UNCHANGED <<answered, payloads>>
  /\ UNCHANGED phase

\* The status that ends the exchange.
Status(o, accepted) ==
  /\ phase' = IF o.kind = "OK" THEN "auth" ELSE phase
  /\ IF o.kind = "OK" /\ accepted /\ Done THEN WantsCapability(Newest(o)) ELSE AuthFails
  /\ UNCHANGED <<pending, answered, payloads>>

\* Success before the first payload was sent is refused.
SentFirst == ~pending

AuthSend(o) == auth = "Send" /\ Status(o, SentFirst /\ Sasl[sasl].inline)
AuthContinue(o) == auth = "Continue" /\ Status(o, TRUE)
AuthChallenge(understood) == auth \in {"Send", "Continue"} /\ Challenge(understood)

AuthCapability(o) ==
  /\ auth = "Capability"
  /\ CapabilityGet(o, WantsId(Newest(o)))
  /\ UNCHANGED <<pending, answered, payloads, phase>>

AuthId(o) ==
  /\ auth = "Id"
  /\ IF o.kind = "OK"
       THEN capability' = observed /\ Complete("Ok") /\ UNCHANGED <<preAuth, autoId, ids,
                                                                    auth, observed>>
       ELSE AuthFails
  /\ UNCHANGED <<pending, answered, payloads, phase>>

Authenticate ==
  \/ AuthStart
  \/ \E o \in Answer("auth") : AuthSend(o) \/ AuthContinue(o)
  \/ \E understood \in BOOLEAN : AuthChallenge(understood)
  \/ \E o \in Answer(phase) : AuthCapability(o) \/ AuthId(o)

\* One coroutine per mechanism, framed alike.
AuthOf(m) == sasl = m /\ Authenticate
ResumeAnonymous == AuthOf("Anonymous")
ResumePlain == AuthOf("Plain")
ResumeAuthLogin == AuthOf("AuthLogin")
ResumeXoauth2 == AuthOf("Xoauth2")
ResumeOauthbearer == AuthOf("Oauthbearer")
ResumeScramSha256 == AuthOf("ScramSha256")

\* The LOGIN command: credentials that cannot be encoded are refused; lists in
\* untagged statuses are not looked at.
LoginStart(valid) ==
  /\ auth = "Start"
  /\ IF valid THEN /\ auth' = "Send" /\ payloads' = <<0>>
                   /\ UNCHANGED <<state, capability, preAuth, outcome, autoId, ids, observed>>
     ELSE AuthFails /\ UNCHANGED payloads
  /\ UNCHANGED <<pending, answered, phase>>
LoginSend(o) ==
  /\ auth = "Send"
  /\ phase' = IF o.kind = "OK" THEN "auth" ELSE phase
  /\ IF o.kind = "OK" THEN WantsCapability(NewestOfLogin(o)) ELSE AuthFails
  /\ UNCHANGED <<pending, answered, payloads>>
ResumeLogin ==
  /\ sasl = "Login"
  /\ \/ \E valid \in BOOLEAN : LoginStart(valid)
     \/ \E o \in Answer("auth") : LoginSend(o)
     \/ \E o \in Answer(phase) : AuthCapability(o) \/ AuthId(o)

Auth ==
  /\ state = "Auth"
  /\ \/ ResumeAnonymous \/ ResumePlain \/ ResumeAuthLogin \/ ResumeXoauth2
     \/ ResumeOauthbearer \/ ResumeScramSha256 \/ ResumeLogin
  /\ UNCHANGED <<optVars, tlsVars, srvVars>>

-----------------------------------------------------------------------------
(* The server in clear (external): a greeting, the answer to STARTTLS, and *)
(* lines it has no reason to send.                                         *)

InClear ==
  /\ state = "StartTls"
  /\ UNCHANGED <<optVars, state, capability, preAuth, outcome, autoId, ids, tlsVars, authVars,
                 phase>>
SrvLine ==
  /\ sent <= MaxLines /\ sent' = sent + 1
  /\ wire' = Append(wire, "line")
  /\ InClear /\ UNCHANGED command
SrvGreeting == sent = 0 /\ SrvLine
SrvAnswer ==
  /\ command = "received" /\ command' = "answered"
  /\ wire' = Append(wire, "own")
  /\ InClear /\ UNCHANGED sent

Server == SrvAnswer \/ SrvLine

Resume ==
  \/ Connect \/ Connected
  \/ \E n \in 0..Len(wire), rest \in BOOLEAN : DiscardGreeting(n, rest) \/ DiscardStartTls(n, rest)
  \/ WriteStartTls
  \/ \E agreed \in BOOLEAN : Upgrade(agreed)
  \/ \E o \in Answer(phase) : Capability(o) \/ GreetingCapability(o)
  \/ \E kind \in {"OK", "PREAUTH", "BYE", "undecodable", "eof"}, code \in BOOLEAN :
       Greeting(kind, code)
  \/ Auth

Next == Resume \/ StartTlsFails \/ CallAuth \/ Server

Spec == Init /\ [][Next]_vars
\* The coroutine runs on, each exchange is answered, and so is STARTTLS.
FairSpec == Spec /\ WF_vars(Resume) /\ WF_vars(SrvGreeting) /\ WF_vars(SrvAnswer)

-----------------------------------------------------------------------------
(* The session goes on over TLS only when what was read in clear ends with *)
(* the answer to STARTTLS, complete, and neither credentials nor ID are    *)
(* written before it does (session.rs:523-534, starttls.rs:234-271).       *)
CleanUpgrade ==
  starttls => /\ state = "Upgraded" => clean
              /\ payloads # <<>> \/ ids > 0 => clean /\ phase # "clear"

(* The server reads the payloads of the mechanism in its order, the first  *)
(* one first and once, inlined or not (auth_plain.rs:261-312).             *)
PayloadsInOrder == \A i \in 1..Len(payloads) : payloads[i] = i - 1

(* A session that had to authenticate ends well only with the server's     *)
(* consent, after the first payload was sent and with the consent of the   *)
(* mechanism, which for SCRAM is the proof of the server, and with the ID  *)
(* asked for (auth_scram_sha_256.rs:340-366, 419-428).                     *)
OkMeansAuthenticated ==
  outcome = "Ok" /\ sasl # "None" /\ ~preAuth /\ (direct => auth # "Start")
    => /\ phase = "auth" /\ payloads # <<>> /\ ~autoId
       /\ sasl \in DOMAIN Sasl => answered \in Sasl[sasl].done

(* The capabilities of an open session are those of its last phase: a list *)
(* read in clear does not outlive the upgrade, and one read before         *)
(* authentication is not reported after it, but one announced by the very  *)
(* exchange that authenticates (session.rs:269-274, 548-552).              *)
CapabilityIsFresh ==
  outcome = "Ok" => capability \in {phase} \cup (IF direct THEN {"none"} ELSE {})
                                  \cup (IF phase = "auth" THEN {"before"} ELSE {})

(* Opening a session ends, whatever the server says in clear, as long as   *)
(* it answers (session.rs:479-598, starttls.rs:234-271).                   *)
SessionEnds == state # "Complete" ~> state = "Complete"
=============================================================================
