---------------------------- MODULE MailboxWatch ----------------------------
(***************************************************************************)
(* ImapMailboxWatch (src/watch.rs) keeps a shadow of one mailbox and turns *)
(* its changes into events: it seeds the shadow, holds IDLE                *)
(* (src/rfc2177/idle.rs) until the server says something, re-reads the     *)
(* mailbox, and emits what differs.  This module composes the watch, the   *)
(* IDLE coroutine it nests, and a server whose mailbox other clients       *)
(* change meanwhile.                                                       *)
(*                                                                         *)
(* A command exchange (ImapSend.tla) is seen as four phases: to send,      *)
(* sent, answered by the server as of one instant, and completed by the    *)
(* tagged status, which may come later.                                    *)
(***************************************************************************)
EXTENDS Naturals, Sequences, FiniteSets, SequencesExt

CONSTANTS
  MaxUid,       \* bound: UIDs the server assigns
  Flags,        \* the message flags
  MaxChanges,   \* bound: changes made by other clients
  MaxElapsed,   \* bound: IDLE refresh timeouts
  Eager         \* the servers checked: whether one announces changes in the
                \* response to any command, and not only while an IDLE is held

ASSUME MaxUidAssumption == MaxUid \in Nat
ASSUME MaxChangesAssumption == MaxChanges \in Nat /\ MaxElapsed \in Nat
ASSUME EagerAssumption == Eager \subseteq BOOLEAN

Uids == 1..MaxUid
\* A mailbox, a shadow or a snapshot: flags by UID.
Contents == UNION {[U -> SUBSET Flags] : U \in SUBSET Uids}
Empty == <<>>
Event == [type : {"EnvelopeAdded", "FlagsAdded", "FlagsRemoved", "EnvelopeRemoved"},
          uid : Uids, flags : SUBSET Flags]

VARIABLES
  \* ImapMailboxWatch
  st, qresync, poll, uidValidity, highestModSeq, shadow, pending,
  idleDone, sawData,
  outcome,      \* "none", or what Complete returned
  \* ImapIdle
  idle,         \* its State
  timer,        \* "unset", "running", "elapsed"
  \* the exchange under way
  phase, reply

VARIABLES
  shutdown,     \* the shared AtomicBool
  replica,      \* history: what the consumer's copy is after the events it got
  view,         \* history: the mailbox as of the last answer the shadow is built on
  viewValidity  \* history: the UIDVALIDITY of that mailbox

VARIABLES
  mailbox, validity, nextUid,
  modseq,       \* per UID: the mod-sequence of its last change, 0 if none
  highest,      \* HIGHESTMODSEQ
  told,         \* the mailbox as the server announced it to this session
  selected,     \* its UIDVALIDITY then
  unread,       \* untagged responses sent during IDLE and not yet read
  eager,        \* one of Eager
  changes, elapsed

watchVars == <<st, uidValidity, highestModSeq, shadow, pending, idleDone, sawData, outcome>>
idleVars == <<idle, timer>>
cmdVars == <<phase, reply>>
ghostVars == <<replica, view, viewValidity>>
srvVars == <<mailbox, validity, nextUid, modseq, highest, changes>>
sesVars == <<told, selected, unread>>
optVars == <<qresync, poll, eager>>
vars == <<watchVars, idleVars, cmdVars, ghostVars, srvVars, sesVars, optVars,
          shutdown, elapsed>>

Examines == {"ExamineInitial", "ExamineQresync", "ExamineResync"}
Fetches == {"FetchBaseline", "FetchResync"}
Commands == Examines \cup Fetches \cup {"EnableQresync"}

NoReply == [validity |-> 0, modseq |-> 0, vanished |-> {}, items |-> Empty,
            later |-> Empty, notice |-> FALSE]

TypeOK ==
  /\ st \in Commands \cup {"BeginIdle", "Idle", "Waiting", "EmitDeltas", "Terminal"}
  /\ qresync \in BOOLEAN /\ poll \in BOOLEAN /\ eager \in Eager
  /\ uidValidity \in 0..2 /\ highestModSeq \in Nat
  /\ shadow \in Contents /\ pending \in Seq(Event)
  /\ idleDone \in BOOLEAN /\ sawData \in BOOLEAN
  /\ outcome \in {"none", "Ok", "Err"} /\ (outcome = "none" <=> st # "Terminal")
  /\ idle \in {"Idle", "Read", "Done"} /\ timer \in {"unset", "running", "elapsed"}
  /\ phase \in {"send", "sent", "served", "replied"}
  /\ reply \in [validity : 0..2, modseq : Nat, vanished : SUBSET Uids,
                items : Contents, later : Contents, notice : BOOLEAN]
  /\ shutdown \in BOOLEAN
  /\ replica \in Contents /\ view \in Contents /\ viewValidity \in 0..2
  /\ mailbox \in Contents /\ told \in Contents
  /\ validity \in 1..2 /\ selected \in 0..2 /\ nextUid \in 1..(MaxUid + 1)
  /\ modseq \in [Uids -> Nat] /\ highest \in Nat
  /\ unread \in BOOLEAN /\ changes \in 0..MaxChanges /\ elapsed \in 0..MaxElapsed

Init ==
  /\ qresync \in BOOLEAN /\ poll \in BOOLEAN /\ eager \in Eager
  /\ st = IF qresync THEN "EnableQresync" ELSE "ExamineInitial"
  /\ uidValidity = 0 /\ highestModSeq = 0 /\ shadow = Empty /\ pending = <<>>
  /\ idleDone = FALSE /\ sawData = FALSE /\ outcome = "none"
  /\ idle = "Idle" /\ timer = "unset"
  /\ phase = "send" /\ reply = NoReply
  /\ shutdown = FALSE
  /\ replica = Empty /\ view = Empty /\ viewValidity = 0
  /\ \E U \in {{}, {1} \cap Uids} : mailbox = [u \in U |-> {}]
  /\ nextUid = Cardinality(DOMAIN mailbox) + 1
  /\ validity = 1 /\ modseq = [u \in Uids |-> IF u \in DOMAIN mailbox THEN 1 ELSE 0]
  /\ highest = 1 /\ told = Empty /\ selected = 0 /\ unread = FALSE /\ changes = 0 /\ elapsed = 0

-----------------------------------------------------------------------------
(* Other clients change the mailbox (external).                            *)

Stamp(u) ==
  /\ changes < MaxChanges /\ changes' = changes + 1
  /\ highest' = highest + 1
  /\ modseq' = [modseq EXCEPT ![u] = highest + 1]
  /\ UNCHANGED <<validity, watchVars, idleVars, cmdVars, ghostVars, sesVars, optVars,
                 shutdown, elapsed>>

Deliver ==
  /\ nextUid \in Uids
  /\ mailbox' = [u \in DOMAIN mailbox \cup {nextUid} |->
                   IF u = nextUid THEN {} ELSE mailbox[u]]
  /\ nextUid' = nextUid + 1
  /\ Stamp(nextUid)

StoreFlags(u, fs) ==
  /\ u \in DOMAIN mailbox /\ mailbox[u] # fs
  /\ mailbox' = [mailbox EXCEPT ![u] = fs]
  /\ UNCHANGED nextUid
  /\ Stamp(u)

Expunge(u) ==
  /\ u \in DOMAIN mailbox
  /\ mailbox' = [v \in DOMAIN mailbox \ {u} |-> mailbox[v]]
  /\ UNCHANGED nextUid
  /\ Stamp(u)

\* The mailbox is deleted and created again, with one message under UID 1.
Recreate ==
  /\ validity = 1 /\ validity' = 2
  /\ changes < MaxChanges /\ changes' = changes + 1
  /\ MaxUid > 0
  /\ mailbox' = [u \in {1} |-> {}] /\ nextUid' = 2
  /\ modseq' = [u \in Uids |-> IF u = 1 THEN 1 ELSE 0] /\ highest' = 1
  /\ UNCHANGED <<watchVars, idleVars, cmdVars, ghostVars, sesVars, optVars,
                 shutdown, elapsed>>

-----------------------------------------------------------------------------
(* The server answers the session (external).                              *)

Serving == phase = "sent" /\ phase' = "served"
SameClient == UNCHANGED <<watchVars, idleVars, srvVars, optVars, shutdown, elapsed>>

ServeEnable ==
  /\ st = "EnableQresync" /\ Serving
  /\ reply' = NoReply
  /\ SameClient /\ UNCHANGED <<ghostVars, sesVars>>

\* EXAMINE opens the mailbox anew.  Only the first one may lack UIDVALIDITY.
\* Asked for a QRESYNC it names what changed since the client's mod-sequence,
\* unless the client's UIDVALIDITY is not the mailbox's; a server may name
\* UIDs the client never knew among the vanished.
ServeExamine ==
  /\ st \in Examines /\ Serving
  /\ \E v \in {validity} \cup (IF st = "ExamineInitial" THEN {0} ELSE {}),
        m \in {0, highest},
        all \in BOOLEAN :
       LET gone == {u \in Uids \ DOMAIN mailbox : all \/ modseq[u] > highestModSeq}
           changed == {u \in DOMAIN mailbox : modseq[u] > highestModSeq}
           named == st = "ExamineQresync" /\ validity = uidValidity
       IN reply' = [validity |-> v, modseq |-> m,
                    vanished |-> IF named THEN gone ELSE {},
                    items |-> IF named THEN [u \in changed |-> mailbox[u]] ELSE Empty,
                    later |-> Empty, notice |-> FALSE]
  /\ told' = mailbox /\ selected' = validity
  /\ IF st = "ExamineQresync"
       THEN view' = mailbox /\ viewValidity' = validity
       ELSE UNCHANGED <<view, viewValidity>>
  /\ UNCHANGED <<replica, unread>> /\ SameClient

\* FETCH 1:* (UID FLAGS) covers the messages announced to the session that
\* are still there.  A session whose mailbox was deleted gets no answer but
\* a failure.
ServeFetch ==
  /\ st \in Fetches /\ Serving /\ selected = validity
  /\ LET snap == [u \in DOMAIN told \cap DOMAIN mailbox |-> mailbox[u]]
     IN /\ reply' = [reply EXCEPT !.items = snap]
        /\ told' = [u \in DOMAIN told |-> IF u \in DOMAIN snap THEN snap[u] ELSE told[u]]
        /\ view' = snap
  /\ viewValidity' = validity
  /\ UNCHANGED <<replica, selected, unread>> /\ SameClient

\* "+ idling"
ServeIdle ==
  /\ st = "Idle" /\ idle = "Idle" /\ Serving
  /\ reply' = NoReply
  /\ SameClient /\ UNCHANGED <<ghostVars, sesVars>>

\* The completion of IDLE, after DONE.
ServeDone ==
  /\ st = "Idle" /\ idle = "Done" /\ Serving
  /\ reply' = NoReply
  /\ SameClient /\ UNCHANGED <<ghostVars, sesVars>>

\* The session has not heard of the last changes.
Unannounced == told # mailbox \/ selected # validity

\* The tagged status.  An eager server first announces what changed since its
\* answer.  The response to a FETCH may not announce an expunge, and the flags
\* it announces are merged in the items of the message by ImapMessageFetch.
\* That to a QRESYNC EXAMINE goes on with the FETCHes announced, which name
\* their UIDs or do not; a message that has come is announced by EXISTS, and
\* one that has gone by a VANISHED without EARLIER, which is not looked at.
\* No other response has what is announced in it looked at.
FinishCommand(announce) ==
  /\ phase = "served" /\ phase' = "replied"
  /\ announce => eager /\ told # mailbox /\ selected = validity /\ st # "EnableQresync"
  /\ LET merged == [u \in DOMAIN reply.items |->
                      IF u \in DOMAIN mailbox THEN mailbox[u] ELSE reply.items[u]]
         heard == [u \in DOMAIN told \cup DOMAIN mailbox |->
                     IF u \in DOMAIN mailbox THEN mailbox[u] ELSE told[u]]
         changed == {u \in DOMAIN told \cap DOMAIN mailbox : told[u] # mailbox[u]}
     IN CASE ~announce -> UNCHANGED <<reply, view, told>>
          [] announce /\ st \in Fetches ->
               /\ reply' = [reply EXCEPT !.items = merged, !.notice = TRUE]
               /\ view' = merged
               /\ told' = heard
          [] announce /\ st = "ExamineQresync" ->
               \E named \in {{}, changed} :
                 /\ reply' = [reply EXCEPT !.later = [u \in named |-> mailbox[u]],
                                          !.notice = TRUE]
                 /\ view' = [u \in DOMAIN view |->
                               IF u \in named THEN mailbox[u] ELSE view[u]]
                 /\ told' = mailbox
          [] OTHER ->
               /\ reply' = [reply EXCEPT !.notice = TRUE]
               /\ told' = mailbox
               /\ UNCHANGED view
  /\ UNCHANGED <<replica, viewValidity, selected, unread>> /\ SameClient

\* While the IDLE is held, changes are announced as they come, the loss of the
\* mailbox included.
Announce ==
  /\ st = "Idle" /\ idle = "Read" /\ Unannounced
  /\ told' = mailbox /\ selected' = validity /\ unread' = TRUE
  /\ SameClient /\ UNCHANGED <<cmdVars, ghostVars>>

\* A line with nothing in it that the watch looks at: "still here", a BYE before
\* the end, a stray status, the beginning of a line.
KeepAlive ==
  /\ st = "Idle" /\ idle = "Read" /\ ~unread
  /\ unread' = TRUE
  /\ SameClient /\ UNCHANGED <<cmdVars, ghostVars, told, selected>>

Elapse ==
  /\ timer = "running" /\ elapsed < MaxElapsed
  /\ timer' = "elapsed" /\ elapsed' = elapsed + 1
  /\ UNCHANGED <<watchVars, idle, cmdVars, ghostVars, srvVars, sesVars, optVars, shutdown>>

Shutdown ==
  /\ ~shutdown /\ shutdown' = TRUE
  /\ UNCHANGED <<watchVars, idleVars, cmdVars, ghostVars, srvVars, sesVars, optVars, elapsed>>

Answer ==
  \/ ServeEnable \/ ServeExamine \/ ServeFetch \/ ServeIdle \/ ServeDone
  \/ \E announce \in BOOLEAN : FinishCommand(announce)
Others ==
  \/ Deliver \/ Recreate
  \/ \E u \in Uids : Expunge(u) \/ \E fs \in SUBSET Flags : StoreFlags(u, fs)

-----------------------------------------------------------------------------
(* The deltas.                                                             *)

Added(u, fs) == [type |-> "EnvelopeAdded", uid |-> u, flags |-> fs]
Removed(u) == [type |-> "EnvelopeRemoved", uid |-> u, flags |-> {}]

\* push_flag_deltas
FlagDeltas(u, old, new) ==
  (IF new \subseteq old THEN <<>>
   ELSE <<[type |-> "FlagsAdded", uid |-> u, flags |-> new \ old]>>)
  \o (IF old \subseteq new THEN <<>>
      ELSE <<[type |-> "FlagsRemoved", uid |-> u, flags |-> old \ new]>>)

\* Only a message the shadow holds can go.
VanishedUnknown(base, gone) == gone \* mutant: a message never seen goes too
Vanished(base, gone) == DOMAIN base \cap gone

\* The events of removing `gone` and then inserting `items` in a shadow, in UID
\* order: what compute_deltas and compute_snapshot_deltas have in common.
Deltas(base, gone, items) ==
  LET left == DOMAIN base \ gone
  IN FlattenSeq([u \in Uids |-> IF u \in Vanished(base, gone) THEN <<Removed(u)>> ELSE <<>>])
     \o FlattenSeq([u \in Uids |-> CASE u \notin DOMAIN items -> <<>>
                                     [] u \in DOMAIN items \cap left ->
                                          FlagDeltas(u, base[u], items[u])
                                     [] OTHER -> <<Added(u, items[u])>>])

PatchedKeeping(base, gone, items) ==   \* mutant: what is gone stays in the shadow
  [u \in DOMAIN base \cup DOMAIN items |->
     IF u \in DOMAIN items THEN items[u] ELSE base[u]]
Patched(base, gone, items) ==
  [u \in (DOMAIN base \ gone) \cup DOMAIN items |->
     IF u \in DOMAIN items THEN items[u] ELSE base[u]]

Apply(contents, e) ==
  CASE e.type = "EnvelopeAdded" ->
         [u \in DOMAIN contents \cup {e.uid} |-> IF u = e.uid THEN e.flags ELSE contents[u]]
    [] e.type = "EnvelopeRemoved" ->
         [u \in DOMAIN contents \ {e.uid} |-> contents[u]]
    [] e.type = "FlagsAdded" -> [contents EXCEPT ![e.uid] = @ \cup e.flags]
    [] e.type = "FlagsRemoved" -> [contents EXCEPT ![e.uid] = @ \ e.flags]

\* The events applied one after the other.
Replayed(contents, events) ==
  LET after[i \in 0..Len(events)] == IF i = 0 THEN contents ELSE Apply(after[i - 1], events[i])
  IN after[Len(events)]

-----------------------------------------------------------------------------
(* The watch.                                                              *)

External == UNCHANGED <<srvVars, sesVars, optVars, shutdown, elapsed>>

\* Every resume first copies the shutdown flag to the one IDLE looks at.
DoneUnlinked == idleDone            \* mutant: IDLE is not told of the flag
Done == idleDone \/ shutdown

Goto(s) == st' = s /\ phase' = "send" /\ UNCHANGED outcome

FinishQuietly(result) ==            \* mutant: the outcome is lost
  st' = "Terminal" /\ UNCHANGED <<outcome, phase>>
Finish(result) == st' = "Terminal" /\ outcome' = result /\ UNCHANGED phase

\* WantsTag, then WantsWrite.
SendCommand ==
  /\ st \in Commands \/ (st = "Idle" /\ idle \in {"Idle", "Done"})
  /\ phase = "send" /\ phase' = "sent"
  /\ timer' = IF st = "Idle" /\ idle = "Idle" /\ timer = "unset" THEN "running" ELSE timer
  /\ UNCHANGED <<watchVars, idle, reply, ghostVars>> /\ External

\* NO, BAD, BYE, end of stream or an undecodable response ends the watch.
Broken ==
  /\ Finish("Err")
  /\ UNCHANGED <<uidValidity, highestModSeq, shadow, pending, idleDone, sawData,
                 idleVars, reply, ghostVars>> /\ External

ExchangeFails == phase \in {"sent", "served"} /\ st # "Terminal" /\ Broken

\* While idling; a BYE is not looked at, the end of stream that follows is.
IdleFails == st = "Idle" /\ idle = "Read" /\ Broken

Replied(s) == st = s /\ phase = "replied"

EnableReplied ==
  /\ Replied("EnableQresync")
  /\ Goto("ExamineInitial")
  /\ idleDone' = Done
  /\ UNCHANGED <<uidValidity, highestModSeq, shadow, pending, sawData, idleVars,
                 reply, ghostVars>> /\ External

ExamineInitialReplied ==
  /\ Replied("ExamineInitial")
  /\ idleDone' = Done
  /\ IF reply.validity = 0
       THEN Finish("Err") /\ UNCHANGED <<uidValidity, highestModSeq>>
       ELSE /\ uidValidity' = reply.validity
            /\ IF qresync /\ reply.modseq = 0
                 THEN Finish("Err") /\ UNCHANGED highestModSeq
                 ELSE /\ Goto("FetchBaseline")
                      /\ highestModSeq' = IF qresync THEN reply.modseq ELSE highestModSeq
  /\ UNCHANGED <<shadow, pending, sawData, idleVars, reply, ghostVars>> /\ External

\* The baseline seeds the shadow; the consumer starts from it.
FetchBaselineReplied ==
  /\ Replied("FetchBaseline")
  /\ idleDone' = Done
  /\ shadow' = reply.items /\ replica' = reply.items
  /\ Goto("BeginIdle")
  /\ UNCHANGED <<uidValidity, highestModSeq, pending, sawData, idleVars, reply,
                 view, viewValidity>> /\ External

\* A polling watch yields WantsWait instead of holding IDLE.
BeginIdle ==
  /\ st = "BeginIdle"
  /\ \/ shutdown /\ Finish("Ok") /\ UNCHANGED <<idleDone, sawData, idleVars>>
     \/ ~shutdown /\ poll /\ Goto("Waiting") /\ UNCHANGED <<idleDone, sawData, idleVars>>
     \/ /\ ~shutdown /\ ~poll /\ Goto("Idle")
        /\ idleDone' = FALSE /\ sawData' = FALSE
        /\ idle' = "Idle" /\ timer' = "unset"
  /\ UNCHANGED <<uidValidity, highestModSeq, shadow, pending, reply, ghostVars>> /\ External

Resync == Goto(IF qresync THEN "ExamineQresync" ELSE "ExamineResync")

Waiting ==
  /\ st = "Waiting"
  /\ idleDone' = Done
  /\ IF shutdown THEN Finish("Ok") ELSE Resync
  /\ UNCHANGED <<uidValidity, highestModSeq, shadow, pending, sawData, idleVars,
                 reply, ghostVars>> /\ External

\* "+ idling" was read; untagged responses that came with it are an event.
IdleStarted ==
  /\ st = "Idle" /\ idle = "Idle" /\ phase = "replied"
  /\ idle' = "Read"
  /\ sawData' = (sawData \/ reply.notice)
  /\ idleDone' = (Done \/ reply.notice)
  /\ UNCHANGED <<st, phase, uidValidity, highestModSeq, shadow, pending, outcome, timer,
                 reply, ghostVars>> /\ External

\* Untagged responses while idling: the watch takes any of them as a wake.
IdleRead ==
  /\ st = "Idle" /\ idle = "Read" /\ unread
  /\ ~Done /\ timer # "elapsed"
  /\ unread' = FALSE
  /\ sawData' = TRUE /\ idleDone' = TRUE
  /\ UNCHANGED <<st, phase, uidValidity, highestModSeq, shadow, pending, outcome, idleVars,
                 reply, ghostVars, told, selected, srvVars, optVars, shutdown, elapsed>>

\* The flag or the refresh timer: DONE is sent, and what the resume was given
\* to read, or is still to be read, is left to the response to DONE.
IdleWindDown ==
  /\ st = "Idle" /\ idle = "Read"
  /\ Done \/ timer = "elapsed"
  /\ idle' = "Done" /\ phase' = "send"
  /\ idleDone' = Done
  /\ UNCHANGED <<st, uidValidity, highestModSeq, shadow, pending, sawData, outcome, timer,
                 reply, ghostVars>> /\ External

NeedsResyncNever == FALSE           \* mutant: the wake is not remembered
NeedsResync == sawData

\* The response to DONE: its untagged data is not looked at.  A refresh
\* restarts IDLE in place.
IdleEnded ==
  /\ st = "Idle" /\ idle = "Done" /\ phase = "replied"
  /\ unread' = FALSE
  /\ timer' = "unset"
  /\ idleDone' = Done
  /\ IF timer = "elapsed"
       THEN Goto("Idle") /\ idle' = "Idle"
       ELSE /\ UNCHANGED idle
            /\ IF shutdown THEN Finish("Ok")
               ELSE IF NeedsResync THEN Resync
               ELSE Goto("BeginIdle")
  /\ UNCHANGED <<uidValidity, highestModSeq, shadow, pending, sawData, reply, ghostVars,
                 told, selected, srvVars, optVars, shutdown, elapsed>>

UnkeyedNever == FALSE               \* mutant: UIDVALIDITY is not compared
Unkeyed == reply.validity # uidValidity

NextModSeqAhead == reply.modseq + 1 \* mutant: one ahead of what was read
NextModSeq == IF reply.modseq # 0 THEN reply.modseq ELSE highestModSeq

\* Everything that vanished is removed first.  The FETCHes are taken in the order
\* they were read: those that answer, then those announced.
ExamineQresyncReplied ==
  /\ Replied("ExamineQresync")
  /\ idleDone' = Done
  /\ LET answered == Patched(shadow, reply.vanished, reply.items)
     IN IF Unkeyed
          THEN Finish("Err") /\ UNCHANGED <<pending, shadow, highestModSeq>>
          ELSE /\ pending' = pending \o (Deltas(shadow, reply.vanished, reply.items)
                                        \o Deltas(answered, {}, reply.later))
               /\ shadow' = Patched(answered, {}, reply.later)
               /\ highestModSeq' = NextModSeq
               /\ Goto("EmitDeltas")
  /\ UNCHANGED <<uidValidity, sawData, idleVars, reply, ghostVars>> /\ External

ExamineResyncReplied ==
  /\ Replied("ExamineResync")
  /\ idleDone' = Done
  /\ IF Unkeyed THEN Finish("Err") ELSE Goto("FetchResync")
  /\ UNCHANGED <<uidValidity, highestModSeq, shadow, pending, sawData, idleVars, reply,
                 ghostVars>> /\ External

\* Absence from the snapshot is what tells a vanished message.
FetchResyncReplied ==
  /\ Replied("FetchResync")
  /\ idleDone' = Done
  /\ LET gone == DOMAIN shadow \ DOMAIN reply.items
     IN /\ pending' = pending \o Deltas(shadow, gone, reply.items)
        /\ shadow' = Patched(shadow, gone, reply.items)
  /\ Goto("EmitDeltas")
  /\ UNCHANGED <<uidValidity, highestModSeq, sawData, idleVars, reply, ghostVars>> /\ External

EmitDeltas ==
  /\ st = "EmitDeltas"
  /\ idleDone' = Done
  /\ IF pending = <<>>
       THEN Goto("BeginIdle") /\ UNCHANGED <<pending, replica>>
       ELSE /\ pending' = Tail(pending)
            /\ replica' = Apply(replica, Head(pending))
            /\ UNCHANGED <<st, phase, outcome>>
  /\ UNCHANGED <<uidValidity, highestModSeq, shadow, sawData, idleVars, reply,
                 view, viewValidity>> /\ External

Resume ==
  \/ SendCommand \/ EnableReplied \/ ExamineInitialReplied \/ FetchBaselineReplied
  \/ BeginIdle \/ Waiting \/ IdleStarted \/ IdleRead \/ IdleWindDown \/ IdleEnded
  \/ ExamineQresyncReplied \/ ExamineResyncReplied \/ FetchResyncReplied \/ EmitDeltas

Next ==
  \/ Resume \/ ExchangeFails \/ IdleFails
  \/ Answer \/ Announce \/ KeepAlive \/ Others
  \/ Elapse \/ Shutdown

Spec == Init /\ [][Next]_vars

\* The driver keeps resuming (a read deadline bounds its reads), and the server
\* answers every command, or the exchange fails, and announces changes to a
\* session that idles.
FairSpec ==
  /\ Spec
  /\ WF_vars(Resume) /\ WF_vars(Answer \/ ExchangeFails) /\ WF_vars(Announce)

-----------------------------------------------------------------------------
Baselined == st \notin {"EnableQresync", "ExamineInitial", "FetchBaseline", "Terminal"}

(* A consumer that applies the events to the baseline holds the shadow     *)
(* once the pending events are applied too: no change enters the shadow    *)
(* without its events, and no event goes without its change                *)
(* (watch.rs:367-466, 787-793).                                            *)
ReplicaTracksShadow == Baselined => Replayed(replica, pending) = shadow

\* What an event says of a message is news to a consumer that holds `contents`.
Fits(contents, e) ==
  CASE e.type = "EnvelopeAdded" -> e.uid \notin DOMAIN contents
    [] e.type = "EnvelopeRemoved" -> e.uid \in DOMAIN contents
    [] e.type = "FlagsAdded" -> e.uid \in DOMAIN contents /\ e.flags \cap contents[e.uid] = {}
    [] e.type = "FlagsRemoved" -> e.uid \in DOMAIN contents /\ e.flags \subseteq contents[e.uid]

(* Every event makes sense when the consumer gets it: a message is added   *)
(* once, removed or re-flagged while it is known, and flag events name     *)
(* flags that really change (watch.rs:139-166, 367-466).                   *)
EventsApplicable == pending # <<>> => Fits(replica, Head(pending))

(* After a resync the shadow is the mailbox as of the server's answer, with *)
(* the flags announced in the same response and read with it: on the       *)
(* QRESYNC path, from deltas since a remembered mod-sequence, as on the    *)
(* whole-mailbox path (examine.rs:164-174; watch.rs:17-20, 430-466,        *)
(* 400-428).                                                               *)
ShadowIsServerState ==
  Baselined /\ ~(st \in {"ExamineQresync", "FetchResync"} /\ phase \in {"served", "replied"})
    => shadow = view

(* The shadow, and so the events, are never keyed on another mailbox that  *)
(* took the same name (watch.rs:26-28, 349-363).                           *)
KeyedOnOneMailbox ==
  Baselined /\ ~(st = "ExamineQresync" /\ phase \in {"served", "replied"})
    => viewValidity = uidValidity

(* Once the flag is flipped the watch winds down (watch.rs:30-31,          *)
(* 496-498, 618-620, 641-643, 670-672).                                    *)
ShutdownEnds == shutdown ~> (st = "Terminal")

(* A change is reported: a mailbox the consumer's copy differs from is     *)
(* caught up with, unless the watch ends (README.md:27, idle.rs:184-185).  *)
Lagging == Baselined /\ replica # mailbox
ChangesReported == Lagging ~> (replica = mailbox \/ shutdown \/ st = "Terminal")

(* It is, where the server tells an idling session and no other, as long   *)
(* as IDLE is not refreshed (idle.rs:290-299, 360-399; watch.rs:648-684).  *)
ReportedWhileIdling ==
  Lagging ~> (replica = mailbox \/ shutdown \/ st = "Terminal" \/ eager \/ elapsed > 0)
=============================================================================
