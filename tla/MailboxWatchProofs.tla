--------------------------- MODULE MailboxWatchProofs -------------------------
(***************************************************************************)
(* Proof that the shadow of a mailbox watch is the mailbox as the server   *)
(* answered, and of the one mailbox it was first read from, and that its   *)
(* events are the changes of the shadow: a consumer that applies them to   *)
(* the baseline holds the shadow, and each makes sense when it comes; for  *)
(* any number of messages, flags, changes by other clients and refreshes.  *)
(*                                                                         *)
(* On the QRESYNC path a resync names only what changed since a remembered *)
(* mod-sequence.  The invariant says why that is enough: up to that        *)
(* mod-sequence the shadow is the mailbox as it is now (Synced).           *)
(*                                                                         *)
(* A run from one copy of the mailbox to another is a sequence of events   *)
(* with the copies in between, each event fitting the copy before it.  The *)
(* invariant is that the events pending run from the consumer's copy to    *)
(* the shadow.  An event handed over shortens the run by its first step;   *)
(* the deltas of a resync extend it, message by message (DeltasRun).       *)
(***************************************************************************)
EXTENDS MailboxWatch, SequenceTheorems, FiniteSetTheorems, NaturalsInduction, TLAPS

Answered == phase \in {"served", "replied"}

\* The types of what the shadow is built from.  The events pending and the
\* consumer's copy are folds over sequences.
Typed ==
  /\ st \in Commands \cup {"BeginIdle", "Idle", "Waiting", "EmitDeltas", "Terminal"}
  /\ qresync \in BOOLEAN
  /\ phase \in {"send", "sent", "served", "replied"}
  /\ uidValidity \in 0..2 /\ viewValidity \in 0..2 /\ selected \in 0..2 /\ validity \in 1..2
  /\ highestModSeq \in Nat /\ highest \in Nat /\ modseq \in [Uids -> Nat]
  /\ shadow \in Contents /\ view \in Contents /\ mailbox \in Contents /\ told \in Contents
  /\ reply \in [validity : 0..2, modseq : Nat, vanished : SUBSET Uids,
                items : Contents, later : Contents, notice : BOOLEAN]

\* A watch is of one kind from start to end.
Moded ==
  /\ st = "ExamineQresync" => qresync
  /\ st \in {"ExamineResync", "FetchResync"} => ~qresync

\* Nothing is ahead of the server.
Bounded ==
  /\ \A u \in Uids : modseq[u] <= highest
  /\ uidValidity <= validity /\ viewValidity <= validity
  /\ reply.validity <= validity /\ selected <= validity

Keyed ==
  /\ st = "ExamineInitial" /\ Answered => reply.validity \in {0, selected}
  /\ st = "FetchBaseline" => selected = uidValidity
  /\ st = "FetchBaseline" /\ Answered => viewValidity = uidValidity
  /\ st = "ExamineResync" /\ Answered => reply.validity = selected
  /\ st = "FetchResync" => selected = uidValidity
  /\ st = "ExamineQresync" /\ Answered => reply.validity = viewValidity
  /\ KeyedOnOneMailbox

KInv == Typed /\ Bounded /\ Keyed

\* What is read is the mailbox as of the answer.  Before the completion nothing
\* was announced after the answer of a QRESYNC.
Fetched ==
  /\ st \in Fetches /\ Answered => view = reply.items
  /\ st = "ExamineQresync" /\ phase = "served" => told = view /\ reply.later = Empty

\* What the shadow becomes with the changes of a QRESYNC is the view, before
\* the completion and with what is announced after the answer.
Resynced == Patched(shadow, reply.vanished, reply.items)
Patches ==
  st = "ExamineQresync" /\ Answered /\ reply.validity = uidValidity =>
    Patched(Resynced, {}, reply.later) = view

\* Up to mod-sequence h, the copy c is the mailbox; it has its messages.
Agrees(c, h, u) ==
  modseq[u] <= h =>
    /\ u \in DOMAIN c <=> u \in DOMAIN mailbox
    /\ u \in DOMAIN c => c[u] = mailbox[u]
Holds(c, h, u) == modseq[u] <= h => (u \in DOMAIN c <=> u \in DOMAIN mailbox)

\* The mod-sequence up to which the view is known.
Level == IF st = "ExamineQresync" /\ Answered THEN NextModSeq ELSE highestModSeq

\* What a QRESYNC will not name, the shadow has as it is.
Synced ==
  qresync =>
    /\ st = "ExamineInitial" /\ Answered /\ reply.validity = validity =>
         reply.modseq <= highest /\ \A u \in Uids : Holds(told, reply.modseq, u)
    /\ st = "FetchBaseline" /\ ~Answered /\ uidValidity = validity =>
         highestModSeq <= highest /\ \A u \in Uids : Holds(told, highestModSeq, u)
    /\ ((st = "FetchBaseline" /\ Answered) \/ Baselined)
         /\ uidValidity = validity /\ viewValidity = validity =>
         Level <= highest /\ \A u \in Uids : Agrees(view, Level, u)

SInv == KInv /\ Moded /\ Fetched /\ Patches /\ Synced /\ ShadowIsServerState
-----------------------------------------------------------------------------
(* What a step does to what the shadow is built from.                      *)

Quiet == {"BeginIdle", "Idle", "Waiting", "EmitDeltas"}

SameServer == UNCHANGED <<mailbox, validity, modseq, highest>>
SameView == UNCHANGED <<view, viewValidity>>
SameSession == UNCHANGED <<told, selected>>
SameWatch == UNCHANGED <<uidValidity, highestModSeq, shadow, qresync>>

\* The watch goes on, with nothing read.
Goes ==
  /\ SameServer /\ SameView /\ SameSession /\ SameWatch /\ UNCHANGED reply
  /\ \/ st' = "Terminal" /\ UNCHANGED phase
     \/ st' = st /\ UNCHANGED phase
     \/ st' = st /\ phase = "send" /\ phase' = "sent"
     \/ st \in Quiet /\ st' \in Quiet /\ phase' \in {phase, "send"}
     \/ /\ st \in Quiet /\ phase' = "send"
        /\ st' = IF qresync THEN "ExamineQresync" ELSE "ExamineResync"
     \/ st = "EnableQresync" /\ st' = "ExamineInitial" /\ phase' = "send"

\* The server answers a command that has no data.
Acknowledges ==
  /\ SameServer /\ SameView /\ SameSession /\ SameWatch
  /\ st \in {"EnableQresync", "Idle"} /\ UNCHANGED st
  /\ phase' = "served" /\ reply' = NoReply

\* It announces something to an idling session.
Tells ==
  /\ SameServer /\ SameView /\ SameWatch /\ UNCHANGED <<reply, st, phase>>
  /\ st = "Idle" /\ told' = mailbox /\ selected' = validity

\* Another client changes one message.
Touches ==
  /\ SameView /\ SameSession /\ SameWatch /\ UNCHANGED <<reply, st, phase, validity>>
  /\ mailbox' \in Contents /\ highest' = highest + 1
  /\ \E u \in Uids :
       /\ modseq' = [modseq EXCEPT ![u] = highest + 1]
       /\ \A v \in Uids \ {u} :
            /\ v \in DOMAIN mailbox' <=> v \in DOMAIN mailbox
            /\ v \in DOMAIN mailbox => mailbox'[v] = mailbox[v]

-----------------------------------------------------------------------------
(* Contents.                                                               *)

\* A function from some UIDs to sets of flags, and nothing else.
LEMMA ContentsElim ==
  ASSUME NEW c \in Contents
  PROVE  /\ c = [u \in DOMAIN c |-> c[u]]
         /\ DOMAIN c \subseteq Uids
         /\ \A u \in DOMAIN c : c[u] \in SUBSET Flags
BY DEF Contents

\* None at all is one.
LEMMA EmptyContents == Empty \in Contents
BY DEF Empty, Contents

\* A part of it is one, too.
LEMMA PartContents ==
  ASSUME NEW c \in Contents, NEW U \in SUBSET DOMAIN c
  PROVE  [u \in U |-> c[u]] \in Contents
<1>1. U \in SUBSET Uids /\ \A u \in U : c[u] \in SUBSET Flags
  BY ContentsElim
<1>2. [u \in U |-> c[u]] \in [U -> SUBSET Flags]
  BY <1>1
<1>3. QED
  BY <1>1, <1>2 DEF Contents

\* Two of them with the same messages and flags are one.
LEMMA ContentsEqual ==
  ASSUME NEW c \in Contents, NEW d \in Contents, DOMAIN c = DOMAIN d,
         \A u \in DOMAIN c : c[u] = d[u]
  PROVE  c = d
BY DEF Contents

\* Patching keeps what is not gone, and takes every item.
LEMMA PatchedFields ==
  ASSUME NEW base \in Contents, NEW gone \in SUBSET Uids, NEW items \in Contents
  PROVE  /\ Patched(base, gone, items) \in Contents
         /\ DOMAIN Patched(base, gone, items) = (DOMAIN base \ gone) \cup DOMAIN items
         /\ \A u \in DOMAIN Patched(base, gone, items) :
              Patched(base, gone, items)[u] = IF u \in DOMAIN items THEN items[u] ELSE base[u]
<1> DEFINE U == (DOMAIN base \ gone) \cup DOMAIN items
           f(u) == IF u \in DOMAIN items THEN items[u] ELSE base[u]
<1>1. U \in SUBSET Uids /\ \A u \in U : f(u) \in SUBSET Flags
  BY ContentsElim
<1>2. Patched(base, gone, items) = [u \in U |-> f(u)]
  BY DEF Patched
<1> HIDE DEF U, f
<1>3. [u \in U |-> f(u)] \in Contents
  BY <1>1 DEF Contents
<1>4. QED
  BY <1>2, <1>3 DEF U, f

\* The conclusion with a name, for what is patched with nothing gone.
PatchedLike(base, gone, items) ==
  /\ Patched(base, gone, items) \in Contents
  /\ DOMAIN Patched(base, gone, items) = (DOMAIN base \ gone) \cup DOMAIN items
  /\ \A u \in DOMAIN Patched(base, gone, items) :
       Patched(base, gone, items)[u] = IF u \in DOMAIN items THEN items[u] ELSE base[u]

\* Patched contents are so, whatever is gone and whatever comes.
LEMMA PatchedBy ==
  ASSUME NEW base \in Contents, NEW gone \in SUBSET Uids, NEW items \in Contents
  PROVE  PatchedLike(base, gone, items)
BY PatchedFields DEF PatchedLike

\* Patching with nothing changes nothing.
LEMMA PatchedNothing ==
  ASSUME NEW base \in Contents
  PROVE  Patched(base, {}, Empty) = base
<1>1. Empty \in Contents /\ DOMAIN Empty = {} /\ {} \in SUBSET Uids
  BY EmptyContents DEF Empty
<1>2. PatchedLike(base, {}, Empty)
  BY <1>1, PatchedBy
<1>3. /\ Patched(base, {}, Empty) \in Contents
      /\ DOMAIN Patched(base, {}, Empty) = DOMAIN base
      /\ \A u \in DOMAIN base : Patched(base, {}, Empty)[u] = base[u]
  BY <1>1, <1>2 DEF PatchedLike
<1> QED
  BY <1>3, ContentsEqual

-----------------------------------------------------------------------------
(* Which mailbox the shadow is of.                                         *)

\* The steps that read nothing keep the watch on its mailbox.
LEMMA GoesK == ASSUME KInv, Goes PROVE KInv'
<1> USE DEF KInv, Goes, SameServer, SameView, SameSession, SameWatch
<1>1. Typed'
  BY DEF Typed, Quiet, Commands, Examines, Fetches
<1>2. Bounded'
  BY DEF Bounded
<1>3. Keyed'
  BY DEF Keyed, Typed, KeyedOnOneMailbox, Baselined, Answered, Quiet
<1>4. QED
  BY <1>1, <1>2, <1>3

\* So do answers without data.
LEMMA AcknowledgesK == ASSUME KInv, Acknowledges PROVE KInv'
<1> USE DEF KInv, Acknowledges, SameServer, SameView, SameSession, SameWatch
<1>1. Typed'
  <2>1. NoReply \in [validity : 0..2, modseq : Nat, vanished : SUBSET Uids,
                     items : Contents, later : Contents, notice : BOOLEAN]
    BY EmptyContents DEF NoReply
  <2>2. QED
    BY <2>1 DEF Typed
<1>2. Bounded'
  BY DEF Bounded, NoReply, Typed
<1>3. Keyed'
  BY DEF Keyed, KeyedOnOneMailbox, Baselined, Answered
<1>4. QED
  BY <1>1, <1>2, <1>3

\* So do announcements to an idling session.
LEMMA TellsK == ASSUME KInv, Tells PROVE KInv'
<1> USE DEF KInv, Tells, SameServer, SameView, SameWatch
<1>1. Typed'
  BY DEF Typed
<1>2. Bounded'
  BY DEF Bounded, Typed
<1>3. Keyed'
  BY DEF Keyed, KeyedOnOneMailbox, Baselined, Answered
<1>4. QED
  BY <1>1, <1>2, <1>3

\* So do changes to one message.
LEMMA TouchesK == ASSUME KInv, Touches PROVE KInv'
<1> USE DEF KInv, Touches, SameView, SameSession, SameWatch
<1>1. Typed'
  BY DEF Typed
<1>2. Bounded'
  BY DEF Bounded, Typed
<1>3. Keyed'
  BY DEF Keyed, KeyedOnOneMailbox, Baselined, Answered
<1>4. QED
  BY <1>1, <1>2, <1>3

-----------------------------------------------------------------------------
(* What the watch knows of it.                                             *)

\* The steps that read nothing teach the watch nothing.
LEMMA GoesS == ASSUME SInv, Goes PROVE SInv'
<1> USE DEF SInv, Goes, SameServer, SameView, SameSession, SameWatch
<1>1. KInv'
  BY GoesK
<1>2. Moded'
  BY DEF Moded, Quiet, KInv, Typed
<1>3. Fetched'
  BY DEF Fetched, Answered, Fetches, Quiet, KInv, Typed
<1>4. Patches'
  BY DEF Patches, Answered, Quiet, Patched, Resynced
<1>5. ShadowIsServerState'
  BY DEF ShadowIsServerState, Baselined, Quiet, KInv, Typed
<1>6. Synced'
  BY DEF Synced, Answered, Baselined, Level, NextModSeq, Agrees, Holds, Quiet, KInv, Typed
<1>7. QED
  BY <1>1, <1>2, <1>3, <1>4, <1>5, <1>6

\* Nor do answers without data.
LEMMA AcknowledgesS == ASSUME SInv, Acknowledges PROVE SInv'
<1> USE DEF SInv, Acknowledges, SameServer, SameView, SameSession, SameWatch
<1>1. KInv'
  BY AcknowledgesK
<1>2. Moded'
  BY DEF Moded
<1>3. Fetched' /\ Patches'
  BY DEF Fetched, Fetches, Patches
<1>4. ShadowIsServerState'
  BY DEF ShadowIsServerState, Baselined
<1>5. Synced'
  BY DEF Synced, Baselined, Level, NextModSeq, Agrees, Holds
<1>6. QED
  BY <1>1, <1>2, <1>3, <1>4, <1>5

\* Nor do announcements to an idling session.
LEMMA TellsS == ASSUME SInv, Tells PROVE SInv'
<1> USE DEF SInv, Tells, SameServer, SameView, SameWatch
<1>1. KInv'
  BY TellsK
<1>2. Moded'
  BY DEF Moded
<1>3. Fetched' /\ Patches'
  BY DEF Fetched, Fetches, Patches
<1>4. ShadowIsServerState'
  BY DEF ShadowIsServerState, Baselined
<1>5. Synced'
  BY DEF Synced, Baselined, Level, NextModSeq, Agrees, Holds
<1>6. QED
  BY <1>1, <1>2, <1>3, <1>4, <1>5

\* What a change touches is above the mod-sequence the watch knows.
LEMMA TouchesS == ASSUME SInv, Touches PROVE SInv'
<1>1. KInv'
  BY TouchesK DEF SInv
<1> USE DEF SInv
<1>2. UNCHANGED <<view, viewValidity, told, selected, uidValidity, highestModSeq, shadow,
                  qresync, reply, st, phase, validity>>
  BY DEF Touches, SameView, SameSession, SameWatch
<1>3. Moded' /\ Fetched' /\ ShadowIsServerState'
  BY <1>2 DEF Moded, Fetched, ShadowIsServerState, Baselined, Answered, Fetches
<1>4. Patches'
  BY <1>2 DEF Patches, Answered, Patched, Resynced
\* The message that changed is above what is known; the others are as they were.
<1>5. ASSUME NEW h \in Nat, h <= highest
      PROVE  /\ h <= highest'
             /\ \A u \in Uids : Holds(told, h, u) => Holds(told, h, u)'
             /\ \A u \in Uids : Agrees(view, h, u) => Agrees(view, h, u)'
  <2>1. highest \in Nat /\ modseq \in [Uids -> Nat] /\ highest' = highest + 1
    BY DEF KInv, Typed, Touches
  <2>2. PICK w \in Uids :
          /\ modseq' = [modseq EXCEPT ![w] = highest + 1]
          /\ \A v \in Uids \ {w} :
               /\ v \in DOMAIN mailbox' <=> v \in DOMAIN mailbox
               /\ v \in DOMAIN mailbox => mailbox'[v] = mailbox[v]
    BY DEF Touches
  <2>3. modseq'[w] = highest + 1 /\ \A u \in Uids \ {w} : modseq'[u] = modseq[u]
    BY <2>1, <2>2
  <2>4. ~(modseq'[w] <= h)
    BY <1>5, <2>1, <2>3
  <2>5. QED
    BY <1>2, <1>5, <2>1, <2>2, <2>3, <2>4 DEF Holds, Agrees
<1>6. highestModSeq \in Nat /\ reply.modseq \in Nat /\ Level \in Nat
  BY DEF KInv, Typed, Level, NextModSeq
<1>7. Level' = Level
  BY <1>2 DEF Level, NextModSeq, Answered
<1>8. Synced'
  BY <1>2, <1>5, <1>6, <1>7 DEF Synced, Answered, Baselined
<1>9. QED
  BY <1>1, <1>3, <1>4, <1>8

-----------------------------------------------------------------------------
(* The server's answers.                                                   *)

\* An EXAMINE opens the mailbox; what a QRESYNC names makes the shadow the
\* mailbox again.
LEMMA ServeExamineStep == ASSUME SInv, ServeExamine PROVE SInv'
<1> USE DEF SInv
<1>1. /\ st \in Examines /\ phase = "sent" /\ phase' = "served"
      /\ told' = mailbox /\ selected' = validity
      /\ UNCHANGED <<st, uidValidity, highestModSeq, shadow, qresync, mailbox, validity,
                     modseq, highest>>
  BY DEF ServeExamine, Serving, SameClient, watchVars, srvVars, optVars
<1>2. IF st = "ExamineQresync" THEN view' = mailbox /\ viewValidity' = validity
      ELSE UNCHANGED <<view, viewValidity>>
  BY DEF ServeExamine
<1>3. PICK v \in {validity} \cup (IF st = "ExamineInitial" THEN {0} ELSE {}),
           m \in {0, highest}, all \in BOOLEAN :
        LET gone == {u \in Uids \ DOMAIN mailbox : all \/ modseq[u] > highestModSeq}
            changed == {u \in DOMAIN mailbox : modseq[u] > highestModSeq}
            named == st = "ExamineQresync" /\ validity = uidValidity
        IN reply' = [validity |-> v, modseq |-> m,
                     vanished |-> IF named THEN gone ELSE {},
                     items |-> IF named THEN [u \in changed |-> mailbox[u]] ELSE Empty,
                     later |-> Empty, notice |-> FALSE]
  BY DEF ServeExamine
<1> DEFINE gone == {u \in Uids \ DOMAIN mailbox : all \/ modseq[u] > highestModSeq}
           changed == {u \in DOMAIN mailbox : modseq[u] > highestModSeq}
           named == st = "ExamineQresync" /\ validity = uidValidity
           lost == IF named THEN gone ELSE {}
           items == IF named THEN [u \in changed |-> mailbox[u]] ELSE Empty
<1>4. reply' = [validity |-> v, modseq |-> m, vanished |-> lost, items |-> items,
                later |-> Empty, notice |-> FALSE]
  BY <1>3
<1>5. [u \in changed |-> mailbox[u]] \in Contents /\ Empty \in Contents
  <2>1. changed \in SUBSET DOMAIN mailbox /\ mailbox \in Contents
    BY DEF KInv, Typed
  <2>2. QED
    BY <2>1, PartContents, EmptyContents
<1>6. lost \in SUBSET Uids /\ items \in Contents
  BY <1>5
<1>7. named => lost = gone /\ items = [u \in changed |-> mailbox[u]]
  OBVIOUS
<1> HIDE DEF lost, items
<1>8. /\ reply'.validity = v /\ reply'.modseq = m /\ reply'.vanished = lost
      /\ reply'.items = items /\ reply'.later = Empty
      /\ reply' \in [validity : 0..2, modseq : Nat, vanished : SUBSET Uids,
                     items : Contents, later : Contents, notice : BOOLEAN]
  BY <1>4, <1>5, <1>6 DEF KInv, Typed
<1>9. Typed'
  BY <1>1, <1>2, <1>8 DEF KInv, Typed
<1>10. Bounded'
  BY <1>1, <1>2, <1>8 DEF KInv, Typed, Bounded
<1>11. Keyed'
  BY <1>1, <1>2, <1>8 DEF KInv, Keyed, KeyedOnOneMailbox, Baselined, Answered, Examines
<1>12. Moded' /\ Fetched'
  BY <1>1, <1>2, <1>8 DEF Moded, Fetched, Examines, Fetches
<1>13. ShadowIsServerState'
  BY <1>1, <1>2 DEF ShadowIsServerState, Baselined, Examines
<1>14. Patches'
  <2> SUFFICES ASSUME st = "ExamineQresync", v = uidValidity
               PROVE  Patched(Resynced, {}, reply.later)' = view'
    BY <1>1, <1>8 DEF Patches
  <2>1. named /\ view' = mailbox
    BY <1>2
  <2>2. shadow = view /\ qresync /\ viewValidity = validity
    BY <1>1, <2>1 DEF ShadowIsServerState, Baselined, Moded, KInv, Keyed, KeyedOnOneMailbox
  <2>3. \A u \in Uids : Agrees(shadow, highestModSeq, u)
    BY <1>1, <2>1, <2>2 DEF Synced, Baselined, Level, Answered
  <2>4. Resynced' = Patched(shadow, lost, items)
    BY <1>1, <1>8 DEF Resynced, Patched
  <2>5. DOMAIN items = changed /\ \A u \in changed : items[u] = mailbox[u]
    BY <1>7, <2>1
  <2>12. shadow \in Contents
    BY DEF KInv, Typed
  <2>13. /\ Patched(shadow, lost, items) \in Contents
         /\ DOMAIN Patched(shadow, lost, items) = (DOMAIN shadow \ lost) \cup DOMAIN items
         /\ \A u \in DOMAIN Patched(shadow, lost, items) :
              Patched(shadow, lost, items)[u] = IF u \in DOMAIN items THEN items[u] ELSE shadow[u]
    BY <1>6, <2>12, PatchedFields
  <2>6. /\ Patched(shadow, lost, items) \in Contents
        /\ DOMAIN Patched(shadow, lost, items) = (DOMAIN shadow \ gone) \cup changed
        /\ \A u \in DOMAIN Patched(shadow, lost, items) :
             Patched(shadow, lost, items)[u] = IF u \in changed THEN mailbox[u] ELSE shadow[u]
    BY <1>7, <2>1, <2>5, <2>13
  <2>7. /\ mailbox \in Contents /\ DOMAIN mailbox \subseteq Uids /\ DOMAIN shadow \subseteq Uids
        /\ modseq \in [Uids -> Nat] /\ highestModSeq \in Nat
    BY ContentsElim DEF KInv, Typed
  <2>8. (DOMAIN shadow \ gone) \cup changed = DOMAIN mailbox
    BY <2>3, <2>7 DEF Agrees
  <2>9. \A u \in DOMAIN mailbox \ changed : shadow[u] = mailbox[u]
    BY <2>3, <2>7 DEF Agrees
  <2>10. Patched(shadow, lost, items) = mailbox
    BY <2>6, <2>7, <2>8, <2>9, ContentsEqual
  <2>11. Patched(Resynced, {}, reply.later)' = Patched(mailbox, {}, Empty)
    BY <1>8, <2>4, <2>10 DEF Patched
  <2>14. QED
    BY <2>1, <2>7, <2>11, PatchedNothing
<1>15. Synced'
  <2>1. m <= highest /\ highestModSeq \in Nat /\ highest \in Nat
    BY DEF KInv, Typed
  <2>2. \A h, u : Holds(told, h, u)'
    BY <1>1 DEF Holds
  <2>3. st = "ExamineInitial" => Synced'
    BY <1>1, <1>8, <2>1, <2>2 DEF Synced, Baselined
  <2>4. ASSUME st = "ExamineQresync"
        PROVE  Synced'
    <3>1. \A h, u : Agrees(view, h, u)'
      BY <1>1, <1>2, <2>4 DEF Agrees
    <3>2. ASSUME uidValidity = validity PROVE highestModSeq <= highest \/ ~qresync
      BY <1>1, <2>4, <3>2
      DEF Synced, Baselined, Level, Answered, KInv, Keyed, KeyedOnOneMailbox
    <3>3. Level' = IF m # 0 THEN m ELSE highestModSeq
      BY <1>1, <1>8, <2>4 DEF Level, NextModSeq, Answered
    <3>4. QED
      BY <1>1, <2>1, <2>4, <3>1, <3>2, <3>3 DEF Synced
  <2>5. st = "ExamineResync" => Synced'
    BY <1>1 DEF Synced, Moded
  <2>6. QED
    BY <1>1, <2>3, <2>4, <2>5 DEF Examines
<1>16. QED
  BY <1>9, <1>10, <1>11, <1>12, <1>13, <1>14, <1>15 DEF KInv

\* A FETCH reads the messages announced to the session, as they are now.
LEMMA ServeFetchStep == ASSUME SInv, ServeFetch PROVE SInv'
<1> USE DEF SInv
<1> DEFINE U == DOMAIN told \cap DOMAIN mailbox
           snap == [u \in U |-> mailbox[u]]
<1>1. /\ st \in Fetches /\ phase = "sent" /\ phase' = "served" /\ selected = validity
      /\ view' = snap /\ viewValidity' = validity /\ reply' = [reply EXCEPT !.items = snap]
      /\ told' = [u \in DOMAIN told |-> IF u \in U THEN snap[u] ELSE told[u]]
      /\ UNCHANGED <<st, uidValidity, highestModSeq, shadow, qresync, mailbox, validity,
                     modseq, highest, selected>>
  BY DEF ServeFetch, Serving, SameClient, watchVars, srvVars, optVars
<1>2. snap \in Contents /\ DOMAIN snap = U /\ \A u \in U : snap[u] = mailbox[u]
  BY PartContents DEF KInv, Typed
<1>3. told' \in Contents
  <2>1. \A u \in DOMAIN told : (IF u \in U THEN snap[u] ELSE told[u]) \in SUBSET Flags
    BY <1>2, ContentsElim DEF KInv, Typed
  <2>2. DOMAIN told \in SUBSET Uids
    BY ContentsElim DEF KInv, Typed
  <2> HIDE DEF U, snap
  <2>3. told' \in [DOMAIN told -> SUBSET Flags]
    BY <1>1, <2>1
  <2>4. QED
    BY <2>2, <2>3 DEF Contents
<1> HIDE DEF snap, U
<1>4. /\ reply'.items = snap /\ reply'.validity = reply.validity
      /\ reply' \in [validity : 0..2, modseq : Nat, vanished : SUBSET Uids,
                     items : Contents, later : Contents, notice : BOOLEAN]
  BY <1>1, <1>2 DEF KInv, Typed
<1>5. Typed'
  BY <1>1, <1>2, <1>3, <1>4 DEF KInv, Typed
<1>6. Bounded'
  BY <1>1, <1>4 DEF KInv, Typed, Bounded
<1>7. Keyed'
  BY <1>1, <1>4 DEF KInv, Keyed, KeyedOnOneMailbox, Baselined, Answered, Fetches
<1>8. Moded' /\ Fetched' /\ Patches' /\ ShadowIsServerState'
  BY <1>1, <1>4 DEF Moded, Fetched, Patches, ShadowIsServerState, Baselined, Fetches
<1>9. Synced'
  <2>1. st = "FetchResync" => Synced'
    BY <1>1 DEF Synced, Moded
  <2>2. ASSUME st = "FetchBaseline", qresync
        PROVE  highestModSeq <= highest /\ \A u \in Uids : Agrees(view, highestModSeq, u)'
    <3>1. uidValidity = validity
      BY <1>1, <2>2 DEF KInv, Keyed
    <3>2. highestModSeq <= highest /\ \A u \in Uids : Holds(told, highestModSeq, u)
      BY <1>1, <2>2, <3>1 DEF Synced, Answered
    <3>3. QED
      BY <1>1, <1>2, <3>2 DEF Agrees, Holds, U
  <2>3. st = "FetchBaseline" => Level' = highestModSeq
    BY <1>1 DEF Level
  <2>4. QED
    BY <1>1, <2>1, <2>2, <2>3 DEF Synced, Fetches, Answered, Agrees
<1>10. QED
  BY <1>5, <1>6, <1>7, <1>8, <1>9 DEF KInv

\* What the server announces before the completion of a FETCH is merged in the
\* items read, and in the view; the FETCHes it announces before that of a QRESYNC
\* are read after the answer, and in the view; what it announces before another
\* is not read.
LEMMA FinishStep ==
  ASSUME SInv, NEW announce \in BOOLEAN, FinishCommand(announce)
  PROVE  SInv'
<1> USE DEF SInv
<1> DEFINE merged == [u \in DOMAIN reply.items |->
                        IF u \in DOMAIN mailbox THEN mailbox[u] ELSE reply.items[u]]
           heard == [u \in DOMAIN told \cup DOMAIN mailbox |->
                       IF u \in DOMAIN mailbox THEN mailbox[u] ELSE told[u]]
           changed == {u \in DOMAIN told \cap DOMAIN mailbox : told[u] # mailbox[u]}
<1>1. /\ phase = "served" /\ phase' = "replied"
      /\ UNCHANGED <<st, uidValidity, highestModSeq, shadow, qresync, mailbox, validity,
                     modseq, highest, selected, viewValidity>>
  BY DEF FinishCommand, SameClient, watchVars, srvVars, optVars
<1>2. merged \in Contents /\ DOMAIN merged = DOMAIN reply.items
      /\ \A u \in DOMAIN merged : u \in DOMAIN mailbox => merged[u] = mailbox[u]
  <2>1. reply.items \in Contents /\ mailbox \in Contents
    BY DEF KInv, Typed
  <2>2. /\ DOMAIN reply.items \in SUBSET Uids
        /\ \A u \in DOMAIN reply.items :
             (IF u \in DOMAIN mailbox THEN mailbox[u] ELSE reply.items[u]) \in SUBSET Flags
    BY <2>1, ContentsElim
  <2>3. merged \in [DOMAIN reply.items -> SUBSET Flags]
    BY <2>2
  <2>4. QED
    BY <2>2, <2>3 DEF Contents
<1>3. heard \in Contents /\ DOMAIN heard = DOMAIN told \cup DOMAIN mailbox
  <2>1. told \in Contents /\ mailbox \in Contents
    BY DEF KInv, Typed
  <2>2. /\ DOMAIN told \cup DOMAIN mailbox \in SUBSET Uids
        /\ \A u \in DOMAIN told \cup DOMAIN mailbox :
             (IF u \in DOMAIN mailbox THEN mailbox[u] ELSE told[u]) \in SUBSET Flags
    BY <2>1, ContentsElim
  <2>3. heard \in [DOMAIN told \cup DOMAIN mailbox -> SUBSET Flags]
    BY <2>2
  <2>4. QED
    BY <2>2, <2>3 DEF Contents
\* Four things may happen.
<1>4. \/ UNCHANGED <<reply, view, told>>
      \/ /\ st \in Fetches /\ view' = merged /\ told' = heard
         /\ reply' = [reply EXCEPT !.items = merged, !.notice = TRUE]
      \/ /\ st = "ExamineQresync" /\ told' = mailbox
         /\ \E named \in {{}, changed} :
              /\ reply' = [reply EXCEPT !.later = [u \in named |-> mailbox[u]],
                                       !.notice = TRUE]
              /\ view' = [u \in DOMAIN view |-> IF u \in named THEN mailbox[u] ELSE view[u]]
      \/ /\ st \notin Fetches \cup {"ExamineQresync"} /\ UNCHANGED view /\ told' = mailbox
         /\ reply' = [reply EXCEPT !.notice = TRUE]
  BY DEF FinishCommand
\* In the third, the view is patched with what is read later.
<1>14. ASSUME st = "ExamineQresync", NEW named \in {{}, changed},
              reply' = [reply EXCEPT !.later = [u \in named |-> mailbox[u]], !.notice = TRUE],
              view' = [u \in DOMAIN view |-> IF u \in named THEN mailbox[u] ELSE view[u]]
       PROVE  /\ reply'.later \in Contents /\ view' \in Contents
              /\ view' = Patched(view, {}, reply'.later)
              /\ DOMAIN view' = DOMAIN view
              /\ \A u \in DOMAIN view : view'[u] = view[u] \/ (u \in DOMAIN mailbox /\ view'[u] = mailbox[u])
  <2> DEFINE later == [u \in named |-> mailbox[u]]
  <2>1. told = view /\ mailbox \in Contents /\ view \in Contents
    BY <1>1, <1>14 DEF Fetched, KInv, Typed
  <2>2. named \in SUBSET DOMAIN mailbox /\ named \subseteq DOMAIN view
    BY <2>1
  <2>3. later \in Contents /\ DOMAIN later = named /\ \A u \in named : later[u] = mailbox[u]
    BY <2>1, <2>2, PartContents
  <2>4. reply'.later = later
    <3>1. reply \in [validity : 0..2, modseq : Nat, vanished : SUBSET Uids,
                     items : Contents, later : Contents, notice : BOOLEAN]
      BY DEF KInv, Typed
    <3> HIDE DEF later
    <3>2. reply' = [reply EXCEPT !.later = later, !.notice = TRUE]
      BY <1>14 DEF later
    <3> QED
      BY <3>1, <3>2
  <2> HIDE DEF later
  <2>5. {} \in SUBSET Uids /\ (DOMAIN view \ {}) \cup named = DOMAIN view
    BY <2>2
  <2>10. PatchedLike(view, {}, later)
    BY <2>1, <2>3, <2>5, PatchedBy
  <2>6. /\ Patched(view, {}, later) \in Contents
        /\ DOMAIN Patched(view, {}, later) = DOMAIN view
        /\ \A u \in DOMAIN view :
             Patched(view, {}, later)[u] = IF u \in named THEN mailbox[u] ELSE view[u]
    BY <2>3, <2>5, <2>10 DEF PatchedLike
  <2>7. Patched(view, {}, later) = [u \in DOMAIN view |-> Patched(view, {}, later)[u]]
    BY <2>6, ContentsElim
  <2>8. Patched(view, {}, later) = view'
    BY <1>14, <2>6, <2>7, Zenon
  <2>9. \A u \in DOMAIN view :
          view'[u] = view[u] \/ (u \in DOMAIN mailbox /\ view'[u] = mailbox[u])
    BY <2>2, <2>6, <2>8
  <2> QED
    BY <2>3, <2>4, <2>6, <2>8, <2>9
<1> HIDE DEF merged, heard, changed
<1>5. /\ reply' \in [validity : 0..2, modseq : Nat, vanished : SUBSET Uids,
                     items : Contents, later : Contents, notice : BOOLEAN]
      /\ reply'.validity = reply.validity /\ reply'.modseq = reply.modseq
      /\ reply'.vanished = reply.vanished
      /\ reply'.items = reply.items \/ (st \in Fetches /\ reply'.items = merged)
      /\ told' \in Contents /\ view' \in Contents
  <2>1. /\ reply \in [validity : 0..2, modseq : Nat, vanished : SUBSET Uids,
                      items : Contents, later : Contents, notice : BOOLEAN]
        /\ told \in Contents /\ view \in Contents /\ mailbox \in Contents
    BY DEF KInv, Typed
  <2>2. CASE UNCHANGED <<reply, view, told>>
    BY <2>1, <2>2
  <2>3. CASE /\ st \in Fetches /\ view' = merged /\ told' = heard
             /\ reply' = [reply EXCEPT !.items = merged, !.notice = TRUE]
    BY <1>2, <1>3, <2>1, <2>3
  <2>4. CASE /\ st = "ExamineQresync" /\ told' = mailbox
             /\ \E named \in {{}, changed} :
                  /\ reply' = [reply EXCEPT !.later = [u \in named |-> mailbox[u]],
                                           !.notice = TRUE]
                  /\ view' = [u \in DOMAIN view |->
                                IF u \in named THEN mailbox[u] ELSE view[u]]
    <3>1. PICK named \in {{}, changed} :
             /\ reply' = [reply EXCEPT !.later = [u \in named |-> mailbox[u]],
                                      !.notice = TRUE]
             /\ view' = [u \in DOMAIN view |-> IF u \in named THEN mailbox[u] ELSE view[u]]
      BY <2>4
    <3> DEFINE later == [u \in named |-> mailbox[u]]
    <3>2. reply'.later \in Contents /\ view' \in Contents
      BY <1>14, <2>4, <3>1
    <3> HIDE DEF later
    <3>3. reply' = [reply EXCEPT !.later = later, !.notice = TRUE]
      BY <3>1 DEF later
    <3>4. reply'.later = later
      BY <2>1, <3>3
    <3>5. QED
      BY <2>1, <2>4, <3>2, <3>3, <3>4
  <2>5. CASE /\ st \notin Fetches \cup {"ExamineQresync"} /\ UNCHANGED view /\ told' = mailbox
             /\ reply' = [reply EXCEPT !.notice = TRUE]
    BY <2>1, <2>5
  <2> QED
    BY <1>4, <2>2, <2>3, <2>4, <2>5
<1>6. Typed' /\ Bounded'
  BY <1>1, <1>5 DEF KInv, Typed, Bounded
<1>7. Keyed'
  BY <1>1, <1>5 DEF KInv, Keyed, KeyedOnOneMailbox, Baselined, Answered
<1>8. Moded' /\ Fetched'
  <2>1. reply \in [validity : 0..2, modseq : Nat, vanished : SUBSET Uids,
                   items : Contents, later : Contents, notice : BOOLEAN]
    BY DEF KInv, Typed
  <2>2. QED
    BY <1>1, <1>4, <2>1 DEF Moded, Fetched, Fetches, Answered
<1>9. st \notin Fetches => reply'.items = reply.items
  BY <1>4, <1>5
<1>15. st \notin Fetches \cup {"ExamineQresync"} => UNCHANGED view
  BY <1>4
<1>16. st = "ExamineQresync" =>
         /\ DOMAIN view' = DOMAIN view
         /\ \A u \in DOMAIN view :
              view'[u] = view[u] \/ (u \in DOMAIN mailbox /\ view'[u] = mailbox[u])
         /\ view' = Patched(view, {}, reply'.later)
  <2> SUFFICES ASSUME st = "ExamineQresync"
               PROVE  /\ DOMAIN view' = DOMAIN view
                      /\ \A u \in DOMAIN view :
                           \/ view'[u] = view[u]
                           \/ u \in DOMAIN mailbox /\ view'[u] = mailbox[u]
                      /\ view' = Patched(view, {}, reply'.later)
    OBVIOUS
  <2>1. CASE UNCHANGED <<reply, view, told>>
    <3>1. reply.later = Empty /\ view \in Contents
      BY <1>1 DEF Fetched, KInv, Typed
    <3>2. QED
      BY <2>1, <3>1, PatchedNothing
  <2>2. CASE ~UNCHANGED <<reply, view, told>>
    <3>1. PICK named \in {{}, changed} :
             /\ reply' = [reply EXCEPT !.later = [u \in named |-> mailbox[u]],
                                      !.notice = TRUE]
             /\ view' = [u \in DOMAIN view |-> IF u \in named THEN mailbox[u] ELSE view[u]]
      BY <1>4, <2>2 DEF Fetches
    <3>2. QED
      BY <1>14, <3>1
  <2> QED
    BY <2>1, <2>2
<1>10. ShadowIsServerState'
  <2>1. CASE st \in Fetches \cup {"ExamineQresync"}
    BY <1>1, <2>1 DEF ShadowIsServerState, Baselined, Fetches
  <2>2. CASE st \notin Fetches \cup {"ExamineQresync"}
    BY <1>1, <1>15, <2>2 DEF ShadowIsServerState, Baselined
  <2>3. QED
    BY <2>1, <2>2
<1>11. Patches'
  <2> SUFFICES ASSUME st = "ExamineQresync", reply.validity = uidValidity
               PROVE  Patched(Resynced, {}, reply.later)' = view'
    BY <1>1, <1>5 DEF Patches
  <2>1. reply.later = Empty /\ Patched(Resynced, {}, reply.later) = view
    BY <1>1 DEF Fetched, Patches, Answered
  <2>2. Resynced \in Contents
    BY PatchedFields DEF Resynced, KInv, Typed
  <2>3. Resynced = view
    BY <2>1, <2>2, PatchedNothing
  <2>4. Resynced' = Resynced
    BY <1>1, <1>5, <1>9 DEF Resynced, Patched, Fetches
  <2>5. Patched(Resynced, {}, reply.later)' = Patched(view, {}, reply'.later)
    BY <2>3, <2>4 DEF Patched
  <2> QED
    BY <1>16, <2>5
<1>12. Synced'
  <2>1. Level' = Level
    BY <1>1, <1>5 DEF Level, NextModSeq, Answered
  <2>5. told' = told \/ told' = heard \/ told' = mailbox
    BY <1>4
  <2>2. \A h : \A u \in Uids : Holds(told, h, u) => Holds(told, h, u)'
    <3>1. CASE told' = told
      BY <1>1, <3>1 DEF Holds
    <3>2. CASE told' = heard
      BY <1>1, <1>3, <3>2 DEF Holds
    <3>3. CASE told' = mailbox
      BY <1>1, <1>3, <3>3 DEF Holds
    <3>4. QED
      BY <2>5, <3>1, <3>2, <3>3
  <2>3. \A h : \A u \in Uids : Agrees(view, h, u) => Agrees(view, h, u)'
    <3>1. CASE st \in Fetches
      <4>1. UNCHANGED view \/ (view' = merged /\ DOMAIN merged = DOMAIN view)
        BY <1>1, <1>2, <1>4, <3>1 DEF Fetched, Answered, Fetches
      <4>2. QED
        BY <1>1, <1>2, <4>1 DEF Agrees
    <3>2. CASE st = "ExamineQresync"
      BY <1>1, <1>16, <3>2 DEF Agrees
    <3>4. CASE st \notin Fetches \cup {"ExamineQresync"}
      BY <1>1, <1>15, <3>4 DEF Agrees
    <3>3. QED
      BY <3>1, <3>2, <3>4
  <2>4. QED
    BY <1>1, <1>5, <2>1, <2>2, <2>3 DEF Synced, Answered, Baselined
<1>13. QED
  BY <1>6, <1>7, <1>8, <1>10, <1>11, <1>12 DEF KInv

\* Another mailbox takes the name: nothing known is of it.
LEMMA RecreateStep == ASSUME SInv, Recreate PROVE SInv'
<1> USE DEF SInv
<1>1. /\ validity = 1 /\ validity' = 2 /\ highest' = 1
      /\ mailbox' = [u \in {1} |-> {}] /\ 1 \in Uids
      /\ modseq' = [u \in Uids |-> IF u = 1 THEN 1 ELSE 0]
      /\ UNCHANGED <<st, phase, reply, uidValidity, highestModSeq, shadow, qresync,
                     told, selected, view, viewValidity>>
  BY MaxUidAssumption
  DEF Recreate, watchVars, cmdVars, ghostVars, sesVars, optVars, Uids
<1>2. mailbox' \in Contents
  <2>1. mailbox' \in [{1} -> SUBSET Flags] /\ {1} \in SUBSET Uids
    BY <1>1
  <2>2. QED
    BY <2>1 DEF Contents
<1>3. Typed' /\ Bounded'
  BY <1>1, <1>2 DEF KInv, Typed, Bounded
<1>4. Keyed' /\ Moded' /\ Fetched' /\ ShadowIsServerState'
  BY <1>1 DEF KInv, Keyed, KeyedOnOneMailbox, Moded, Fetched, ShadowIsServerState,
              Baselined, Answered
<1>5. Patches'
  BY <1>1 DEF Patches, Answered, Patched, Resynced
<1>6. Synced'
  BY <1>1 DEF Synced, KInv, Typed, Bounded
<1>7. QED
  BY <1>3, <1>4, <1>5, <1>6 DEF KInv

-----------------------------------------------------------------------------
(* The completions the watch reads.                                        *)

\* The first EXAMINE gives the watch its mailbox and its mod-sequence.
LEMMA InitialStep == ASSUME SInv, ExamineInitialReplied PROVE SInv'
<1> USE DEF SInv
<1>1. /\ st = "ExamineInitial" /\ phase = "replied"
      /\ UNCHANGED <<shadow, reply, view, viewValidity, told, selected, qresync, mailbox,
                     validity, modseq, highest>>
  BY DEF ExamineInitialReplied, Replied, External, ghostVars, sesVars, srvVars, optVars
<1>2. \/ st' = "Terminal" /\ UNCHANGED phase
         /\ uidValidity' \in {uidValidity, reply.validity} /\ UNCHANGED highestModSeq
      \/ /\ st' = "FetchBaseline" /\ phase' = "send"
         /\ uidValidity' = reply.validity /\ reply.validity # 0
         /\ highestModSeq' = IF qresync THEN reply.modseq ELSE highestModSeq
  BY DEF ExamineInitialReplied, Finish, Goto
<1>3. Typed' /\ Bounded'
  BY <1>1, <1>2 DEF KInv, Typed, Bounded, Commands, Fetches
<1>4. Keyed'
  BY <1>1, <1>2 DEF KInv, Keyed, KeyedOnOneMailbox, Baselined, Answered
<1>5. Moded' /\ Fetched' /\ Patches' /\ ShadowIsServerState'
  BY <1>1, <1>2 DEF Moded, Fetched, Fetches, Patches, ShadowIsServerState, Baselined, Answered
<1>6. Synced'
  BY <1>1, <1>2 DEF Synced, Answered, Baselined, Holds
<1>7. QED
  BY <1>3, <1>4, <1>5, <1>6 DEF KInv

\* The baseline is the mailbox as of its answer.
LEMMA BaselineStep == ASSUME SInv, FetchBaselineReplied PROVE SInv'
<1> USE DEF SInv
<1>1. /\ st = "FetchBaseline" /\ phase = "replied" /\ st' = "BeginIdle" /\ phase' = "send"
      /\ shadow' = reply.items
      /\ UNCHANGED <<uidValidity, highestModSeq, reply, view, viewValidity, told, selected,
                     qresync, mailbox, validity, modseq, highest>>
  BY DEF FetchBaselineReplied, Replied, Goto, External, sesVars, srvVars, optVars
<1>2. shadow' = view
  BY <1>1 DEF Fetched, Fetches, Answered
<1>3. Typed' /\ Bounded'
  BY <1>1, <1>2 DEF KInv, Typed, Bounded
<1>4. Keyed'
  BY <1>1 DEF KInv, Keyed, KeyedOnOneMailbox, Baselined, Answered
<1>5. Moded' /\ Fetched' /\ Patches' /\ ShadowIsServerState'
  BY <1>1, <1>2 DEF Moded, Fetched, Fetches, Patches, ShadowIsServerState
<1>6. Synced'
  <2>1. Level = highestModSeq /\ Level' = highestModSeq
    BY <1>1 DEF Level
  <2>2. QED
    BY <1>1, <2>1 DEF Synced, Answered, Agrees
<1>7. QED
  BY <1>3, <1>4, <1>5, <1>6 DEF KInv

\* The QRESYNC deltas make the shadow what the server answered from.
LEMMA QresyncStep == ASSUME SInv, ExamineQresyncReplied PROVE SInv'
<1> USE DEF SInv
<1>1. /\ st = "ExamineQresync" /\ phase = "replied"
      /\ UNCHANGED <<uidValidity, reply, view, viewValidity, told, selected, qresync, mailbox,
                     validity, modseq, highest>>
  BY DEF ExamineQresyncReplied, Replied, External, ghostVars, sesVars, srvVars, optVars
<1>2. \/ st' = "Terminal" /\ UNCHANGED <<phase, shadow, highestModSeq>>
      \/ /\ st' = "EmitDeltas" /\ phase' = "send" /\ reply.validity = uidValidity
         /\ shadow' = Patched(Resynced, {}, reply.later) /\ highestModSeq' = NextModSeq
  BY DEF ExamineQresyncReplied, Unkeyed, Finish, Goto, Resynced
<1>3. st' = "EmitDeltas" => shadow' = view
  BY <1>1, <1>2 DEF Patches, Answered
<1>4. NextModSeq \in Nat
  BY DEF KInv, Typed, NextModSeq
<1>5. Typed' /\ Bounded'
  BY <1>1, <1>2, <1>3, <1>4 DEF KInv, Typed, Bounded
<1>6. Keyed'
  BY <1>1, <1>2 DEF KInv, Keyed, KeyedOnOneMailbox, Baselined, Answered
<1>7. Moded' /\ Fetched' /\ Patches' /\ ShadowIsServerState'
  BY <1>1, <1>2, <1>3 DEF Moded, Fetched, Fetches, Patches, ShadowIsServerState, Baselined
<1>8. Synced'
  <2>1. st' = "EmitDeltas" => Level' = Level
    BY <1>1, <1>2 DEF Level, Answered
  <2>2. QED
    BY <1>1, <1>2, <2>1 DEF Synced, Answered, Baselined, Agrees
<1>9. QED
  BY <1>5, <1>6, <1>7, <1>8 DEF KInv

\* Without QRESYNC the mailbox is fetched whole, if it is the same one.
LEMMA ResyncStep == ASSUME SInv, ExamineResyncReplied PROVE SInv'
<1> USE DEF SInv
<1>1. /\ st = "ExamineResync" /\ phase = "replied"
      /\ UNCHANGED <<uidValidity, highestModSeq, shadow, reply, view, viewValidity, told,
                     selected, qresync, mailbox, validity, modseq, highest>>
  BY DEF ExamineResyncReplied, Replied, External, ghostVars, sesVars, srvVars, optVars
<1>2. \/ st' = "Terminal" /\ UNCHANGED phase
      \/ st' = "FetchResync" /\ phase' = "send" /\ reply.validity = uidValidity
  BY DEF ExamineResyncReplied, Unkeyed, Finish, Goto
<1>3. Typed' /\ Bounded'
  BY <1>1, <1>2 DEF KInv, Typed, Bounded, Commands, Fetches
<1>4. Keyed'
  BY <1>1, <1>2 DEF KInv, Keyed, KeyedOnOneMailbox, Baselined, Answered
<1>5. Moded' /\ Fetched' /\ Patches' /\ ShadowIsServerState'
  BY <1>1, <1>2 DEF Moded, Fetched, Fetches, Patches, ShadowIsServerState, Baselined, Answered
<1>6. Synced'
  BY <1>1 DEF Synced, Moded
<1>7. QED
  BY <1>3, <1>4, <1>5, <1>6 DEF KInv

\* Absence from the snapshot takes a message away: the shadow becomes the snapshot.
LEMMA SnapshotStep == ASSUME SInv, FetchResyncReplied PROVE SInv'
<1> USE DEF SInv
<1> DEFINE gone == DOMAIN shadow \ DOMAIN reply.items
<1>1. /\ st = "FetchResync" /\ phase = "replied" /\ st' = "EmitDeltas" /\ phase' = "send"
      /\ shadow' = Patched(shadow, gone, reply.items)
      /\ UNCHANGED <<uidValidity, highestModSeq, reply, view, viewValidity, told, selected,
                     qresync, mailbox, validity, modseq, highest>>
  BY DEF FetchResyncReplied, Replied, Goto, External, ghostVars, sesVars, srvVars, optVars
<1>2. shadow \in Contents /\ reply.items \in Contents /\ gone \in SUBSET Uids
  BY ContentsElim DEF KInv, Typed
<1>3. Patched(shadow, gone, reply.items) = reply.items
  <2> HIDE DEF gone
  <2>1. /\ Patched(shadow, gone, reply.items) \in Contents
        /\ DOMAIN Patched(shadow, gone, reply.items) = (DOMAIN shadow \ gone) \cup DOMAIN reply.items
        /\ \A u \in DOMAIN Patched(shadow, gone, reply.items) :
             Patched(shadow, gone, reply.items)[u] =
               IF u \in DOMAIN reply.items THEN reply.items[u] ELSE shadow[u]
    BY <1>2, PatchedFields
  <2>2. (DOMAIN shadow \ gone) \cup DOMAIN reply.items = DOMAIN reply.items
    BY DEF gone
  <2>3. QED
    BY <1>2, <2>1, <2>2, ContentsEqual
<1>4. shadow' = view
  BY <1>1, <1>3 DEF Fetched, Fetches, Answered
<1>5. Typed' /\ Bounded'
  BY <1>1, <1>4 DEF KInv, Typed, Bounded
<1>6. Keyed'
  BY <1>1 DEF KInv, Keyed, KeyedOnOneMailbox, Baselined, Answered
<1>7. Moded' /\ Fetched' /\ Patches' /\ ShadowIsServerState'
  BY <1>1, <1>4 DEF Moded, Fetched, Fetches, Patches, ShadowIsServerState
<1>8. Synced'
  BY <1>1 DEF Synced, Moded
<1>9. QED
  BY <1>5, <1>6, <1>7, <1>8 DEF KInv

-----------------------------------------------------------------------------
(* The other steps.                                                        *)

\* The steps of the watch that read nothing.
LEMMA WatchGoes ==
  ASSUME SInv,
         \/ SendCommand \/ EnableReplied \/ BeginIdle \/ Waiting \/ IdleStarted \/ IdleRead
         \/ IdleWindDown \/ IdleEnded \/ EmitDeltas \/ ExchangeFails \/ IdleFails
         \/ KeepAlive \/ Elapse \/ Shutdown
  PROVE  Goes
<1> USE DEF Goes, SameServer, SameView, SameSession, SameWatch, External, watchVars,
            ghostVars, srvVars, sesVars, optVars, cmdVars
<1>1. CASE SendCommand
  BY <1>1 DEF SendCommand
<1>2. CASE EnableReplied
  BY <1>2 DEF EnableReplied, Replied, Goto
<1>3. CASE BeginIdle
  BY <1>3 DEF BeginIdle, Goto, Finish, Quiet
<1>4. CASE Waiting
  BY <1>4 DEF Waiting, Resync, Goto, Finish, Quiet
<1>5. CASE IdleStarted
  BY <1>5 DEF IdleStarted
<1>6. CASE IdleRead
  BY <1>6 DEF IdleRead
<1>7. CASE IdleWindDown
  BY <1>7 DEF IdleWindDown, Quiet
<1>8. CASE IdleEnded
  BY <1>8 DEF IdleEnded, Resync, Goto, Finish, Quiet
<1>9. CASE EmitDeltas
  BY <1>9 DEF EmitDeltas, Goto, Quiet
<1>10. CASE ExchangeFails \/ IdleFails
  BY <1>10 DEF ExchangeFails, IdleFails, Broken, Finish
<1>11. CASE KeepAlive \/ Elapse \/ Shutdown
  BY <1>11 DEF KeepAlive, SameClient, Elapse, Shutdown
<1>12. QED
  BY <1>1, <1>2, <1>3, <1>4, <1>5, <1>6, <1>7, <1>8, <1>9, <1>10, <1>11

\* The answers to ENABLE, IDLE and DONE.
LEMMA ServerAcknowledges ==
  ASSUME ServeEnable \/ ServeIdle \/ ServeDone
  PROVE  Acknowledges
BY DEF ServeEnable, ServeIdle, ServeDone, Serving, SameClient, Acknowledges, SameServer,
       SameView, SameSession, SameWatch, watchVars, ghostVars, srvVars, sesVars, optVars

\* An announcement while idling.
LEMMA AnnounceTells == ASSUME Announce PROVE Tells
BY DEF Announce, SameClient, Tells, SameServer, SameView, SameWatch, watchVars, cmdVars,
       ghostVars, srvVars, optVars

\* A change stamps the one message it is about.
LEMMA StampTouches ==
  ASSUME NEW u \in Uids, Stamp(u), mailbox' \in Contents,
         \A v \in Uids \ {u} : /\ v \in DOMAIN mailbox' <=> v \in DOMAIN mailbox
                               /\ v \in DOMAIN mailbox => mailbox'[v] = mailbox[v]
  PROVE  Touches
BY DEF Stamp, Touches, SameView, SameSession, SameWatch, watchVars, cmdVars, ghostVars,
       sesVars, optVars

\* Every other client changes one message, or the mailbox.
LEMMA ChangeTouches ==
  ASSUME SInv, Others
  PROVE  Touches \/ Recreate
<1>1. mailbox \in Contents
  BY DEF SInv, KInv, Typed
<1>2. DOMAIN mailbox \subseteq Uids /\ \A v \in DOMAIN mailbox : mailbox[v] \in SUBSET Flags
  BY <1>1, ContentsElim
<1>3. CASE Deliver
  <2>1. /\ nextUid \in Uids /\ Stamp(nextUid)
        /\ mailbox' = [v \in DOMAIN mailbox \cup {nextUid} |->
                         IF v = nextUid THEN {} ELSE mailbox[v]]
    BY <1>3 DEF Deliver
  <2>2. mailbox' \in [DOMAIN mailbox \cup {nextUid} -> SUBSET Flags]
        /\ DOMAIN mailbox \cup {nextUid} \in SUBSET Uids
    BY <1>2, <2>1
  <2>3. mailbox' \in Contents
    BY <2>2 DEF Contents
  <2>4. QED
    BY <2>1, <2>3, StampTouches
<1>4. ASSUME NEW u \in Uids, NEW fs \in SUBSET Flags, StoreFlags(u, fs)
      PROVE  Touches
  <2>1. Stamp(u) /\ u \in DOMAIN mailbox /\ mailbox' = [mailbox EXCEPT ![u] = fs]
    BY <1>4 DEF StoreFlags
  <2>2. mailbox \in [DOMAIN mailbox -> SUBSET Flags]
    BY <1>1, ContentsElim
  <2>3. mailbox' \in [DOMAIN mailbox -> SUBSET Flags]
    BY <2>1, <2>2
  <2>4. mailbox' \in Contents
    BY <1>2, <2>3 DEF Contents
  <2>5. QED
    BY <2>1, <2>2, <2>4, StampTouches
<1>5. ASSUME NEW u \in Uids, Expunge(u)
      PROVE  Touches
  <2>1. Stamp(u) /\ mailbox' = [v \in DOMAIN mailbox \ {u} |-> mailbox[v]]
    BY <1>5 DEF Expunge
  <2>2. mailbox' \in Contents
    BY <1>1, <2>1, PartContents
  <2>3. QED
    BY <2>1, <2>2, StampTouches
<1>6. QED
  BY <1>3, <1>4, <1>5 DEF Others

-----------------------------------------------------------------------------
(* The theorems.                                                           *)

\* Before the first EXAMINE nothing is known, and nothing is wrong.
LEMMA InitInv == Init => SInv
<1> SUFFICES ASSUME Init
             PROVE  SInv
  OBVIOUS
<1>1. Empty \in Contents /\ DOMAIN Empty = {}
  BY EmptyContents DEF Empty
<1>2. PICK U \in {{}, {1} \cap Uids} : mailbox = [u \in U |-> {}]
  BY DEF Init
<1>3. mailbox \in Contents
  <2>1. mailbox \in [U -> SUBSET Flags] /\ U \in SUBSET Uids
    BY <1>2
  <2>2. QED
    BY <2>1 DEF Contents
<1>4. NoReply \in [validity : 0..2, modseq : Nat, vanished : SUBSET Uids,
                   items : Contents, later : Contents, notice : BOOLEAN] /\ NoReply.validity = 0
  BY <1>1 DEF NoReply
<1>5. Typed
  BY <1>1, <1>3, <1>4 DEF Init, Typed, Commands, Examines
<1>6. Bounded
  BY <1>4 DEF Init, Bounded
<1>7. Keyed /\ Moded /\ Fetched /\ Patches /\ Synced /\ ShadowIsServerState
  BY DEF Init, Keyed, KeyedOnOneMailbox, Moded, Fetched, Patches, Synced,
         ShadowIsServerState, Baselined, Answered, Fetches
<1>8. QED
  BY <1>5, <1>6, <1>7 DEF SInv, KInv

\* The invariant is inductive.
LEMMA StepInv == SInv /\ [Next]_vars => SInv'
<1> SUFFICES ASSUME SInv, [Next]_vars
             PROVE  SInv'
  OBVIOUS
<1>1. CASE Resume \/ ExchangeFails \/ IdleFails \/ KeepAlive \/ Elapse \/ Shutdown
  BY <1>1, WatchGoes, GoesS, InitialStep, BaselineStep, QresyncStep, ResyncStep, SnapshotStep
  DEF Resume
<1>2. CASE Answer
  BY <1>2, ServerAcknowledges, AcknowledgesS, ServeExamineStep, ServeFetchStep, FinishStep
  DEF Answer
<1>3. CASE Announce
  BY <1>3, AnnounceTells, TellsS
<1>4. CASE Others
  BY <1>4, ChangeTouches, TouchesS, RecreateStep
<1>5. CASE UNCHANGED vars
  <2>1. Goes
    BY <1>5 DEF vars, watchVars, cmdVars, ghostVars, srvVars, sesVars, optVars, Goes,
                SameServer, SameView, SameSession, SameWatch
  <2>2. QED
    BY <2>1, GoesS
<1>6. QED
  BY <1>1, <1>2, <1>3, <1>4, <1>5 DEF Next

\* It always holds.
LEMMA SInvAlways == Spec => []SInv
BY InitInv, StepInv, PTL DEF Spec

(* The shadow is never keyed on another mailbox that took the same name,   *)
(* whenever it does (watch.rs:349-363): the UIDVALIDITY the watch keeps is *)
(* that of the mailbox its shadow was read from.                           *)
THEOREM NeverRekeyed == Spec => []KeyedOnOneMailbox
<1>1. SInv => KeyedOnOneMailbox
  BY DEF SInv, KInv, Keyed
<1>2. QED
  BY <1>1, SInvAlways, PTL

(* After any resync the shadow is the mailbox as the server answered, from *)
(* QRESYNC deltas (watch.rs:430-466) as from a whole snapshot              *)
(* (watch.rs:400-428), for any mailbox, flags and number of changes.       *)
THEOREM ShadowFollowsServer == Spec => []ShadowIsServerState
<1>1. SInv => ShadowIsServerState
  BY DEF SInv
<1>2. QED
  BY <1>1, SInvAlways, PTL
-----------------------------------------------------------------------------
(* Runs of events.                                                         *)

Steps(h, p) ==
  /\ h \in [0..Len(p) -> Contents]
  /\ \A i \in 1..Len(p) : Fits(h[i - 1], p[i]) /\ h[i] = Apply(h[i - 1], p[i])
Runs(c, p, d) == \E h : Steps(h, p) /\ h[0] = c /\ h[Len(p)] = d

\* The types of what Typed leaves out.
Ranged ==
  /\ poll \in BOOLEAN /\ eager \in Eager
  /\ pending \in Seq(Event) /\ replica \in Contents
  /\ idleDone \in BOOLEAN /\ sawData \in BOOLEAN /\ shutdown \in BOOLEAN /\ unread \in BOOLEAN
  /\ outcome \in {"none", "Ok", "Err"} /\ (outcome = "none" <=> st # "Terminal")
  /\ idle \in {"Idle", "Read", "Done"} /\ timer \in {"unset", "running", "elapsed"}
  /\ nextUid \in 1..(MaxUid + 1) /\ changes \in 0..MaxChanges /\ elapsed \in 0..MaxElapsed

Pending ==
  /\ st \notin {"EmitDeltas", "Terminal"} => pending = <<>>
  /\ Baselined => Runs(replica, pending, shadow)
  /\ pending # <<>> => Fits(replica, Head(pending))

EInv == SInv /\ Ranged /\ Pending
-----------------------------------------------------------------------------
(* Sequences defined by recursion.                                         *)

\* Induction, over a set of numbers.
LEMMA Induct ==
  ASSUME NEW n \in Nat, NEW S, 0 \in S, \A i \in 1..n : i - 1 \in S => i \in S
  PROVE  \A i \in 0..n : i \in S
<1> SUFFICES ASSUME NEW k \in 0..n, k \notin S
             PROVE  FALSE
  OBVIOUS
<1> DEFINE T == {i \in 0..n : i \notin S}
<1>1. T \in SUBSET Nat /\ T # {}
  OBVIOUS
<1>2. PICK i \in T : \A j \in T : ~(<<j, i>> \in OpToRel(<, Nat))
  BY <1>1, WFMin, NatLessThanWellFounded, Zenon
<1>3. i \in 0..n /\ i \notin S /\ i # 0 /\ i - 1 \in 0..n
  OBVIOUS
<1>4. i - 1 \notin T
  <2>1. i - 1 \in Nat /\ i \in Nat /\ i - 1 < i
    BY <1>3
  <2>2. <<i - 1, i>> \in OpToRel(<, Nat)
    BY <2>1, Zenon DEF OpToRel
  <2>3. QED
    BY <1>2, <2>2, Zenon
<1>5. QED
  BY <1>3, <1>4

\* What FlattenSeq is, part by part.
LEMMA FlattenParts ==
  ASSUME NEW S, NEW s \in Seq(Seq(S)), Len(s) > 0
  PROVE  \E f : /\ f = [i \in 1..Len(s) |-> IF i = 1 THEN s[i] ELSE f[i - 1] \o s[i]]
                /\ FlattenSeq(s) = f[Len(s)]
<1> DEFINE n == Len(s)
           Body(f, k) == f = [i \in 1..k |-> IF i = 1 THEN s[i] ELSE f[i - 1] \o s[i]]
           Has(k) == \E f : Body(f, k)
           K == {k \in 0..n : Has(k)}
<1>1. n \in Nat
  OBVIOUS
<1>2. 0 \in K
  <2>1. Body(<<>>, 0)
    OBVIOUS
  <2>2. Has(0)
    BY <2>1, Zenon
  <2> HIDE DEF Has
  <2>3. QED
    BY <1>1, <2>2
<1>3. ASSUME NEW k \in 1..n, k - 1 \in K
      PROVE  k \in K
  <2>1. PICK f : Body(f, k - 1)
    BY <1>3
  <2> DEFINE g == [i \in 1..k |-> IF i < k THEN f[i] ELSE IF k = 1 THEN s[k] ELSE f[k - 1] \o s[k]]
  <2>2. ASSUME NEW i \in 1..k
        PROVE  g[i] = IF i = 1 THEN s[i] ELSE g[i - 1] \o s[i]
    <3>1. CASE i < k
      <4>1. i \in 1..(k - 1)
        BY <1>1, <3>1
      <4>2. f[i] = IF i = 1 THEN s[i] ELSE f[i - 1] \o s[i]
        BY <2>1, <4>1
      <4>3. g[i] = f[i] /\ (i # 1 => g[i - 1] = f[i - 1])
        BY <1>1, <3>1
      <4>4. QED
        BY <4>2, <4>3
    <3>2. CASE i = k
      <4>1. g[k] = IF k = 1 THEN s[k] ELSE f[k - 1] \o s[k]
        BY <1>1
      <4>2. k # 1 => g[k - 1] = f[k - 1]
        BY <1>1
      <4>3. QED
        BY <3>2, <4>1, <4>2
    <3>3. QED
      BY <1>1, <3>1, <3>2
  <2>3. Body(g, k)
    <3>1. g = [i \in 1..k |-> g[i]]
      BY Zenon
    <3>2. [i \in 1..k |-> g[i]] = [i \in 1..k |-> IF i = 1 THEN s[i] ELSE g[i - 1] \o s[i]]
      <4> HIDE DEF g
      <4> QED
        BY <2>2, Zenon
    <3> HIDE DEF g
    <3>3. QED
      BY <3>1, <3>2, Zenon
  <2>4. Has(k)
    <3> HIDE DEF g, Body
    <3> QED
      BY <2>3, Zenon
  <2> HIDE DEF Has
  <2>5. QED
    BY <1>1, <2>4
<1>4. Has(n)
  <2> HIDE DEF K
  <2>1. \A i \in 0..n : i \in K
    BY <1>1, <1>2, <1>3, Induct
  <2>2. n \in K
    BY <1>1, <2>1
  <2> HIDE DEF Has
  <2>3. QED
    BY <2>2 DEF K
<1>5. PICK w : Body(w, n)
  BY <1>4
<1> DEFINE F == CHOOSE f : Body(f, n)
<1>6. Body(F, n)
  BY <1>5
<1>7. FlattenSeq(s) = F[n]
  BY DEF FlattenSeq
<1> HIDE DEF F
<1>8. QED
  BY <1>6, <1>7

-----------------------------------------------------------------------------
(* Runs.                                                                   *)

LEMMA RunsNone ==
  ASSUME NEW c \in Contents
  PROVE  Runs(c, <<>>, c)
<1> DEFINE h == [i \in 0..0 |-> c]
<1>1. Steps(h, <<>>) /\ h[0] = c /\ Len(<<>>) = 0
  BY DEF Steps
<1> HIDE DEF h
<1>2. QED
  BY <1>1 DEF Runs

LEMMA RunsOne ==
  ASSUME NEW c \in Contents, NEW e \in Event, Fits(c, e), Apply(c, e) \in Contents
  PROVE  Runs(c, <<e>>, Apply(c, e))
<1> DEFINE h == [i \in 0..1 |-> IF i = 0 THEN c ELSE Apply(c, e)]
<1>1. h \in [0..1 -> Contents] /\ h[0] = c /\ h[1] = Apply(c, e)
  <2> HIDE DEF Contents
  <2> QED
    OBVIOUS
<1>2. Len(<<e>>) = 1 /\ <<e>>[1] = e
  OBVIOUS
<1> HIDE DEF h
<1>3. Steps(h, <<e>>)
  <2>1. ASSUME NEW i \in 1..1
        PROVE  Fits(h[i - 1], <<e>>[i]) /\ h[i] = Apply(h[i - 1], <<e>>[i])
    <3>1. i = 1 /\ i - 1 = 0
      OBVIOUS
    <3>2. QED
      BY <1>1, <1>2, <3>1
  <2>2. QED
    BY <1>1, <1>2, <2>1 DEF Steps
<1>4. QED
  BY <1>1, <1>2, <1>3 DEF Runs

\* One run after another.
LEMMA RunsConcat ==
  ASSUME NEW c, NEW d, NEW e, NEW p \in Seq(Event), NEW q \in Seq(Event),
         Runs(c, p, d), Runs(d, q, e)
  PROVE  Runs(c, p \o q, e)
<1>1. PICK f : Steps(f, p) /\ f[0] = c /\ f[Len(p)] = d
  BY DEF Runs
<1>2. PICK g : Steps(g, q) /\ g[0] = d /\ g[Len(q)] = e
  BY DEF Runs
<1> DEFINE m == Len(p)
           n == Len(q)
           h == [i \in 0..(m + n) |-> IF i <= m THEN f[i] ELSE g[i - m]]
<1>3. m \in Nat /\ n \in Nat
  OBVIOUS
<1>4. /\ p \o q \in Seq(Event) /\ Len(p \o q) = m + n
      /\ \A i \in 1..(m + n) : (p \o q)[i] = IF i <= m THEN p[i] ELSE q[i - m]
  BY ConcatProperties
<1>5. \A i \in 0..m : f[i] \in Contents
  BY <1>1 DEF Steps
<1>6. \A i \in 0..n : g[i] \in Contents
  BY <1>2 DEF Steps
<1> HIDE DEF m, n
<1>7. ASSUME NEW i \in 0..(m + n)
      PROVE  h[i] \in Contents /\ (i <= m => h[i] = f[i]) /\ (i >= m => h[i] = g[i - m])
  BY <1>1, <1>2, <1>3, <1>5, <1>6 DEF m
<1>8. ASSUME NEW i \in 1..(m + n)
      PROVE  Fits(h[i - 1], (p \o q)[i]) /\ h[i] = Apply(h[i - 1], (p \o q)[i])
  <2>1. CASE i <= m
    <3>1. h[i - 1] = f[i - 1] /\ h[i] = f[i] /\ (p \o q)[i] = p[i] /\ i \in 1..m
      BY <1>3, <1>4, <1>7, <2>1
    <3>2. Fits(f[i - 1], p[i]) /\ f[i] = Apply(f[i - 1], p[i])
      BY <1>1, <3>1 DEF Steps, m
    <3>3. QED
      BY <3>1, <3>2
  <2>2. CASE i > m
    <3> DEFINE j == i - m
    <3>1. j \in 1..n /\ h[i - 1] = g[j - 1] /\ h[i] = g[j] /\ (p \o q)[i] = q[j]
      <4>1. i - 1 >= m /\ (i - 1) - m = (i - m) - 1
        BY <1>3, <2>2
      <4>2. QED
        BY <1>3, <1>4, <1>7, <2>2, <4>1
    <3>2. Fits(g[j - 1], q[j]) /\ g[j] = Apply(g[j - 1], q[j])
      BY <1>2, <3>1 DEF Steps, n
    <3>3. QED
      BY <3>1, <3>2
  <2>3. m \in Nat /\ n \in Nat /\ i \in Nat
    BY <1>3
  <2>4. i <= m \/ i > m
    BY <2>3
  <2>5. QED
    BY <2>1, <2>2, <2>4
<1>9. h \in [0..(m + n) -> Contents]
  BY <1>7
<1>10. h[0] = c /\ h[m + n] = e
  BY <1>1, <1>2, <1>3, <1>7 DEF n
<1> HIDE DEF h
<1>11. QED
  BY <1>4, <1>8, <1>9, <1>10 DEF Runs, Steps

\* The first step of a run.
LEMMA RunsHead ==
  ASSUME NEW c, NEW d, NEW p \in Seq(Event), p # <<>>, Runs(c, p, d)
  PROVE  /\ Fits(c, Head(p)) /\ Apply(c, Head(p)) \in Contents
         /\ Runs(Apply(c, Head(p)), Tail(p), d)
<1>1. PICK h : Steps(h, p) /\ h[0] = c /\ h[Len(p)] = d
  BY DEF Runs
<1>2. /\ Len(p) \in Nat /\ Len(p) >= 1 /\ Head(p) = p[1]
      /\ Len(Tail(p)) = Len(p) - 1
      /\ \A i \in 1..(Len(p) - 1) : Tail(p)[i] = p[i + 1]
  BY HeadTailProperties, EmptySeq, LenProperties
<1>3. Fits(c, p[1]) /\ h[1] = Apply(c, p[1]) /\ h[1] \in Contents
  <2>1. 1 \in 1..Len(p) /\ 1 \in 0..Len(p) /\ 1 - 1 = 0
    BY <1>2
  <2>2. QED
    BY <1>1, <2>1 DEF Steps
<1> DEFINE g == [i \in 0..(Len(p) - 1) |-> h[i + 1]]
<1>4. g \in [0..(Len(p) - 1) -> Contents] /\ g[0] = h[1] /\ g[Len(p) - 1] = d
  BY <1>1, <1>2 DEF Steps
<1>5. ASSUME NEW i \in 1..(Len(p) - 1)
      PROVE  Fits(g[i - 1], Tail(p)[i]) /\ g[i] = Apply(g[i - 1], Tail(p)[i])
  <2>1. g[i - 1] = h[i] /\ g[i] = h[i + 1] /\ Tail(p)[i] = p[i + 1] /\ i + 1 \in 1..Len(p)
        /\ (i + 1) - 1 = i
    BY <1>2
  <2>2. Fits(h[(i + 1) - 1], p[i + 1]) /\ h[i + 1] = Apply(h[(i + 1) - 1], p[i + 1])
    BY <1>1, <2>1 DEF Steps
  <2>3. QED
    BY <2>1, <2>2
<1> HIDE DEF g
<1>6. Steps(g, Tail(p))
  BY <1>2, <1>4, <1>5 DEF Steps
<1>7. QED
  BY <1>2, <1>3, <1>4, <1>6 DEF Runs

\* A run ends where the replay of its events does.
LEMMA RunsReplay ==
  ASSUME NEW c, NEW d, NEW p \in Seq(Event), Runs(c, p, d)
  PROVE  Replayed(c, p) = d
<1>1. PICK h : Steps(h, p) /\ h[0] = c /\ h[Len(p)] = d
  BY DEF Runs
<1> DEFINE n == Len(p)
           Body(f) == f = [i \in 0..n |-> IF i = 0 THEN c ELSE Apply(f[i - 1], p[i])]
           F == CHOOSE f : Body(f)
<1>2. n \in Nat
  OBVIOUS
<1>3. Body(h)
  <2>1. h = [i \in 0..n |-> h[i]]
    BY <1>1 DEF Steps
  <2>2. ASSUME NEW i \in 0..n
        PROVE  h[i] = IF i = 0 THEN c ELSE Apply(h[i - 1], p[i])
    <3>1. CASE i = 0
      BY <1>1, <3>1
    <3>2. CASE i # 0
      <4>1. i \in 1..n
        BY <1>2, <3>2
      <4>2. QED
        BY <1>1, <3>2, <4>1 DEF Steps
    <3>3. QED
      BY <3>1, <3>2
  <2>3. [i \in 0..n |-> h[i]] = [i \in 0..n |-> IF i = 0 THEN c ELSE Apply(h[i - 1], p[i])]
    BY <2>2, Zenon
  <2>4. QED
    BY <2>1, <2>3, Zenon
<1>4. Body(F)
  BY <1>3, Zenon
<1>5. Replayed(c, p) = F[n]
  BY Zenon DEF Replayed
<1> DEFINE S == {i \in 0..n : F[i] = h[i]}
<1>6. \A i \in 0..n : F[i] = IF i = 0 THEN c ELSE Apply(F[i - 1], p[i])
  <2> HIDE DEF F
  <2>1. ASSUME NEW i \in 0..n
        PROVE  F[i] = IF i = 0 THEN c ELSE Apply(F[i - 1], p[i])
    <3> DEFINE G == [k \in 0..n |-> IF k = 0 THEN c ELSE Apply(F[k - 1], p[k])]
    <3>1. G[i] = IF i = 0 THEN c ELSE Apply(F[i - 1], p[i])
      BY Zenon
    <3>2. F = G
      BY <1>4, Zenon
    <3> HIDE DEF G
    <3>3. QED
      BY <3>1, <3>2, Zenon
  <2>2. QED
    BY <2>1
<1> HIDE DEF F
<1>7. 0 \in S
  BY <1>1, <1>2, <1>6
<1>8. ASSUME NEW i \in 1..n, i - 1 \in S
      PROVE  i \in S
  <2>1. i \in 0..n /\ i # 0 /\ F[i - 1] = h[i - 1]
    BY <1>2, <1>8
  <2>2. F[i] = Apply(F[i - 1], p[i]) /\ h[i] = Apply(h[i - 1], p[i])
    BY <1>1, <1>6, <2>1 DEF Steps
  <2>3. QED
    BY <2>1, <2>2
<1>9. n \in S
  <2> HIDE DEF S
  <2>1. \A i \in 0..n : i \in S
    BY <1>2, <1>7, <1>8, Induct
  <2>2. QED
    BY <1>2, <2>1
<1>10. QED
  BY <1>1, <1>5, <1>9

\* Runs of the parts of a sequence of sequences.
LEMMA RunsFlatten ==
  ASSUME NEW n \in Nat, NEW s \in [1..n -> Seq(Event)], NEW c \in [0..n -> Contents],
         \A i \in 1..n : Runs(c[i - 1], s[i], c[i])
  PROVE  FlattenSeq(s) \in Seq(Event) /\ Runs(c[0], FlattenSeq(s), c[n])
<1>1. s \in Seq(Seq(Event)) /\ Len(s) = n
  BY SeqDef
<1>2. CASE n = 0
  <2>1. FlattenSeq(s) = s /\ s = <<>>
    BY <1>1, <1>2, EmptySeq DEF FlattenSeq
  <2>2. c[0] \in Contents
    BY <1>2
  <2>3. QED
    BY <1>2, <2>1, <2>2, RunsNone, EmptySeq
<1>3. CASE n # 0
  <2>0. Len(s) > 0
    BY <1>1, <1>3
  <2>1. PICK f : /\ f = [i \in 1..Len(s) |-> IF i = 1 THEN s[i] ELSE f[i - 1] \o s[i]]
                 /\ FlattenSeq(s) = f[Len(s)]
    BY <1>1, <2>0, FlattenParts, Zenon
  <2>2. ASSUME NEW i \in 1..n
        PROVE  f[i] = IF i = 1 THEN s[i] ELSE f[i - 1] \o s[i]
    <3> DEFINE g == [k \in 1..Len(s) |-> IF k = 1 THEN s[k] ELSE f[k - 1] \o s[k]]
    <3>1. i \in 1..Len(s)
      BY <1>1
    <3>2. g[i] = IF i = 1 THEN s[i] ELSE f[i - 1] \o s[i]
      BY <3>1, Zenon
    <3>3. f = g
      BY <2>1, Zenon
    <3> HIDE DEF g
    <3>4. QED
      BY <3>2, <3>3, Zenon
  <2> DEFINE S == {i \in 0..n : i # 0 => f[i] \in Seq(Event) /\ Runs(c[0], f[i], c[i])}
  <2>3. 0 \in S
    OBVIOUS
  <2>4. ASSUME NEW i \in 1..n, i - 1 \in S
        PROVE  i \in S
    <3>1. s[i] \in Seq(Event) /\ Runs(c[i - 1], s[i], c[i])
      OBVIOUS
    <3>2. CASE i = 1
      BY <2>2, <3>1, <3>2
    <3>3. CASE i # 1
      <4>1. f[i] = f[i - 1] \o s[i]
        BY <2>2, <3>3
      <4>2. f[i - 1] \in Seq(Event) /\ Runs(c[0], f[i - 1], c[i - 1])
        BY <2>4, <3>3
      <4>3. f[i] \in Seq(Event) /\ Runs(c[0], f[i], c[i])
        BY <3>1, <4>1, <4>2, RunsConcat, ConcatProperties
      <4>4. QED
        BY <4>3
    <3>4. QED
      BY <3>2, <3>3
  <2>5. n \in S
    <3> HIDE DEF S
    <3>1. \A i \in 0..n : i \in S
      BY <2>3, <2>4, Induct
    <3>2. QED
      BY <3>1
  <2>6. QED
    BY <1>1, <1>3, <2>1, <2>5
<1>4. QED
  BY <1>2, <1>3

-----------------------------------------------------------------------------
(* The deltas.                                                             *)

\* The flags that were added, then those that were removed.
LEMMA FlagDeltasRun ==
  ASSUME NEW c \in Contents, NEW u \in DOMAIN c, NEW new \in SUBSET Flags
  PROVE  /\ FlagDeltas(u, c[u], new) \in Seq(Event)
         /\ [c EXCEPT ![u] = new] \in Contents
         /\ Runs(c, FlagDeltas(u, c[u], new), [c EXCEPT ![u] = new])
<1> DEFINE old == c[u]
           plus == [type |-> "FlagsAdded", uid |-> u, flags |-> new \ old]
           minus == [type |-> "FlagsRemoved", uid |-> u, flags |-> old \ new]
           P == IF new \subseteq old THEN <<>> ELSE <<plus>>
           M == IF old \subseteq new THEN <<>> ELSE <<minus>>
           d == [c EXCEPT ![u] = old \cup new]
           e == [c EXCEPT ![u] = new]
<1>1. u \in Uids /\ old \in SUBSET Flags
  BY ContentsElim
<1>2. plus \in Event /\ minus \in Event
  BY <1>1 DEF Event
<1>3. ASSUME NEW fs \in SUBSET Flags
      PROVE  /\ [c EXCEPT ![u] = fs] \in Contents
             /\ DOMAIN [c EXCEPT ![u] = fs] = DOMAIN c /\ [c EXCEPT ![u] = fs][u] = fs
             /\ \A v \in DOMAIN c : v # u => [c EXCEPT ![u] = fs][v] = c[v]
  <2>1. PICK U \in SUBSET Uids : c \in [U -> SUBSET Flags]
    BY DEF Contents
  <2>2. [c EXCEPT ![u] = fs] \in [U -> SUBSET Flags]
    BY <2>1
  <2>3. QED
    BY <2>1, <2>2 DEF Contents
<1>4. d \in Contents /\ e \in Contents /\ DOMAIN d = DOMAIN c /\ d[u] = old \cup new
  BY <1>1, <1>3
<1> HIDE DEF d, e
<1>5. Runs(c, P, d)
  <2>1. CASE new \subseteq old
    <3>1. d = c
      BY <1>1, <1>3, <1>4, <2>1, ContentsEqual DEF d
    <3>2. QED
      BY <2>1, <3>1, RunsNone
  <2>2. CASE ~(new \subseteq old)
    <3>1. Fits(c, plus)
      BY DEF Fits
    <3>2. Apply(c, plus) = d
      <4>1. Apply(c, plus) = [c EXCEPT ![u] = c[u] \cup (new \ old)]
        BY DEF Apply
      <4>2. c[u] \cup (new \ old) = old \cup new
        OBVIOUS
      <4>3. QED
        BY <4>1, <4>2 DEF d
    <3>3. QED
      BY <1>2, <1>4, <2>2, <3>1, <3>2, RunsOne
  <2>3. QED
    BY <2>1, <2>2
<1>6. Runs(d, M, e)
  <2>1. CASE old \subseteq new
    <3>1. d = e
      <4>1. old \cup new = new
        BY <2>1
      <4>2. QED
        BY <4>1 DEF d, e
    <3>2. QED
      BY <1>4, <2>1, <3>1, RunsNone
  <2>2. CASE ~(old \subseteq new)
    <3>1. Fits(d, minus)
      BY <1>4 DEF Fits
    <3>2. Apply(d, minus) = e
      <4>1. Apply(d, minus) = [d EXCEPT ![u] = d[u] \ (old \ new)]
        BY DEF Apply
      <4>2. d[u] \ (old \ new) = new
        BY <1>4
      <4>3. [d EXCEPT ![u] = new] = e
        BY DEF d, e
      <4>4. QED
        BY <4>1, <4>2, <4>3
    <3>3. QED
      BY <1>2, <1>4, <2>2, <3>1, <3>2, RunsOne
  <2>3. QED
    BY <2>1, <2>2
<1>7. P \in Seq(Event) /\ M \in Seq(Event)
  BY <1>2
<1>8. FlagDeltas(u, c[u], new) = P \o M
  BY DEF FlagDeltas
<1> HIDE DEF P, M
<1>9. QED
  BY <1>4, <1>5, <1>6, <1>7, <1>8, RunsConcat, ConcatProperties DEF e

\* The contents `base` without those of `gone` up to UID i.
Less(base, gone, i) == [u \in DOMAIN base \ {v \in gone : v <= i} |-> base[u]]

LEMMA LessFields ==
  ASSUME NEW base \in Contents, NEW gone \in SUBSET Uids, NEW i \in 0..MaxUid
  PROVE  /\ Less(base, gone, i) \in Contents
         /\ DOMAIN Less(base, gone, i) = DOMAIN base \ {v \in gone : v <= i}
         /\ \A u \in DOMAIN Less(base, gone, i) : Less(base, gone, i)[u] = base[u]
<1> DEFINE U == DOMAIN base \ {v \in gone : v <= i}
<1>1. U \in SUBSET DOMAIN base
  OBVIOUS
<1>2. Less(base, gone, i) = [u \in U |-> base[u]]
  BY DEF Less
<1> HIDE DEF U
<1>3. QED
  BY <1>1, <1>2, PartContents DEF U

\* One more goes.
LEMMA LessStep ==
  ASSUME NEW base \in Contents, NEW gone \in SUBSET Uids, NEW i \in 1..MaxUid
  PROVE  Runs(Less(base, gone, i - 1),
              IF i \in Vanished(base, gone) THEN <<Removed(i)>> ELSE <<>>, Less(base, gone, i))
<1> DEFINE c == Less(base, gone, i - 1)
           d == Less(base, gone, i)
<1>1. MaxUid \in Nat /\ i \in Uids /\ i - 1 \in 0..MaxUid /\ i \in 0..MaxUid
  BY MaxUidAssumption DEF Uids
<1>2. /\ c \in Contents /\ d \in Contents
      /\ DOMAIN c = DOMAIN base \ {v \in gone : v <= i - 1}
      /\ DOMAIN d = DOMAIN base \ {v \in gone : v <= i}
      /\ \A u \in DOMAIN c : c[u] = base[u]
      /\ \A u \in DOMAIN d : d[u] = base[u]
  BY <1>1, LessFields
<1> HIDE DEF c, d
<1>3. {v \in gone : v <= i} = {v \in gone : v <= i - 1} \cup (gone \cap {i})
  <2>1. \A u \in Uids : u <= i <=> u <= i - 1 \/ u = i
    BY <1>1 DEF Uids
  <2>2. QED
    BY <2>1
<1>4. i \notin {v \in gone : v <= i - 1}
  BY <1>1
<1>5. CASE i \in Vanished(base, gone)
  <2>1. i \in DOMAIN c /\ DOMAIN d = DOMAIN c \ {i}
    BY <1>2, <1>3, <1>4, <1>5 DEF Vanished
  <2>2. Removed(i) \in Event
    BY <1>1 DEF Removed, Event
  <2>3. Fits(c, Removed(i))
    BY <2>1 DEF Fits, Removed
  <2>4. Apply(c, Removed(i)) = [u \in DOMAIN c \ {i} |-> c[u]]
    BY DEF Apply, Removed
  <2>5. Apply(c, Removed(i)) = d
    <3>1. [u \in DOMAIN c \ {i} |-> c[u]] \in Contents
      BY <1>2, PartContents
    <3>2. QED
      BY <1>2, <2>1, <2>4, <3>1, ContentsEqual
  <2>6. QED
    BY <1>2, <1>5, <2>2, <2>3, <2>5, RunsOne DEF c, d
<1>6. CASE i \notin Vanished(base, gone)
  <2>1. DOMAIN c = DOMAIN d
    BY <1>2, <1>3, <1>6 DEF Vanished
  <2>2. c = d
    BY <1>2, <2>1, ContentsEqual
  <2>3. QED
    BY <1>2, <1>6, <2>2, RunsNone DEF c, d
<1>7. QED
  BY <1>5, <1>6

\* The contents `base` without `gone`, and with those of `items` up to UID i.
More(base, gone, items, i) ==
  [u \in (DOMAIN base \ gone) \cup (DOMAIN items \cap 1..i) |->
     IF u \in DOMAIN items \cap 1..i THEN items[u] ELSE base[u]]

\* Their fields, with a name.
MoreLike(base, gone, items, i) ==
  /\ More(base, gone, items, i) \in Contents
  /\ \A u : u \in DOMAIN More(base, gone, items, i)
            <=> u \in DOMAIN base \ gone \/ u \in DOMAIN items \cap 1..i
  /\ \A u \in DOMAIN More(base, gone, items, i) :
       More(base, gone, items, i)[u] = IF u \in DOMAIN items \cap 1..i THEN items[u] ELSE base[u]

\* They are contents, with what is left and what came so far.
LEMMA MoreBy ==
  ASSUME NEW base \in Contents, NEW gone \in SUBSET Uids, NEW items \in Contents,
         NEW i \in 0..MaxUid
  PROVE  MoreLike(base, gone, items, i)
<1> DEFINE U == (DOMAIN base \ gone) \cup (DOMAIN items \cap 1..i)
           f(u) == IF u \in DOMAIN items \cap 1..i THEN items[u] ELSE base[u]
<1>1. U \in SUBSET Uids /\ \A u \in U : f(u) \in SUBSET Flags
  BY ContentsElim
<1>2. More(base, gone, items, i) = [u \in U |-> f(u)]
  BY DEF More
<1> HIDE DEF U, f
<1>3. [u \in U |-> f(u)] \in Contents
  BY <1>1 DEF Contents
<1>4. QED
  BY <1>2, <1>3 DEF U, f, MoreLike

\* What a resync says of UID u.
Insertion(base, gone, items, u) ==
  CASE u \notin DOMAIN items -> <<>>
    [] u \in DOMAIN items \cap (DOMAIN base \ gone) -> FlagDeltas(u, base[u], items[u])
    [] OTHER -> <<Added(u, items[u])>>

\* One more comes, or changes its flags.
LEMMA MoreStep ==
  ASSUME NEW base \in Contents, NEW gone \in SUBSET Uids, NEW items \in Contents,
         NEW i \in 1..MaxUid
  PROVE  /\ Insertion(base, gone, items, i) \in Seq(Event)
         /\ Runs(More(base, gone, items, i - 1), Insertion(base, gone, items, i), More(base, gone, items, i))
<1> DEFINE j == i - 1
           c == More(base, gone, items, j)
           d == More(base, gone, items, i)
           left == DOMAIN base \ gone
<1>1. MaxUid \in Nat /\ i \in Uids /\ j \in 0..MaxUid /\ i \in 0..MaxUid
  BY MaxUidAssumption DEF Uids
<1>2. 1..i = 1..j \cup {i} /\ i \notin 1..j
  BY <1>1
<1> HIDE DEF j
<1>12. MoreLike(base, gone, items, j) /\ MoreLike(base, gone, items, i)
  BY <1>1, MoreBy
<1>3. /\ c \in Contents /\ d \in Contents
      /\ \A u : u \in DOMAIN c <=> u \in left \/ u \in DOMAIN items \cap 1..j
      /\ \A u : u \in DOMAIN d <=> u \in left \/ u \in DOMAIN items \cap 1..i
      /\ \A u \in DOMAIN c : c[u] = IF u \in DOMAIN items \cap 1..j THEN items[u] ELSE base[u]
      /\ \A u \in DOMAIN d : d[u] = IF u \in DOMAIN items \cap 1..i THEN items[u] ELSE base[u]
  BY <1>12 DEF MoreLike
<1> HIDE DEF c, d
<1>4. /\ DOMAIN items \subseteq Uids /\ \A u \in DOMAIN items : items[u] \in SUBSET Flags
      /\ DOMAIN base \subseteq Uids
  BY ContentsElim
<1>5. \A u : u \in DOMAIN d <=> u \in DOMAIN c \/ (u = i /\ i \in DOMAIN items)
  BY <1>2, <1>3
<1>6. \A u \in DOMAIN c : u # i => u \in DOMAIN d /\ d[u] = c[u]
  BY <1>2, <1>3, <1>5
<1>8. CASE i \notin DOMAIN items
  <2>1. Insertion(base, gone, items, i) = <<>>
    BY <1>8 DEF Insertion
  <2>2. DOMAIN c = DOMAIN d
    BY <1>3, <1>5, <1>8
  <2>3. i \in DOMAIN c => c[i] = d[i]
    BY <1>3, <1>8, <2>2
  <2>4. c = d
    BY <1>3, <1>6, <2>2, <2>3, ContentsEqual
  <2>5. QED
    BY <1>3, <2>1, <2>4, RunsNone DEF c, d, j
<1>9. CASE i \in DOMAIN items /\ i \in left
  <2>1. Insertion(base, gone, items, i) = FlagDeltas(i, base[i], items[i])
    BY <1>9 DEF Insertion
  <2>2. i \in DOMAIN c /\ c[i] = base[i]
    BY <1>3, <1>2, <1>9
  <2>3. DOMAIN c = DOMAIN d /\ d[i] = items[i]
    BY <1>3, <1>2, <1>5, <1>9
  <2> DEFINE e == [c EXCEPT ![i] = items[i]]
  <2>4. FlagDeltas(i, c[i], items[i]) \in Seq(Event) /\ e \in Contents
        /\ Runs(c, FlagDeltas(i, c[i], items[i]), e)
    BY <1>3, <1>4, <1>9, <2>2, FlagDeltasRun
  <2>5. e = d
    <3>1. DOMAIN e = DOMAIN c /\ e[i] = items[i] /\ \A u \in DOMAIN c : u # i => e[u] = c[u]
      BY <2>2
    <3> HIDE DEF e
    <3>2. QED
      BY <1>3, <1>6, <2>3, <2>4, <3>1, ContentsEqual
  <2>6. QED
    BY <2>1, <2>2, <2>4, <2>5 DEF c, d, j
<1>10. CASE i \in DOMAIN items /\ i \notin left
  <2>1. Insertion(base, gone, items, i) = <<Added(i, items[i])>>
    BY <1>10 DEF Insertion
  <2>2. i \notin DOMAIN c /\ DOMAIN d = DOMAIN c \cup {i} /\ d[i] = items[i]
    BY <1>3, <1>2, <1>5, <1>10
  <2>3. Added(i, items[i]) \in Event
    BY <1>1, <1>4, <1>10 DEF Added, Event
  <2>4. Fits(c, Added(i, items[i]))
    BY <2>2 DEF Fits, Added
  <2> DEFINE e == [u \in DOMAIN c \cup {i} |-> IF u = i THEN items[i] ELSE c[u]]
  <2>5. Apply(c, Added(i, items[i])) = e
    BY DEF Apply, Added
  <2>6. e = d
    <3>1. d = [u \in DOMAIN c \cup {i} |-> d[u]]
      BY <1>3, <2>2, ContentsElim
    <3>2. \A u \in DOMAIN c \cup {i} : d[u] = IF u = i THEN items[i] ELSE c[u]
      BY <1>6, <2>2
    <3>3. QED
      BY <3>1, <3>2, Zenon
  <2>7. QED
    BY <1>3, <2>1, <2>3, <2>4, <2>5, <2>6, RunsOne DEF c, d, j
<1>11. QED
  BY <1>8, <1>9, <1>10

\* The deltas run from any contents to the same, patched.
LEMMA DeltasRun ==
  ASSUME NEW base \in Contents, NEW gone \in SUBSET Uids, NEW items \in Contents
  PROVE  /\ Deltas(base, gone, items) \in Seq(Event)
         /\ Runs(base, Deltas(base, gone, items), Patched(base, gone, items))
<1> DEFINE Goes1(u) == IF u \in Vanished(base, gone) THEN <<Removed(u)>> ELSE <<>>
           first == [u \in 1..MaxUid |-> Goes1(u)]
           second == [u \in 1..MaxUid |-> Insertion(base, gone, items, u)]
           less == [i \in 0..MaxUid |-> Less(base, gone, i)]
           more == [i \in 0..MaxUid |-> More(base, gone, items, i)]
<1>1. MaxUid \in Nat /\ 0 \in 0..MaxUid /\ MaxUid \in 0..MaxUid
  BY MaxUidAssumption
<1>2. first \in [1..MaxUid -> Seq(Event)]
  <2>1. ASSUME NEW u \in 1..MaxUid
        PROVE  Goes1(u) \in Seq(Event)
    <3>1. Removed(u) \in Event
      BY DEF Removed, Event, Uids
    <3>2. QED
      BY <3>1
  <2> HIDE DEF Goes1
  <2>2. QED
    BY <2>1
<1>3. second \in [1..MaxUid -> Seq(Event)]
  <2>1. \A u \in 1..MaxUid : Insertion(base, gone, items, u) \in Seq(Event)
    BY MoreStep
  <2>2. QED
    BY <2>1
<1>4. less \in [0..MaxUid -> Contents]
  BY LessFields
<1>5. more \in [0..MaxUid -> Contents]
  BY MoreBy DEF MoreLike
<1>6. \A i \in 1..MaxUid : Runs(less[i - 1], first[i], less[i])
  <2>1. ASSUME NEW i \in 1..MaxUid
        PROVE  Runs(less[i - 1], first[i], less[i])
    <3>1. less[i - 1] = Less(base, gone, i - 1) /\ less[i] = Less(base, gone, i) /\ first[i] = Goes1(i)
      BY <1>1
    <3>2. Runs(Less(base, gone, i - 1), Goes1(i), Less(base, gone, i))
      BY LessStep
    <3> HIDE DEF less, first, Goes1
    <3>3. QED
      BY <3>1, <3>2
  <2>2. QED
    BY <2>1
<1>7. \A i \in 1..MaxUid : Runs(more[i - 1], second[i], more[i])
  <2>1. ASSUME NEW i \in 1..MaxUid
        PROVE  Runs(more[i - 1], second[i], more[i])
    <3>1. /\ more[i - 1] = More(base, gone, items, i - 1) /\ more[i] = More(base, gone, items, i)
          /\ second[i] = Insertion(base, gone, items, i)
      BY <1>1
    <3>2. Runs(More(base, gone, items, i - 1), Insertion(base, gone, items, i), More(base, gone, items, i))
      BY MoreStep
    <3> HIDE DEF more, second
    <3>3. QED
      BY <3>1, <3>2
  <2>2. QED
    BY <2>1
<1>8. less[0] = base
  <2>1. /\ Less(base, gone, 0) \in Contents
        /\ DOMAIN Less(base, gone, 0) = DOMAIN base \ {v \in gone : v <= 0}
        /\ \A u \in DOMAIN Less(base, gone, 0) : Less(base, gone, 0)[u] = base[u]
    BY <1>1, LessFields
  <2>2. {v \in gone : v <= 0} = {}
    <3>1. \A v \in Uids : ~(v <= 0)
      BY <1>1 DEF Uids
    <3>2. QED
      BY <3>1
  <2>3. Less(base, gone, 0) = base
    BY <2>1, <2>2, ContentsEqual
  <2>4. QED
    BY <1>1, <2>3
<1>9. less[MaxUid] = more[0]
  <2>1. /\ Less(base, gone, MaxUid) \in Contents
        /\ DOMAIN Less(base, gone, MaxUid) = DOMAIN base \ {v \in gone : v <= MaxUid}
        /\ \A u \in DOMAIN Less(base, gone, MaxUid) : Less(base, gone, MaxUid)[u] = base[u]
    BY <1>1, LessFields
  <2>2. {v \in gone : v <= MaxUid} = gone
    <3>1. \A v \in Uids : v <= MaxUid
      BY <1>1 DEF Uids
    <3>2. QED
      BY <3>1
  <2>8. MoreLike(base, gone, items, 0)
    BY <1>1, MoreBy
  <2>3. /\ More(base, gone, items, 0) \in Contents
        /\ \A u : u \in DOMAIN More(base, gone, items, 0)
                  <=> u \in DOMAIN base \ gone \/ u \in DOMAIN items \cap 1..0
        /\ \A u \in DOMAIN More(base, gone, items, 0) :
             More(base, gone, items, 0)[u] = IF u \in DOMAIN items \cap 1..0 THEN items[u] ELSE base[u]
    BY <2>8 DEF MoreLike
  <2>4. 1..0 = {}
    OBVIOUS
  <2>5. DOMAIN Less(base, gone, MaxUid) = DOMAIN More(base, gone, items, 0)
    BY <2>1, <2>2, <2>3, <2>4
  <2>6. Less(base, gone, MaxUid) = More(base, gone, items, 0)
    BY <2>1, <2>3, <2>4, <2>5, ContentsEqual
  <2>7. QED
    BY <1>1, <2>6
<1>10. more[MaxUid] = Patched(base, gone, items)
  <2>7. MoreLike(base, gone, items, MaxUid)
    BY <1>1, MoreBy
  <2>1. /\ More(base, gone, items, MaxUid) \in Contents
        /\ \A u : u \in DOMAIN More(base, gone, items, MaxUid)
                  <=> u \in DOMAIN base \ gone \/ u \in DOMAIN items \cap 1..MaxUid
        /\ \A u \in DOMAIN More(base, gone, items, MaxUid) :
             More(base, gone, items, MaxUid)[u] =
               IF u \in DOMAIN items \cap 1..MaxUid THEN items[u] ELSE base[u]
    BY <2>7 DEF MoreLike
  <2>2. DOMAIN items \cap 1..MaxUid = DOMAIN items
    BY ContentsElim DEF Uids
  <2>3. /\ Patched(base, gone, items) \in Contents
        /\ DOMAIN Patched(base, gone, items) = (DOMAIN base \ gone) \cup DOMAIN items
        /\ \A u \in DOMAIN Patched(base, gone, items) :
             Patched(base, gone, items)[u] = IF u \in DOMAIN items THEN items[u] ELSE base[u]
    BY PatchedFields
  <2>4. DOMAIN More(base, gone, items, MaxUid) = DOMAIN Patched(base, gone, items)
    BY <2>1, <2>2, <2>3
  <2>5. More(base, gone, items, MaxUid) = Patched(base, gone, items)
    BY <2>1, <2>2, <2>3, <2>4, ContentsEqual
  <2>6. QED
    BY <1>1, <2>5
<1>11. Deltas(base, gone, items) = FlattenSeq(first) \o FlattenSeq(second)
  BY DEF Deltas, Insertion, Uids
<1> HIDE DEF first, second, less, more
<1>12. FlattenSeq(first) \in Seq(Event) /\ Runs(base, FlattenSeq(first), more[0])
  BY <1>1, <1>2, <1>4, <1>6, <1>8, <1>9, RunsFlatten
<1>13. FlattenSeq(second) \in Seq(Event) /\ Runs(more[0], FlattenSeq(second), Patched(base, gone, items))
  BY <1>1, <1>3, <1>5, <1>7, <1>10, RunsFlatten
<1>14. QED
  BY <1>11, <1>12, <1>13, RunsConcat, ConcatProperties

-----------------------------------------------------------------------------
(* The steps.                                                              *)

\* No event comes or goes.
Silent ==
  /\ UNCHANGED <<pending, replica, shadow>>
  /\ Baselined' => Baselined
  /\ st' \notin {"EmitDeltas", "Terminal"} => st \notin {"EmitDeltas", "Terminal"} \/ pending = <<>>

LEMMA SilentStep == ASSUME Pending, Silent PROVE Pending'
BY DEF Pending, Silent

\* The watch's own steps.
LEMMA WatchRanged ==
  ASSUME EInv, Resume \/ ExchangeFails \/ IdleFails
  PROVE  Ranged' \/ ExamineQresyncReplied \/ FetchResyncReplied \/ FetchBaselineReplied
         \/ EmitDeltas
<1> USE DEF Ranged, External, watchVars, idleVars, ghostVars, srvVars, sesVars, optVars
<1>0. Ranged
  BY DEF EInv
<1>1. CASE SendCommand
  BY <1>0, <1>1 DEF SendCommand
<1>2. CASE EnableReplied
  BY <1>0, <1>2 DEF EnableReplied, Replied, Goto, Done
<1>3. CASE ExamineInitialReplied
  BY <1>0, <1>3 DEF ExamineInitialReplied, Replied, Goto, Finish, Done
<1>4. CASE BeginIdle
  BY <1>0, <1>4 DEF BeginIdle, Goto, Finish
<1>5. CASE Waiting
  BY <1>0, <1>5 DEF Waiting, Resync, Goto, Finish, Done
<1>6. CASE IdleStarted
  <2>1. reply.notice \in BOOLEAN
    BY DEF EInv, SInv, KInv, Typed
  <2>2. QED
    BY <1>0, <1>6, <2>1 DEF IdleStarted, Done
<1>7. CASE IdleRead
  BY <1>0, <1>7 DEF IdleRead
<1>8. CASE IdleWindDown
  BY <1>0, <1>8 DEF IdleWindDown, Done
<1>9. CASE IdleEnded
  BY <1>0, <1>9 DEF IdleEnded, Resync, Goto, Finish, Done
<1>10. CASE ExamineResyncReplied
  BY <1>0, <1>10 DEF ExamineResyncReplied, Replied, Goto, Finish, Done
<1>11. CASE ExchangeFails \/ IdleFails
  BY <1>0, <1>11 DEF ExchangeFails, IdleFails, Broken, Finish
<1>12. QED
  BY <1>1, <1>2, <1>3, <1>4, <1>5, <1>6, <1>7, <1>8, <1>9, <1>10, <1>11 DEF Resume

LEMMA WatchSilent ==
  ASSUME EInv, Resume \/ ExchangeFails \/ IdleFails
  PROVE  Silent \/ ExamineQresyncReplied \/ FetchResyncReplied \/ FetchBaselineReplied
         \/ EmitDeltas
<1> USE DEF Silent, Baselined, External, watchVars, ghostVars
<1>1. CASE SendCommand
  BY <1>1 DEF SendCommand
<1>2. CASE EnableReplied
  BY <1>2 DEF EnableReplied, Replied, Goto
<1>3. CASE ExamineInitialReplied
  BY <1>3 DEF ExamineInitialReplied, Replied, Goto, Finish
<1>4. CASE BeginIdle
  BY <1>4 DEF BeginIdle, Goto, Finish
<1>5. CASE Waiting
  BY <1>5 DEF Waiting, Resync, Goto, Finish
<1>6. CASE IdleStarted
  BY <1>6 DEF IdleStarted
<1>7. CASE IdleRead
  BY <1>7 DEF IdleRead
<1>8. CASE IdleWindDown
  BY <1>8 DEF IdleWindDown
<1>9. CASE IdleEnded
  BY <1>9 DEF IdleEnded, Resync, Goto, Finish
<1>10. CASE ExamineResyncReplied
  BY <1>10 DEF ExamineResyncReplied, Replied, Goto, Finish
<1>11. CASE ExchangeFails \/ IdleFails
  BY <1>11 DEF ExchangeFails, IdleFails, Broken, Finish
<1>12. QED
  BY <1>1, <1>2, <1>3, <1>4, <1>5, <1>6, <1>7, <1>8, <1>9, <1>10, <1>11 DEF Resume

\* The consumer starts from the baseline, which is the shadow.
LEMMA BaselineEvents ==
  ASSUME EInv, FetchBaselineReplied
  PROVE  Ranged' /\ Pending'
<1>1. /\ st = "FetchBaseline" /\ st' = "BeginIdle" /\ UNCHANGED outcome
      /\ shadow' = reply.items /\ replica' = reply.items /\ UNCHANGED pending
      /\ idleDone' = Done
      /\ UNCHANGED <<poll, eager, sawData, shutdown, unread, idle, timer, nextUid, changes, elapsed>>
  BY DEF FetchBaselineReplied, Replied, Goto, External, idleVars, srvVars, sesVars, optVars
<1>2. reply.items \in Contents
  BY DEF EInv, SInv, KInv, Typed
<1>3. pending = <<>>
  BY <1>1 DEF EInv, Pending
<1>4. Ranged'
  BY <1>1, <1>2 DEF EInv, Ranged, Done
<1>5. Runs(replica', pending', shadow')
  BY <1>1, <1>2, <1>3, RunsNone
<1>6. QED
  BY <1>1, <1>3, <1>4, <1>5 DEF Pending

\* The deltas of a resync go after the events pending.
LEMMA DeltasEvents ==
  ASSUME EInv, NEW events \in Seq(Event), st' = "EmitDeltas", Baselined, shadow' \in Contents,
         pending' = pending \o events, Runs(shadow, events, shadow'), UNCHANGED replica
  PROVE  pending' \in Seq(Event) /\ Pending'
<1>1. shadow \in Contents /\ pending \in Seq(Event) /\ replica \in Contents
  BY DEF EInv, SInv, KInv, Typed, Ranged
<1>3. Runs(replica, pending, shadow)
  BY DEF EInv, Pending
<1>4. pending' \in Seq(Event)
  BY <1>1, ConcatProperties
<1>5. Runs(replica, pending', shadow')
  BY <1>1, <1>3, RunsConcat
<1>6. pending' # <<>> => Fits(replica, Head(pending'))
  BY <1>4, <1>5, RunsHead
<1>7. QED
  BY <1>4, <1>5, <1>6 DEF Pending

\* The events of the answer, then those of what was announced after it.
LEMMA QresyncEvents ==
  ASSUME EInv, ExamineQresyncReplied
  PROVE  Ranged' /\ Pending'
<1>1. /\ st = "ExamineQresync" /\ idleDone' = Done /\ UNCHANGED replica
      /\ UNCHANGED <<poll, eager, sawData, shutdown, unread, idle, timer, nextUid, changes, elapsed>>
  BY DEF ExamineQresyncReplied, Replied, External, idleVars, ghostVars, srvVars, sesVars, optVars
<1>2. \/ st' = "Terminal" /\ outcome' = "Err" /\ UNCHANGED <<pending, shadow>>
      \/ /\ st' = "EmitDeltas" /\ UNCHANGED outcome
         /\ pending' = pending \o (Deltas(shadow, reply.vanished, reply.items)
                                  \o Deltas(Resynced, {}, reply.later))
         /\ shadow' = Patched(Resynced, {}, reply.later)
  BY DEF ExamineQresyncReplied, Finish, Goto, Resynced
<1>3. /\ reply.vanished \in SUBSET Uids /\ reply.items \in Contents
      /\ reply.later \in Contents /\ shadow \in Contents /\ {} \in SUBSET Uids
  BY DEF EInv, SInv, KInv, Typed
<1>4. CASE st' = "Terminal"
  <2>1. Silent
    BY <1>1, <1>2, <1>4 DEF Silent, Baselined
  <2>2. QED
    BY <1>1, <1>2, <1>4, <2>1, SilentStep DEF EInv, Ranged, Done
<1>5. CASE st' # "Terminal"
  <2> DEFINE first == Deltas(shadow, reply.vanished, reply.items)
             second == Deltas(Resynced, {}, reply.later)
  <2>3. Resynced \in Contents
    BY <1>3, PatchedFields DEF Resynced
  <2>9. PatchedLike(Resynced, {}, reply.later)
    BY <1>3, <2>3, PatchedBy
  <2>8. shadow' \in Contents
    BY <1>2, <1>5, <2>9 DEF PatchedLike
  <2>4. first \in Seq(Event) /\ Runs(shadow, first, Resynced)
    BY <1>3, DeltasRun DEF Resynced
  <2>5. second \in Seq(Event) /\ Runs(Resynced, second, shadow')
    BY <1>2, <1>3, <1>5, <2>3, DeltasRun
  <2>6. pending' = pending \o (first \o second)
    BY <1>2, <1>5
  <2> HIDE DEF first, second
  <2>7. first \o second \in Seq(Event) /\ Runs(shadow, first \o second, shadow')
    BY <1>3, <2>3, <2>4, <2>5, <2>8, RunsConcat, ConcatProperties
  <2>1. pending' \in Seq(Event) /\ Pending'
    BY <1>1, <1>2, <1>5, <2>6, <2>7, <2>8, DeltasEvents DEF Baselined
  <2>2. QED
    BY <1>1, <1>2, <1>5, <2>1 DEF EInv, Ranged, Done
<1>6. QED
  BY <1>4, <1>5

LEMMA SnapshotEvents ==
  ASSUME EInv, FetchResyncReplied
  PROVE  Ranged' /\ Pending'
<1> DEFINE gone == DOMAIN shadow \ DOMAIN reply.items
<1>1. /\ st = "FetchResync" /\ idleDone' = Done /\ UNCHANGED replica
      /\ UNCHANGED <<poll, eager, sawData, shutdown, unread, idle, timer, nextUid, changes, elapsed>>
      /\ st' = "EmitDeltas" /\ UNCHANGED outcome
      /\ pending' = pending \o Deltas(shadow, gone, reply.items)
      /\ shadow' = Patched(shadow, gone, reply.items)
  BY DEF FetchResyncReplied, Replied, Goto, External, idleVars, ghostVars, srvVars, sesVars, optVars
<1>2. shadow \in Contents /\ reply.items \in Contents
  BY DEF EInv, SInv, KInv, Typed
<1>3. gone \in SUBSET Uids
  BY <1>2, ContentsElim
<1> HIDE DEF gone
<1>6. /\ Deltas(shadow, gone, reply.items) \in Seq(Event) /\ shadow' \in Contents
      /\ Runs(shadow, Deltas(shadow, gone, reply.items), shadow')
  BY <1>1, <1>2, <1>3, DeltasRun, PatchedFields
<1>4. pending' \in Seq(Event) /\ Pending'
  BY <1>1, <1>6, DeltasEvents DEF Baselined
<1>5. QED
  BY <1>1, <1>4 DEF EInv, Ranged, Done

\* The consumer gets the first event pending.
LEMMA EmitEvents ==
  ASSUME EInv, EmitDeltas
  PROVE  Ranged' /\ Pending'
<1>1. /\ st = "EmitDeltas" /\ idleDone' = Done /\ UNCHANGED shadow
      /\ UNCHANGED <<poll, eager, sawData, shutdown, unread, idle, timer, nextUid, changes, elapsed>>
  BY DEF EmitDeltas, External, idleVars, srvVars, sesVars, optVars
<1>2. CASE pending = <<>>
  <2>1. st' = "BeginIdle" /\ UNCHANGED <<pending, replica, outcome>>
    BY <1>2 DEF EmitDeltas, Goto
  <2>2. Silent
    BY <1>1, <1>2, <2>1 DEF Silent, Baselined
  <2>3. QED
    BY <1>1, <2>1, <2>2, SilentStep DEF EInv, Ranged, Done
<1>3. CASE pending # <<>>
  <2>1. /\ pending' = Tail(pending) /\ replica' = Apply(replica, Head(pending))
        /\ UNCHANGED <<st, outcome>>
    BY <1>3 DEF EmitDeltas
  <2>2. pending \in Seq(Event) /\ Runs(replica, pending, shadow)
    BY <1>1 DEF EInv, Ranged, Pending, Baselined
  <2>3. replica' \in Contents /\ Runs(replica', pending', shadow')
    BY <1>1, <1>3, <2>1, <2>2, RunsHead
  <2>4. pending' \in Seq(Event)
    BY <1>3, <2>1, <2>2, HeadTailProperties
  <2>5. pending' # <<>> => Fits(replica', Head(pending'))
    BY <2>3, <2>4, RunsHead
  <2>6. Pending'
    BY <1>1, <2>1, <2>3, <2>5 DEF Pending
  <2>7. QED
    BY <1>1, <2>1, <2>3, <2>4, <2>6 DEF EInv, Ranged, Done
<1>4. QED
  BY <1>2, <1>3

\* The server, the other clients and the timer.
LEMMA OutsideStep ==
  ASSUME EInv, Answer \/ Announce \/ KeepAlive \/ Others \/ Elapse \/ Shutdown
  PROVE  Ranged' /\ Silent
<1> USE DEF Silent, Baselined, Ranged, SameClient, watchVars, idleVars, cmdVars, ghostVars,
            srvVars, sesVars, optVars
<1>0. Ranged
  BY DEF EInv
<1>1. CASE Answer
  <2>1. CASE ServeEnable \/ ServeIdle \/ ServeDone
    BY <1>0, <2>1 DEF ServeEnable, ServeIdle, ServeDone
  <2>2. CASE ServeExamine
    BY <1>0, <2>2 DEF ServeExamine
  <2>3. CASE ServeFetch
    BY <1>0, <2>3 DEF ServeFetch
  <2>4. ASSUME NEW announce \in BOOLEAN, FinishCommand(announce)
        PROVE  Ranged' /\ Silent
    BY <1>0, <2>4 DEF FinishCommand
  <2>5. QED
    BY <1>1, <2>1, <2>2, <2>3, <2>4 DEF Answer
<1>2. CASE Announce
  BY <1>0, <1>2 DEF Announce
<1>3. CASE KeepAlive
  BY <1>0, <1>3 DEF KeepAlive
<1>4. CASE Others
  <2>1. ASSUME NEW u, Stamp(u), nextUid' \in 1..(MaxUid + 1)
        PROVE  Ranged' /\ Silent
    BY <1>0, <2>1, MaxChangesAssumption DEF Stamp
  <2>2. CASE Deliver
    <3>1. nextUid' \in 1..(MaxUid + 1)
      BY <2>2, MaxUidAssumption DEF Deliver, Uids
    <3>2. QED
      BY <2>1, <2>2, <3>1 DEF Deliver
  <2>3. ASSUME NEW u \in Uids, Expunge(u)
        PROVE  Ranged' /\ Silent
    BY <1>0, <2>1, <2>3 DEF Expunge
  <2>4. ASSUME NEW u \in Uids, NEW fs \in SUBSET Flags, StoreFlags(u, fs)
        PROVE  Ranged' /\ Silent
    BY <1>0, <2>1, <2>4 DEF StoreFlags
  <2>5. CASE Recreate
    BY <1>0, <2>5, MaxUidAssumption, MaxChangesAssumption DEF Recreate
  <2>6. QED
    BY <1>4, <2>2, <2>3, <2>4, <2>5 DEF Others
<1>5. CASE Elapse
  BY <1>0, <1>5, MaxChangesAssumption DEF Elapse
<1>6. CASE Shutdown
  BY <1>0, <1>6 DEF Shutdown
<1>7. QED
  BY <1>1, <1>2, <1>3, <1>4, <1>5, <1>6

-----------------------------------------------------------------------------
(* The theorems.                                                           *)

LEMMA InitEvents == Init => EInv
<1> SUFFICES ASSUME Init
             PROVE  EInv
  OBVIOUS
<1>1. SInv
  BY InitInv
<1>2. nextUid \in 1..(MaxUid + 1)
  <2>1. PICK U \in {{}, {1} \cap Uids} : mailbox = [u \in U |-> {}]
    BY DEF Init
  <2>2. DOMAIN mailbox = U /\ (U = {} \/ (U = {1} /\ MaxUid >= 1))
    BY <2>1, MaxUidAssumption DEF Uids
  <2>3. Cardinality({}) = 0 /\ Cardinality({1}) = 1
    BY FS_EmptySet, FS_Singleton
  <2>4. nextUid = Cardinality(DOMAIN mailbox) + 1
    BY DEF Init
  <2>5. nextUid = 1 \/ (nextUid = 2 /\ MaxUid >= 1)
    BY <2>2, <2>3, <2>4
  <2>6. QED
    BY <2>5, MaxUidAssumption
<1>3. Ranged
  <2>1. /\ poll \in BOOLEAN /\ eager \in Eager /\ pending = <<>> /\ replica = Empty
        /\ idleDone = FALSE /\ sawData = FALSE /\ shutdown = FALSE /\ unread = FALSE
        /\ outcome = "none" /\ st # "Terminal" /\ idle = "Idle" /\ timer = "unset"
        /\ changes = 0 /\ elapsed = 0
    BY DEF Init
  <2>2. <<>> \in Seq(Event) /\ Empty \in Contents
    BY EmptyContents
  <2>3. 0 \in 0..MaxChanges /\ 0 \in 0..MaxElapsed
    BY MaxChangesAssumption
  <2>4. QED
    BY <1>2, <2>1, <2>2, <2>3 DEF Ranged
<1>4. Pending
  BY DEF Init, Pending, Baselined
<1>5. QED
  BY <1>1, <1>3, <1>4 DEF EInv

LEMMA StepEvents == EInv /\ [Next]_vars => EInv'
<1> SUFFICES ASSUME EInv, [Next]_vars
             PROVE  EInv'
  OBVIOUS
<1>1. SInv'
  BY StepInv DEF EInv
<1>2. CASE Resume \/ ExchangeFails \/ IdleFails
  <2>1. Ranged' /\ Pending'
    BY <1>2, WatchRanged, WatchSilent, SilentStep, BaselineEvents, QresyncEvents, SnapshotEvents,
       EmitEvents DEF EInv
  <2>2. QED
    BY <1>1, <2>1 DEF EInv
<1>3. CASE Answer \/ Announce \/ KeepAlive \/ Others \/ Elapse \/ Shutdown
  BY <1>1, <1>3, OutsideStep, SilentStep DEF EInv
<1>4. CASE UNCHANGED vars
  <2>1. Silent /\ Ranged'
    BY <1>4 DEF EInv, Silent, Baselined, Ranged, vars, watchVars, idleVars, ghostVars, srvVars,
                sesVars, optVars
  <2>2. QED
    BY <1>1, <2>1, SilentStep DEF EInv
<1>5. QED
  BY <1>2, <1>3, <1>4 DEF Next

LEMMA EInvAlways == Spec => []EInv
BY InitEvents, StepEvents, PTL DEF Spec

(* The state of the watch, of the IDLE it nests, of the server and of the  *)
(* consumer keeps its shape, the events pending included.                  *)
THEOREM TypeCorrect == Spec => []TypeOK
<1>1. EInv => TypeOK
  BY DEF EInv, SInv, KInv, Typed, Ranged, TypeOK
<1>2. QED
  BY <1>1, EInvAlways, PTL

(* No change enters the shadow without its events, and no event goes       *)
(* without its change (watch.rs:367-466, 787-793): the consumer's copy,    *)
(* once the events pending are applied to it, is the shadow.               *)
THEOREM ReplicaFollowsShadow == Spec => []ReplicaTracksShadow
<1>1. EInv => ReplicaTracksShadow
  <2>1. ASSUME EInv, Baselined
        PROVE  Replayed(replica, pending) = shadow
    <3>1. pending \in Seq(Event) /\ Runs(replica, pending, shadow)
      BY <2>1 DEF EInv, Ranged, Pending
    <3>2. QED
      BY <3>1, RunsReplay
  <2>2. QED
    BY <2>1 DEF ReplicaTracksShadow
<1>2. QED
  BY <1>1, EInvAlways, PTL

(* Every event is news when the consumer gets it (watch.rs:139-166): a     *)
(* message is added once, and removed or re-flagged while it is known, by  *)
(* flags that really change.                                               *)
THEOREM EventsMakeSense == Spec => []EventsApplicable
<1>1. EInv => EventsApplicable
  BY DEF EInv, Pending, EventsApplicable
<1>2. QED
  BY <1>1, EInvAlways, PTL
=============================================================================
