------------------------------ MODULE ImapSend ------------------------------
(***************************************************************************)
(* ImapSend (src/send.rs) drives one command exchange: it serialises a     *)
(* command, waits for the server and collects the response.  This module   *)
(* runs a whole list of exchanges over one connection, because what goes   *)
(* wrong in one (a late completion, an unread "+") is felt by the next.    *)
(*                                                                         *)
(* One action is one pass of the loop of `resume`, together with the       *)
(* caller's answer to the yield it ends in: the coroutine and its driver   *)
(* are one thread, so only the server interleaves with them.               *)
(*                                                                         *)
(* The server and the transport are external: what they may do is what     *)
(* the client has to cope with.                                            *)
(***************************************************************************)
EXTENDS Naturals, Sequences

CONSTANTS
  Exchanges,     \* the exchanges the caller runs, in order
  MaxUntagged    \* bound: untagged data and status responses of the server

(***************************************************************************)
(* An exchange is built by `command`, `new` or `receive`.  `of` is the     *)
(* exchange that issued the command it belongs to: itself, or an earlier   *)
(* one it continues (SASL data, IDLE DONE, a streamed literal), whose tag  *)
(* it shares.                                                              *)
(***************************************************************************)
Ids == 1..Len(Exchanges)
Fragment == {"line", "nonsync", "sync"}
Exchange == [via : {"command", "new", "receive"}, of : Nat, body : Seq(Fragment)]

ASSUME ExchangesAssumption ==
  /\ Exchanges \in Seq(Exchange) /\ Exchanges # <<>>
  /\ Exchanges[1].of = 1
  /\ \A k \in Ids : LET e == Exchanges[k] IN
       /\ e.of # k => k > 1 /\ e.of = Exchanges[k - 1].of
       /\ e.of \in 1..k
       /\ e.via = "command" => e.of = k
       /\ e.via = "new" => e.of # k
ASSUME MaxUntaggedAssumption == MaxUntagged \in Nat

Body(k) == Exchanges[k].body

\* The tag an exchange is answered under: the caller never hands out a tag
\* twice, so the number of the exchange that took it stands for it.
TagOf(k) == Exchanges[k].of
Follows(k) == TagOf(k) # k

\* The server is expected to prompt for more instead of completing.
Prompts(k) == k + 1 \in Ids /\ Follows(k + 1)

Kind == {"OK", "NO"}
Tagged == [tag : Ids, kind : Kind]
Message == [type : {"data", "status"}, id : Nat]
             \cup [type : {"tagged"}, tag : Ids, kind : Kind]
             \cup [type : {"bye", "cr", "skippable", "undecodable"}]
Output == [x : Ids, tag : Ids, data : Seq(Nat), untagged : Seq(Nat),
           tagged : SUBSET Tagged, bye : BOOLEAN, cr : BOOLEAN]

VARIABLES
  x,          \* the current exchange, 0 before the first
  st,         \* State, "Idle" between exchanges, "Failed" after an error
  tag,        \* Option<Tag> as a set of at most one
  cursor,     \* fragments popped so far
  limbo,      \* limbo_literal holds the last fragment popped
  data,       \* untagged data collected
  untagged,   \* untagged status responses collected
  tagged,     \* Option<Tagged> as a set of at most one
  bye,        \* a BYE was read
  cr,         \* a continuation request was read
  done,
  outs        \* the outputs returned, one per exchange that ended well

VARIABLES
  buf,        \* complete messages in the fragmentizer
  partial,    \* the fragmentizer also holds the start of Head(wire)
  written,    \* per exchange: fragments written to the socket
  wire,       \* responses sent by the server and not yet read
  closed      \* the server closed the connection

VARIABLES
  srvX,       \* the exchange the server is receiving
  srvGot,     \* its fragments received
  srvSt,      \* "ready", "literal": owes a "+", "complete": owes an answer
  refused,    \* commands refused half-way: the rest of them is discarded
  granted,    \* per exchange: literals a "+" was sent for
  verdict,    \* per tag: the statuses sent
  nextId,     \* the number of the next untagged response
  garbled,    \* an undecodable line was sent (bound: one)
  dropped     \* history: untagged responses of abandoned exchanges

sendVars == <<x, st, tag, cursor, limbo, data, untagged, tagged, bye, cr, done, outs>>
netVars == <<buf, partial, written, wire, closed>>
srvVars == <<srvX, srvGot, srvSt, refused, granted, verdict, nextId, garbled, dropped>>
vars == <<sendVars, netVars, srvVars>>

TypeOK ==
  /\ x \in 0..Len(Exchanges)
  /\ st \in {"Idle", "Tag", "Serialize", "Read", "Deserialize", "Failed"}
  /\ st \notin {"Idle", "Failed"} => x \in Ids
  /\ tag \subseteq Ids
  /\ cursor \in Nat /\ (x # 0 => cursor <= Len(Body(x)))
  /\ limbo \in BOOLEAN
  /\ data \in Seq(Nat)
  /\ untagged \in Seq(Nat)
  /\ tagged \subseteq Tagged
  /\ bye \in BOOLEAN /\ cr \in BOOLEAN /\ done \in BOOLEAN
  /\ outs \in Seq(Output)
  /\ buf \in Seq(Message)
  /\ partial \in BOOLEAN
  /\ written \in [Ids -> Nat] /\ \A k \in Ids : written[k] <= Len(Body(k))
  /\ wire \in Seq(Message)
  /\ closed \in BOOLEAN
  /\ srvX \in Ids
  /\ srvGot \in Nat
  /\ srvSt \in {"ready", "literal", "complete"}
  /\ refused \subseteq Ids
  /\ granted \in [Ids -> SUBSET Nat]
  /\ verdict \in [Ids -> SUBSET Kind]
  /\ nextId \in Nat
  /\ garbled \in BOOLEAN
  /\ dropped \subseteq Nat

Init ==
  /\ x = 0 /\ st = "Idle" /\ tag = {} /\ cursor = 0 /\ limbo = FALSE
  /\ data = <<>> /\ untagged = <<>> /\ tagged = {}
  /\ bye = FALSE /\ cr = FALSE /\ done = FALSE /\ outs = <<>>
  /\ buf = <<>> /\ partial = FALSE /\ wire = <<>> /\ closed = FALSE
  /\ written = [k \in Ids |-> 0]
  /\ srvX = 1 /\ srvGot = 0 /\ srvSt = "ready" /\ refused = {}
  /\ granted = [k \in Ids |-> {}]
  /\ verdict = [k \in Ids |-> {}]
  /\ nextId = 1 /\ garbled = FALSE /\ dropped = {}

-----------------------------------------------------------------------------
(* The constructors, called by the next exchange of the caller.            *)

\* The fields every constructor starts from.
Fresh(k) ==
  /\ x' = k
  /\ cursor' = 0 /\ limbo' = FALSE
  /\ data' = <<>> /\ untagged' = <<>> /\ tagged' = {}
  /\ bye' = FALSE /\ cr' = FALSE /\ done' = FALSE
  /\ UNCHANGED <<outs, buf, partial, wire, closed, srvVars>>

\* The caller continues a command only when its last exchange was paused by a
\* continuation request, under the tag that exchange returned.
Paused(k) ==
  /\ outs # <<>>
  /\ LET o == outs[Len(outs)] IN o.x = k - 1 /\ o.cr /\ o.tagged = {} /\ ~o.bye

\* The connection is given up after an error or a BYE.
Usable == st = "Idle" /\ (outs # <<>> => ~outs[Len(outs)].bye)

\* The exchange that comes after x: a continuation is skipped when the
\* command it continues was not paused.
IsNext(k) ==
  /\ Usable
  /\ k \in (x + 1)..Len(Exchanges)
  /\ \A j \in (x + 1)..(k - 1) : Follows(j)
  /\ IF Follows(k) THEN k = x + 1 /\ Paused(k) ELSE ~(Prompts(x) /\ Paused(x + 1))

StartCommand(k) ==
  /\ IsNext(k) /\ Exchanges[k].via = "command"
  /\ st' = "Tag"
  /\ tag' = {}
  /\ Fresh(k)
  /\ UNCHANGED written

StartNew(k) ==
  /\ IsNext(k) /\ Exchanges[k].via = "new"
  /\ st' = "Serialize"
  /\ tag' = {outs[Len(outs)].tag}
  /\ Fresh(k)
  /\ UNCHANGED written

\* The bytes of a `receive` exchange were written out of band.
StartReceive(k) ==
  /\ IsNext(k) /\ Exchanges[k].via = "receive"
  /\ st' = "Read"
  /\ tag' = IF Follows(k) THEN {outs[Len(outs)].tag} ELSE {k}
  /\ Fresh(k)
  /\ written' = [written EXCEPT ![k] = Len(Body(k))]

-----------------------------------------------------------------------------
(* The loop of `resume`.                                                   *)

Fail ==
  /\ st' = "Failed"
  /\ UNCHANGED <<x, tag, cursor, limbo, data, untagged, tagged, bye, cr, done, outs>>

\* WantsTag, answered with a tag.
AnswerTag ==
  /\ st = "Tag"
  /\ tag' = {x}
  /\ st' = "Serialize"
  /\ UNCHANGED <<x, cursor, limbo, data, untagged, tagged, bye, cr, done, outs,
                 netVars, srvVars>>

\* WantsTag, answered with nothing or with an invalid tag.
AnswerNoTag ==
  /\ st = "Tag"
  /\ Fail
  /\ UNCHANGED <<netVars, srvVars>>

\* The first fragment, after those already popped, that has to wait for a "+".
SyncLeft == {i \in (cursor + 1)..Len(Body(x)) : Body(x)[i] = "sync"}
PoppedPastEnd == Len(Body(x)) + 1   \* mutant: one fragment too many
Popped == IF SyncLeft = {} THEN Len(Body(x))
          ELSE CHOOSE i \in SyncLeft : \A j \in SyncLeft : i <= j

\* Writes the literal held in limbo, then the fragments up to the next
\* synchronising literal, which goes to limbo; then WantsWrite.
Serialize ==
  /\ st = "Serialize"
  /\ cursor' = Popped
  /\ limbo' = (SyncLeft # {})
  /\ written' = [written EXCEPT ![x] = IF SyncLeft = {} THEN Popped ELSE Popped - 1]
  /\ st' = "Read"
  /\ UNCHANGED <<x, tag, data, untagged, tagged, bye, cr, done, outs,
                 buf, partial, wire, closed, srvVars>>

\* What a read of n messages, and perhaps the start of one more, leaves.
UnreadLessTail(n, rest) ==          \* mutant: the incomplete message is lost
  SubSeq(wire, IF rest THEN n + 2 ELSE n + 1, Len(wire))
Unread(n, rest) == SubSeq(wire, n + 1, Len(wire))

\* WantsRead: the caller reads n whole messages, and perhaps the start of one
\* more; a message split by the network stays in the fragmentizer.
ReadBytes(n, rest) ==
  /\ st = "Read"
  /\ n <= Len(wire)
  /\ rest => n < Len(wire)
  /\ n > 0 \/ (rest /\ ~partial)
  /\ buf' = buf \o SubSeq(wire, 1, n)
  /\ wire' = Unread(n, rest)
  /\ partial' = rest
  /\ st' = "Deserialize"
  /\ UNCHANGED <<x, tag, cursor, limbo, data, untagged, tagged, bye, cr, done, outs,
                 written, closed, srvVars>>

\* WantsRead, answered with an empty slice.
ReadEofIgnored == FALSE             \* mutant: an empty read is read again
ReadEof ==
  /\ st = "Read" /\ closed /\ wire = <<>>
  /\ Fail
  /\ UNCHANGED <<netVars, srvVars>>

\* A tagged status completes the exchange only under its own tag.
OwnsAny(m) == TRUE                  \* mutant: any completion ends the exchange
OwnsOk(m) == m.tag \in tag /\ m.kind = "OK"   \* mutant: a refusal is skipped
Owns(m) == m.tag \in tag

CollectedLast(ids, id) == <<id>>    \* mutant: the last response replaces the others
Collected(ids, id) == Append(ids, id)

\* The message the fragmentizer completed.
Decode(m) ==
  \/ /\ m.type = "data"
     /\ data' = Collected(data, m.id)
     /\ UNCHANGED <<x, st, tag, cursor, limbo, untagged, tagged, bye, cr, done, outs>>
  \/ /\ m.type = "status"
     /\ untagged' = Collected(untagged, m.id)
     /\ UNCHANGED <<x, st, tag, cursor, limbo, data, tagged, bye, cr, done, outs>>
  \/ /\ m.type = "tagged" /\ ~Owns(m)
     /\ UNCHANGED sendVars
  \/ /\ m.type = "tagged" /\ Owns(m)
     /\ tagged' = {[tag |-> m.tag, kind |-> m.kind]}
     /\ done' = TRUE
     /\ UNCHANGED <<x, st, tag, cursor, limbo, data, untagged, bye, cr, outs>>
  \/ /\ m.type = "bye"
     /\ bye' = TRUE
     /\ done' = TRUE
     /\ UNCHANGED <<x, st, tag, cursor, limbo, data, untagged, tagged, cr, outs>>
  \/ /\ m.type = "cr"
     /\ cr' = TRUE
     /\ done' = ~limbo
     /\ UNCHANGED <<x, st, tag, cursor, limbo, data, untagged, tagged, bye, outs>>
  \/ /\ m.type = "skippable"
     /\ UNCHANGED sendVars
  \/ /\ m.type = "undecodable"
     /\ Fail

Deserialize ==
  /\ st = "Deserialize" /\ buf # <<>>
  /\ Decode(Head(buf))
  /\ buf' = Tail(buf)
  /\ UNCHANGED <<partial, written, wire, closed, srvVars>>

\* The fragmentizer is drained.
Drained == st = "Deserialize" /\ buf = <<>>

Ends == done

Complete ==
  /\ Drained /\ Ends
  /\ outs' = Append(outs, [x |-> x, tag |-> CHOOSE t \in tag : TRUE, data |-> data,
                           untagged |-> untagged, tagged |-> tagged,
                           bye |-> bye, cr |-> cr])
  /\ st' = "Idle"
  /\ data' = <<>> /\ untagged' = <<>> /\ tagged' = {} /\ tag' = {}
  /\ bye' = FALSE /\ cr' = FALSE
  /\ UNCHANGED <<x, cursor, limbo, done, netVars, srvVars>>

ResumeLiteral ==
  /\ Drained /\ ~done /\ limbo
  /\ st' = "Serialize"
  /\ UNCHANGED <<x, tag, cursor, limbo, data, untagged, tagged, bye, cr, done, outs,
                 netVars, srvVars>>

ReadMore ==
  /\ Drained /\ ~done /\ ~limbo
  /\ st' = "Read"
  /\ UNCHANGED <<x, tag, cursor, limbo, data, untagged, tagged, bye, cr, done, outs,
                 netVars, srvVars>>

\* The caller drops the coroutine while it waits for bytes, the whole command
\* being written, and goes on with the connection.
Abandon ==
  /\ st = "Read" /\ written[x] = Len(Body(x))
  /\ st' = "Idle"
  /\ data' = <<>> /\ untagged' = <<>>
  /\ dropped' = dropped \cup {data[i] : i \in 1..Len(data)}
                        \cup {untagged[i] : i \in 1..Len(untagged)}
  /\ UNCHANGED <<x, tag, cursor, limbo, tagged, bye, cr, done, outs, netVars,
                 srvX, srvGot, srvSt, refused, granted, verdict, nextId, garbled>>

-----------------------------------------------------------------------------
(* The server (external).  It reads fragments in order, owes a "+" or a    *)
(* refusal to a synchronising literal, and one status to each command.     *)

Emit(m) == ~closed /\ wire' = Append(wire, m) /\ UNCHANGED <<buf, partial, written, closed>>

SrvReceive ==
  /\ srvSt = "ready" /\ ~closed
  /\ srvGot < written[srvX]
  /\ srvGot' = srvGot + 1
  /\ srvSt' = IF TagOf(srvX) \in refused THEN "ready"
              ELSE IF srvGot + 1 = Len(Body(srvX)) THEN "complete"
              ELSE IF Body(srvX)[srvGot + 2] = "sync" THEN "literal"
              ELSE "ready"
  /\ UNCHANGED <<srvX, refused, granted, verdict, nextId, garbled, dropped, sendVars, netVars>>

\* The first bytes of a later exchange arrive.
SrvNextCommand(k) ==
  /\ srvSt = "ready" /\ ~closed
  /\ srvGot = written[srvX]
  /\ k > srvX /\ written[k] > 0
  /\ \A j \in (srvX + 1)..(k - 1) : written[j] = 0
  /\ srvX' = k /\ srvGot' = 0
  /\ UNCHANGED <<srvSt, refused, granted, verdict, nextId, garbled, dropped, sendVars, netVars>>

SrvContinue ==
  /\ srvSt = "literal"
  /\ Emit([type |-> "cr"])
  /\ granted' = [granted EXCEPT ![srvX] = @ \cup {srvGot + 1}]
  /\ srvSt' = "ready"
  /\ UNCHANGED <<srvX, srvGot, refused, verdict, nextId, garbled, dropped, sendVars>>

SrvPrompt ==
  /\ srvSt = "complete" /\ Prompts(srvX)
  /\ Emit([type |-> "cr"])
  /\ srvSt' = "ready"
  /\ UNCHANGED <<srvX, srvGot, refused, granted, verdict, nextId, garbled, dropped, sendVars>>

\* The one status of a command, sent once it is complete or instead of the
\* "+" for its literal.
SrvStatus(kind) ==
  /\ \/ srvSt = "complete" /\ (kind = "OK" => ~Prompts(srvX))
     \/ srvSt = "literal" /\ kind = "NO"
  /\ Emit([type |-> "tagged", tag |-> TagOf(srvX), kind |-> kind])
  /\ verdict' = [verdict EXCEPT ![TagOf(srvX)] = @ \cup {kind}]
  /\ refused' = IF srvSt = "literal" THEN refused \cup {TagOf(srvX)} ELSE refused
  /\ srvSt' = "ready"
  /\ UNCHANGED <<srvX, srvGot, granted, nextId, garbled, dropped, sendVars>>

SrvUntagged(type) ==
  /\ nextId <= MaxUntagged
  /\ Emit([type |-> type, id |-> nextId])
  /\ nextId' = nextId + 1
  /\ UNCHANGED <<srvX, srvGot, srvSt, refused, granted, verdict, garbled, dropped, sendVars>>

\* A line imap-codec cannot decode, untagged ("* ...") or not.
SrvGarbage(type) ==
  /\ ~garbled /\ garbled' = TRUE
  /\ Emit([type |-> type])
  /\ UNCHANGED <<srvX, srvGot, srvSt, refused, granted, verdict, nextId, dropped, sendVars>>

SrvBye ==
  /\ ~closed /\ wire' = Append(wire, [type |-> "bye"]) /\ closed' = TRUE
  /\ UNCHANGED <<buf, partial, written, srvVars, sendVars>>

SrvClose ==
  /\ ~closed /\ closed' = TRUE
  /\ UNCHANGED <<buf, partial, written, wire, srvVars, sendVars>>

-----------------------------------------------------------------------------
Start == \E k \in Ids : StartCommand(k) \/ StartNew(k) \/ StartReceive(k)
ReadSome == \E n \in 0..Len(wire), rest \in BOOLEAN : ReadBytes(n, rest)
Resume ==
  \/ AnswerTag \/ Serialize \/ ReadSome \/ ReadEof
  \/ Deserialize \/ Complete \/ ResumeLiteral \/ ReadMore
SrvAnswer ==
  \/ SrvReceive
  \/ \E k \in Ids : SrvNextCommand(k)
  \/ SrvContinue \/ SrvPrompt
  \/ \E kind \in Kind : SrvStatus(kind)
SrvVolunteer ==
  \/ \E type \in {"data", "status"} : SrvUntagged(type)
  \/ \E type \in {"skippable", "undecodable"} : SrvGarbage(type)
  \/ SrvBye \/ SrvClose

Next == Start \/ Resume \/ AnswerNoTag \/ Abandon \/ SrvAnswer \/ SrvVolunteer

Spec == Init /\ [][Next]_vars

\* The driver loop never stops between two resumes and reads block only while
\* the server is silent; the server answers what it has received.
FairSpec == Spec /\ WF_vars(Resume) /\ WF_vars(SrvAnswer)

-----------------------------------------------------------------------------
(* An exchange ends on its own command's completion: a status returned     *)
(* carries the tag of the command the exchange belongs to and is one the   *)
(* server gave that command, whatever late completion came first           *)
(* (send.rs:267-279).                                                      *)
OwnCompletion ==
  \A i \in 1..Len(outs) : \A t \in outs[i].tagged :
    /\ outs[i].tag = TagOf(outs[i].x)
    /\ t.tag = outs[i].tag
    /\ t.kind \in verdict[t.tag]

(* An exchange that reports OK wrote its command to the last fragment: no   *)
(* completion meant for another command ends it while a literal is held    *)
(* back (send.rs:209-237, 267-279).                                        *)
OkMeansWritten ==
  \A i \in 1..Len(outs) :
    (\E t \in outs[i].tagged : t.kind = "OK") => written[outs[i].x] = Len(Body(outs[i].x))

(* A synchronising literal waits for the server continuation               *)
(* (rfc3501/append.rs:108-113).                                            *)
LiteralAfterContinuation ==
  \A k \in Ids : \A i \in 1..Len(Body(k)) :
    Body(k)[i] = "sync" /\ i <= written[k] /\ Exchanges[k].via = "command"
      => i \in granted[k]

\* Where the untagged responses of a type are, by number: in the outputs, in the
\* exchange under way, in the fragmentizer and on the wire.
IdsIn(msgs, type) == [i \in {j \in 1..Len(msgs) : msgs[j].type = type} |-> msgs[i].id]
Stored(type) == [k \in 1..Len(outs) |-> IF type = "data" THEN outs[k].data ELSE outs[k].untagged]
Kept(type) == IF type = "data" THEN data ELSE untagged
Places(type) == Stored(type) \o <<Kept(type), IdsIn(buf, type), IdsIn(wire, type)>>

InOrder(places) ==
  \A p, q \in 1..Len(places) : \A i \in DOMAIN places[p], j \in DOMAIN places[q] :
    p < q \/ (p = q /\ i < j) => places[p][i] < places[q][j]
Found(places) == UNION {{places[p][i] : i \in DOMAIN places[p]} : p \in 1..Len(places)}

(* No untagged response is lost, duplicated or reordered on its way to the *)
(* outputs: those returned, those of the exchange under way, those in the  *)
(* fragmentizer and those on the wire are, one after the other, in the     *)
(* server's order, and with what an abandoned exchange had read they are   *)
(* all it sent, each once (send.rs:261-266, 325-336).                      *)
UntaggedInOrder ==
  /\ InOrder(Places("data")) /\ InOrder(Places("status"))
  /\ Found(Places("data")) \cup Found(Places("status")) \cup dropped = 1..(nextId - 1)
  /\ Found(Places("data")) \cap Found(Places("status")) = {}
  /\ dropped \cap (Found(Places("data")) \cup Found(Places("status"))) = {}

(* Every exchange ends, with an output or an error, as long as the caller  *)
(* keeps resuming and the server answers or hangs up.                      *)
ExchangeEnds == (st \notin {"Idle", "Failed"}) ~> (st \in {"Idle", "Failed"})
=============================================================================
