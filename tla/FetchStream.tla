----------------------------- MODULE FetchStream ----------------------------
(***************************************************************************)
(* The streamed FETCH, of one message (src/rfc3501/fetch_stream.rs) and of *)
(* a batch (src/rfc3501/fetch_stream_batch.rs), with the loops of the std  *)
(* client that drive them (src/client.rs).  The bodies bypass the          *)
(* fragmentizer: the coroutine keeps the octets it read, takes the lines   *)
(* between the bodies off them one by one, and hands the octets of a body  *)
(* to the caller's sink.                                                   *)
(*                                                                         *)
(* What the server sends is one sequence of octets, chosen at the start;   *)
(* the reads split it anywhere, and it may be cut anywhere.  A line is two *)
(* octets, the second of which ends it.  The octets of a body are          *)
(* numbered, and some of them end a line too.                              *)
(*                                                                         *)
(* The connection was used before: the last command on it may have been    *)
(* dropped while its response was under way, which then comes first, and   *)
(* whose beginning the fragmentizer may hold.                              *)
(***************************************************************************)
EXTENDS Naturals, Sequences

CONSTANTS
  Bodies,       \* per message: for each octet of its body, whether it ends a line
  Limits,       \* the sizes a batch may allow: functions from messages to lengths
  MaxLine,      \* the longest line accepted, in octets
  Plans         \* what the server may send

Messages == 1..Len(Bodies)

ASSUME BodiesAssumption == Bodies \in Seq(Seq(BOOLEAN)) /\ Bodies # <<>>
ASSUME LimitsAssumption == Limits # {} /\ Limits \subseteq [Messages -> Nat]
ASSUME MaxLineAssumption == MaxLine \in Nat \ {0, 1}

-----------------------------------------------------------------------------
(* What the server sends (external).                                       *)

\* What a line says.  `own` tells the completion of this command from that of
\* the command before; a body announced without a UID has `uid` 0; the end of a
\* body's response and untagged responses are all lines of no interest.
Line == [type : {"header"}, uid : 0..Len(Bodies), msg : Messages]
          \cup [type : {"tagged"}, own : BOOLEAN, ok : BOOLEAN]
          \cup [type : {"bye", "other"}]
Header(m, named) == [type |-> "header", uid |-> IF named THEN m ELSE 0, msg |-> m]
Tagged(own, ok) == [type |-> "tagged", own |-> own, ok |-> ok]
Bye == [type |-> "bye"]
Other == [type |-> "other"]

\* An octet of a line, or of the body of message `msg`.
Octet == [of : Line, nl : BOOLEAN] \cup [msg : 0..Len(Bodies), pos : Nat, nl : BOOLEAN]

LineOctets(l) == <<[of |-> l, nl |-> FALSE], [of |-> l, nl |-> TRUE]>>
LongLine == [i \in 1..(MaxLine + 1) |-> [of |-> Other, nl |-> i = MaxLine + 1]]
BodyOctets(m) == [i \in 1..Len(Bodies[m]) |-> [msg |-> m, pos |-> i, nl |-> Bodies[m][i]]]

\* The rest of a literal of the command before, two octets that the
\* fragmentizer waits for.
StaleLiteral == <<[msg |-> 0, pos |-> 1, nl |-> TRUE], [msg |-> 0, pos |-> 2, nl |-> FALSE]>>

\* What the server is about to send: what is left of the command before, the
\* messages it answers with, whether the header names the UID, a line of no
\* interest before one of the messages or the end, the end, and a line after.
Answers == {<<>>} \cup {<<m>> : m \in Messages} \cup {<<a, b>> : a, b \in Messages}
Strays == {<<>>, LineOctets(Other), LongLine}
Ends == {Tagged(TRUE, TRUE), Tagged(TRUE, FALSE), Bye}

Plan == [stale : {"none", "late", "line", "literal"}, msgs : Answers, named : BOOLEAN,
         stray : Strays, at : 0..2, end : Ends, after : Strays \ {LongLine}]

StaleOctets(p) ==
  CASE p.stale = "none" -> <<>>
    [] p.stale = "late" -> LineOctets(Tagged(FALSE, TRUE))
    [] p.stale = "line" -> Tail(LineOctets(Other))
    [] p.stale = "literal" -> StaleLiteral \o LineOctets(Other) \o LineOctets(Tagged(FALSE, TRUE))

MessageOctets(p, i) ==
  (IF p.at = i THEN p.stray ELSE <<>>)
  \o (IF i > Len(p.msgs) THEN <<>>
      ELSE LineOctets(Header(p.msgs[i], p.named)) \o BodyOctets(p.msgs[i]) \o LineOctets(Other))

Script(p) ==
  StaleOctets(p) \o MessageOctets(p, 1) \o MessageOctets(p, 2)
  \o (IF p.at = 0 THEN p.stray ELSE <<>>) \o LineOctets(p.end) \o p.after

ASSUME PlansAssumption == Plans \subseteq Plan

-----------------------------------------------------------------------------
VARIABLES
  batch,          \* ImapMessageFetchStreamBatch, or ImapMessageFetchStream
  limit,          \* per message: its declared size, at most max_literal_len
  st,             \* State, "Done" once complete
  tagRequested,
  pending,        \* octets read and not taken yet; dropped with the coroutine
  scanned,        \* how many of them were searched for the end of a line
  remaining,      \* octets of the body still to come
  streamPending,  \* the caller copies the rest of the body itself
  outcome,        \* "none", or what Complete returned
  endedBy         \* history: the line that ended it, if one did

VARIABLES
  raw,            \* the fragmentizer: octets not parsed yet
  literal,        \* the fragmentizer: length of the literal it waits for, 0 if none
  current,        \* the message whose sink is open, 0 if none
  sink,           \* the octets written to it
  committed       \* per message that ended: the octets of its sink

VARIABLES
  plan,           \* what the server sends
  wire,           \* what is left of it
  closed          \* the server closed the connection

fetchVars == <<st, tagRequested, pending, scanned, remaining, streamPending, outcome, endedBy>>
sinkVars == <<current, sink, committed>>
vars == <<batch, limit, fetchVars, raw, literal, sinkVars, plan, wire, closed>>

TypeOK ==
  /\ batch \in BOOLEAN /\ limit \in Limits
  /\ st \in {"SendCommand", "Header", "NextItem", "Stream", "Trailer", "Done"}
  /\ tagRequested \in BOOLEAN
  /\ pending \in Seq(Octet) /\ wire \in Seq(Octet) /\ raw \in Seq(Octet)
  /\ scanned \in Nat /\ remaining \in Nat /\ literal \in Nat
  /\ streamPending \in BOOLEAN
  /\ outcome \in {"none", "Ok", "No", "Err"} /\ (outcome = "none" <=> st # "Done")
  /\ endedBy \subseteq Line
  /\ current \in 0..Len(Bodies)
  /\ sink \in Seq(Octet)
  /\ committed \in Seq([msg : Messages, octets : Seq(Octet)])
  /\ plan \in Plans /\ closed \in BOOLEAN

Init ==
  /\ batch \in BOOLEAN /\ limit \in Limits
  /\ st = "SendCommand" /\ tagRequested = FALSE
  /\ pending = <<>> /\ scanned = 0 /\ remaining = 0 /\ streamPending = FALSE
  /\ outcome = "none" /\ endedBy = {}
  /\ current = 0 /\ sink = <<>> /\ committed = <<>>
  /\ plan \in Plans
  /\ wire = Script(plan) /\ closed = FALSE
  /\ raw = IF plan.stale = "line" THEN <<Head(LineOctets(Other))>> ELSE <<>>
  /\ literal = IF plan.stale = "literal" THEN Len(StaleLiteral) ELSE 0

-----------------------------------------------------------------------------
Env == UNCHANGED <<batch, limit, plan>>
Idle == UNCHANGED <<raw, literal, sinkVars, wire, closed>>

FailsQuietly ==                     \* mutant: the error is not returned
  /\ st' = "Done"
  /\ UNCHANGED <<outcome, endedBy, tagRequested, pending, scanned, remaining, streamPending>>
Fails ==
  /\ st' = "Done" /\ outcome' = "Err" /\ endedBy' = {}
  /\ UNCHANGED <<tagRequested, pending, scanned, remaining, streamPending>>

Goto(s) == st' = s /\ UNCHANGED <<outcome, endedBy, tagRequested>>

\* The state in which the first line of a response is expected.
FirstState == IF batch THEN "NextItem" ELSE "Header"

\* WantsTag.
RequestTag ==
  /\ st = "SendCommand" /\ ~tagRequested
  /\ tagRequested' = TRUE
  /\ UNCHANGED <<st, pending, scanned, remaining, streamPending, outcome, endedBy>>
  /\ Idle /\ Env

\* WantsTag is answered with a tag, and WantsWrite yielded.
SendCommand ==
  /\ st = "SendCommand" /\ tagRequested
  /\ Goto(FirstState)
  /\ UNCHANGED <<pending, scanned, remaining, streamPending>>
  /\ Idle /\ Env

\* It is answered with nothing, or with an invalid tag.
AnswerNoTag ==
  /\ st = "SendCommand" /\ tagRequested
  /\ Fails
  /\ Idle /\ Env

-----------------------------------------------------------------------------
(* next_line                                                               *)

\* Where the next line ends, among the octets not searched yet.
NewLines == {i \in (scanned + 1)..Len(pending) : pending[i].nl}
LineEnd == CHOOSE i \in NewLines : \A j \in NewLines : i <= j

LineTooLong ==
  IF NewLines = {} THEN Len(pending) > MaxLine ELSE LineEnd > MaxLine

ScannedAfterStale == scanned        \* mutant: the mark outlives the line it was set in
ScannedAfter == 0

AwaitsLine == st \in {"Header", "NextItem", "Trailer"}

FailLine ==
  /\ AwaitsLine /\ LineTooLong
  /\ Fails
  /\ Idle /\ Env

\* No line is complete: WantsRead, answered with n octets.
ReadBytes(n) ==
  /\ AwaitsLine /\ NewLines = {} /\ ~LineTooLong
  /\ n \in 1..Len(wire)
  /\ scanned' = Len(pending)
  /\ pending' = pending \o SubSeq(wire, 1, n)
  /\ wire' = SubSeq(wire, n + 1, Len(wire))
  /\ UNCHANGED <<st, tagRequested, remaining, streamPending, outcome, endedBy, raw, literal,
                 sinkVars, closed>>
  /\ Env

\* WantsRead, answered with an empty slice.
ReadEof ==
  /\ AwaitsLine /\ NewLines = {} /\ ~LineTooLong
  /\ wire = <<>> /\ closed
  /\ Fails
  /\ Idle /\ Env

-----------------------------------------------------------------------------
(* The fragmentizer (external): one step of `progress`, once the line is   *)
(* enqueued.  It takes a literal as soon as it is whole, or else a line.   *)

Enqueued == raw \o SubSeq(pending, 1, LineEnd)
FirstEnd == CHOOSE i \in 1..Len(Enqueued) :
              Enqueued[i].nl /\ \A j \in 1..(i - 1) : ~Enqueued[j].nl
TakesLiteral == literal > 0
Parsed == IF TakesLiteral
            THEN IF Len(Enqueued) >= literal THEN literal ELSE 0
            ELSE FirstEnd

\* What the line parsed says; octets that are not a line of the server's own
\* cannot be decoded and are skipped as other lines are.
Said ==
  LET s == SubSeq(Enqueued, 1, Parsed)
      last == s[Len(s)]
  IN IF "of" \in DOMAIN last /\ s = LineOctets(last.of) THEN last.of ELSE Other

\* The line goes from the octets read to the fragmentizer.
TakeLine ==
  /\ AwaitsLine /\ NewLines # {} /\ ~LineTooLong
  /\ pending' = SubSeq(pending, LineEnd + 1, Len(pending))
  /\ scanned' = ScannedAfter
  /\ raw' = SubSeq(Enqueued, Parsed + 1, Len(Enqueued))

\* The end of a literal, or nothing yet.
SkipFragment ==
  /\ TakeLine /\ TakesLiteral
  /\ literal' = IF Parsed > 0 THEN 0 ELSE literal
  /\ UNCHANGED <<st, tagRequested, remaining, streamPending, outcome, endedBy, sinkVars,
                 wire, closed>>
  /\ Env

\* A line that is neither a status nor announces a literal.
SkipLine ==
  /\ TakeLine /\ ~TakesLiteral /\ Said = Other
  /\ UNCHANGED <<st, tagRequested, remaining, streamPending, outcome, endedBy, literal,
                 sinkVars, wire, closed>>
  /\ Env

\* decode_terminal
TerminatesTagged(l) == l.type = "tagged"   \* mutant: a BYE is skipped
Terminates(l) == l.type \in {"tagged", "bye"}
Verdict(l) == IF l.type = "bye" THEN "Err" ELSE IF l.ok THEN "Ok" ELSE "No"

EndOfFetch ==
  /\ TakeLine /\ ~TakesLiteral /\ Terminates(Said)
  /\ st' = "Done" /\ outcome' = Verdict(Said) /\ endedBy' = {Said}
  /\ UNCHANGED <<tagRequested, remaining, streamPending, literal, sinkVars, wire, closed>>
  /\ Env

-----------------------------------------------------------------------------
(* The announcement of a body.                                             *)

Announces == TakeLine /\ ~TakesLiteral /\ Said.type = "header"
             /\ literal' = Len(Bodies[Said.msg])

\* The UID is on the line, and the body no longer than the message may be.
Accepts(l) == l.uid # 0 /\ Len(Bodies[l.msg]) <= limit[l.uid]

\* One message: the body the line announces.  Which message the FETCH is for is
\* not looked at: here `current` is history, the message whose body it really is.
StartBody ==
  /\ st = "Header"
  /\ Announces
  /\ remaining' = Len(Bodies[Said.msg])
  /\ current' = Said.msg /\ sink' = <<>>
  /\ Goto("Stream")
  /\ UNCHANGED <<streamPending, committed, wire, closed>>
  /\ Env

\* MessageStart: the caller opens the sink of the message.
StartMessage ==
  /\ st = "NextItem"
  /\ Announces
  /\ Accepts(Said)
  /\ remaining' = Len(Bodies[Said.msg])
  /\ current' = Said.uid /\ sink' = <<>>
  /\ Goto("Stream")
  /\ UNCHANGED <<streamPending, committed, wire, closed>>
  /\ Env

RefuseBodySkips ==                  \* mutant: a body that is refused is left out
  /\ TakeLine /\ ~TakesLiteral /\ Said.type = "header"
  /\ (st = "NextItem" /\ ~Accepts(Said)) \/ st = "Trailer"
  /\ UNCHANGED <<st, tagRequested, remaining, streamPending, outcome, endedBy, literal,
                 sinkVars, wire, closed>>
  /\ Env
\* UidMissing, LiteralTooLong, UnexpectedLiteral.
RefuseBody ==
  /\ Announces
  /\ (st = "NextItem" /\ ~Accepts(Said)) \/ st = "Trailer"
  /\ st' = "Done" /\ outcome' = "Err" /\ endedBy' = {}
  /\ UNCHANGED <<tagRequested, remaining, streamPending, sinkVars, wire, closed>>
  /\ Env

-----------------------------------------------------------------------------
(* State::Stream.                                                          *)

ChunkUnbounded == Len(pending)      \* mutant: what was read is all body
Chunk == IF remaining < Len(pending) THEN remaining ELSE Len(pending)

\* BodyChunk: octets read with the line of the body, or with another body.
BodyChunk ==
  /\ st = "Stream" /\ remaining > 0 /\ pending # <<>>
  /\ sink' = sink \o SubSeq(pending, 1, Chunk)
  /\ pending' = SubSeq(pending, Chunk + 1, Len(pending))
  /\ remaining' = IF Chunk < remaining THEN remaining - Chunk ELSE 0
  /\ UNCHANGED <<st, tagRequested, scanned, streamPending, outcome, endedBy, raw, literal,
                 current, committed, wire, closed>>
  /\ Env

\* WantsStream.
YieldStream ==
  /\ st = "Stream" /\ remaining > 0 /\ pending = <<>> /\ ~streamPending
  /\ streamPending' = TRUE
  /\ UNCHANGED <<st, tagRequested, pending, scanned, remaining, outcome, endedBy>>
  /\ Idle /\ Env

\* The caller copies the octets from the socket to the sink, in as many reads
\* as it takes, and resumes.
Copied == IF remaining < Len(wire) THEN remaining ELSE Len(wire)

CopyBody ==
  /\ st = "Stream" /\ streamPending
  /\ Len(wire) >= remaining
  /\ sink' = sink \o SubSeq(wire, 1, Copied)
  /\ wire' = SubSeq(wire, Copied + 1, Len(wire))
  /\ streamPending' = FALSE /\ remaining' = 0
  /\ UNCHANGED <<st, tagRequested, pending, scanned, outcome, endedBy, raw, literal,
                 current, committed, closed>>
  /\ Env

\* The socket ran short.
CopyShort ==
  /\ st = "Stream" /\ streamPending
  /\ Len(wire) < remaining /\ closed
  /\ sink' = sink \o wire /\ wire' = <<>>
  /\ st' = "Done" /\ outcome' = "Err" /\ endedBy' = {}
  /\ streamPending' = FALSE
  /\ UNCHANGED <<tagRequested, pending, scanned, remaining, raw, literal, current,
                 committed, closed>>
  /\ Env

\* skip_message: the fragmentizer does not wait for the literal any more.
LiteralKept == literal              \* mutant: it still waits
LiteralSkipped == 0

\* The body is whole.  A batch closes the sink of the message (MessageEnd).
EndBody ==
  /\ st = "Stream" /\ remaining = 0
  /\ literal' = LiteralSkipped
  /\ IF batch
       THEN /\ Goto("NextItem")
            /\ committed' = Append(committed, [msg |-> current, octets |-> sink])
            /\ current' = 0 /\ sink' = <<>>
       ELSE Goto("Trailer") /\ UNCHANGED sinkVars
  /\ UNCHANGED <<pending, scanned, remaining, streamPending, raw, wire, closed>>
  /\ Env

-----------------------------------------------------------------------------
\* The connection breaks (external), with n octets still to be read: none but
\* for a copy, since other reads may stop anywhere.
Cut(n) ==
  /\ ~closed /\ st \notin {"SendCommand", "Done"}
  /\ n <= Len(wire) /\ n <= IF streamPending THEN remaining - 1 ELSE 0
  /\ closed' = TRUE /\ wire' = SubSeq(wire, 1, n)
  /\ UNCHANGED <<fetchVars, raw, literal, sinkVars>>
  /\ Env

Resume ==
  \/ RequestTag \/ SendCommand
  \/ FailLine \/ ReadEof \/ \E n \in 1..Len(wire) : ReadBytes(n)
  \/ SkipFragment \/ SkipLine \/ EndOfFetch
  \/ StartBody \/ StartMessage \/ RefuseBody
  \/ BodyChunk \/ YieldStream \/ CopyBody \/ CopyShort \/ EndBody

Next == Resume \/ AnswerNoTag \/ \E n \in 0..Len(wire) : Cut(n)

Spec == Init /\ [][Next]_vars

\* The driver's loop goes on; nobody has to break the connection.
FairSpec == Spec /\ WF_vars(Resume)

-----------------------------------------------------------------------------
\* The fetch ended on a status of its own command.
EndedOwn == endedBy \in {{Tagged(TRUE, TRUE)}, {Tagged(TRUE, FALSE)}}

(* A body's octets go to its own sink, all of them, in order, and no other *)
(* octet does: whatever the reads split, and even when the octets look     *)
(* like lines, a sink holds the beginning of its body, and a sink that is  *)
(* committed the whole of it (fetch_stream_batch.rs:294-341;               *)
(* client.rs:1078-1112).                                                   *)
BodiesExact ==
  /\ current # 0 => \E n \in 0..Len(Bodies[current]) : sink = SubSeq(BodyOctets(current), 1, n)
  /\ \A i \in 1..Len(committed) : committed[i].octets = BodyOctets(committed[i].msg)

(* A fetch that ends on its own OK handed over every body the server sent, *)
(* each once and in the server's order (fetch_stream.rs:299-363).          *)
OkMeansAll ==
  EndedOwn /\ outcome = "Ok" =>
    IF batch THEN [i \in 1..Len(committed) |-> committed[i].msg] = plan.msgs
    ELSE (plan.msgs = <<>> /\ sink = <<>>) \/ sink = BodyOctets(plan.msgs[1])

(* Nothing of a fetch that ended on its own completion reaches the next    *)
(* exchange: the fragmentizer holds none of it and waits for no literal,   *)
(* and what is left to read is a rest of what the server sent after the    *)
(* completion.  It is a rest only, and may begin within a line: octets     *)
(* read past the completion are in `pending`, and go with the coroutine    *)
(* (fetch_stream.rs:164, 288-297, 385-427; client.rs:995, 1062).           *)
LeftInStep ==
  EndedOwn /\ ~closed =>
    /\ raw = <<>> /\ literal = 0
    /\ \E n \in 0..Len(plan.after) : wire = SubSeq(plan.after, n + 1, Len(plan.after))

(* The search for the end of a line never skips one: no octet marked as    *)
(* searched ends a line, and the mark is back at the start whenever octets *)
(* are taken off as a body (fetch_stream.rs:298-305, 378-403).             *)
ScanSound ==
  /\ scanned <= Len(pending) /\ \A i \in 1..scanned : ~pending[i].nl
  /\ st = "Stream" => scanned = 0

(* The fetch ends, whether the server completes it or the connection       *)
(* breaks.                                                                 *)
FetchEnds == (st # "SendCommand") ~> (st = "Done")

(* Only a status of its own command ends a fetch successfully              *)
(* (CHANGELOG.md: a completion of another command is skipped).             *)
EndsOnOwnStatus == outcome = "Ok" => EndedOwn
=============================================================================
