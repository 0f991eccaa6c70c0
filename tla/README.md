# A TLA+ model of io-imap

io-imap is an IMAP client library. Its protocol logic is a set of I/O-free
coroutines: state machines that yield what they need (a tag, bytes to write,
bytes to read) and are resumed with it. A blocking client drives them, and a
background thread drives one of them, the mailbox watch, for as long as a
mailbox is watched.

This directory holds the specifications of that logic, the TLC configurations
that check them on small instances, and proofs that hold for every instance.
Source paths below are relative to `src/` of the repository.

## 1. Inventory

| Part | Source | State it keeps | Operations | What makes it correct |
|---|---|---|---|---|
| Command exchange `ImapSend` | `send.rs` | state, tag, fragments left, the literal held back, the response collected | `command`, `new`, `receive`, `resume` | ends on its own completion, loses nothing it read, does not write a literal before it is asked for, ends at all |
| Coroutine contract | `coroutine.rs` | none | `resume` and its yields | a yield is answered once, in kind |
| Blocking client | `client.rs` | stream, fragmentizer, tag generator | `run` and one method per command | the fragmentizer and the tags are carried from exchange to exchange |
| Watch stream | `client.rs` | worker thread, channel of 256, shutdown flag, join handle | `watch_mailbox`, `next`, `try_recv`, `recv_timeout`, `close`, `drop` | events in order, a failure is told, closing returns |
| Mailbox watch | `watch.rs` | shadow of the mailbox, UIDVALIDITY, HIGHESTMODSEQ, pending events | `new`, `resume` | the events are the changes: none invented, none repeated, none missed |
| IDLE | `rfc2177/idle.rs` | state, refresh timer, tag | `new`, `resume` | an announcement is an event; DONE ends it; a refresh is invisible |
| EXAMINE, SELECT, FETCH | `rfc3501/{examine,select,fetch}.rs` | the exchange | `resume` | the data read is the data sent |
| Streamed FETCH, one message or a batch | `rfc3501/fetch_stream{,_batch}.rs` | bytes pending, literal left | `resume` | exactly the announced octets reach the caller, then the terminal status |
| Streamed and buffered APPEND | `rfc3501/append{_stream,}.rs` | the exchange, octets left | `resume` | the literal is as long as announced and asked for |
| Raw command | `rfc3501/raw.rs` | bytes collected | `resume` | ends on the tagged line, not on one inside a literal |
| Session | `session.rs` | the phase, what is known of the server | `resume` | the phases in order, nothing in the clear that TLS should carry |
| Greeting, STARTTLS, capability, LOGIN | `rfc3501/…` | the exchange | `resume` | what is read before the handshake does not outlive it |
| SASL mechanisms | `sasl/*.rs`, `rfc7628`, `rfc7677` | the exchange, SCRAM's transcript | `resume` | success only after every check of the mechanism |
| SORT, THREAD, SEARCH | `rfc5256/*.rs`, `rfc3501/search.rs` | the exchange, messages fetched | `resume`, `local_sort` | the fallback finds the messages and puts them in the order of the criteria |
| Mailbox names | `rfc3501/mailbox.rs` | none | encode, decode | decode inverts encode |
| Single-exchange commands | `rfc3501/*.rs`, `rfc3691`, `rfc4315`, `rfc6851` | the exchange | `resume` | the status reported is the status read |
| Connection, TLS | `client/connect.rs` | none | `connect_*` | I/O only |

How they interact. A command coroutine nests an `ImapSend` and reads its
output. The watch nests, one after the other, ENABLE, EXAMINE, FETCH and IDLE,
each of which nests `ImapSend`. All of them share one fragmentizer, which holds
what was read and not yet decoded, and one tag generator, both owned by the
driver. The client and its coroutine are one thread. Only three things are
concurrent with it: the server, other clients of the same mailbox, and, for a
background watch, the thread that holds the stream; it shares with the worker a
channel and an atomic flag.

What is hard: responses that come when they like (late, early, split, several
in one read); a wait that ends with a read rather than with the message waited
for; announcements of what others did among the data of a command; sequence
numbers that shift; what was read in clear before a TLS handshake; changes
between two commands of one resync; a timer and a flag looked at at given points
only; two threads, one of which joins the other.

## 2. Modules

| Module | Models | Checked by | Proofs |
|---|---|---|---|
| `ImapSend` | `send.rs`, with its callers and a server | `MCImapSend` | `ImapSendProofs` |
| `EventStream` | abstract: what a watch stream promises | through `WatchStream` | |
| `WatchStream` | the worker and the stream of `client.rs` | `MCWatchStream` | `WatchStreamProofs` |
| `MailboxWatch` | `watch.rs` with the IDLE of `rfc2177/idle.rs`, a server, other clients | `MCMailboxWatch` | `MailboxWatchProofs` |
| `FetchStream` | `rfc3501/fetch_stream.rs` and `fetch_stream_batch.rs`, with the loops of `client.rs` that drive them | `MCFetchStream` | `FetchStreamProofs` |
| `SessionOpen` | `session.rs` with `starttls.rs`, `greeting.rs`, `capability.rs`, `login.rs`, `id.rs` and the six SASL coroutines | `MCSessionOpen` | `SessionOpenProofs` |
| `Commands` | every other command of `client.rs`, each with what it sends and what it makes of the output, and the server's mailbox | `MCCommands` | `CommandsProofs`, `CommandsToldProofs`, `CommandsReturnProofs` |
| `UidSets`, `MessageSort`, `MailboxNames`, `RawLines` | the pure parts of the commands: UID sets and ranges, the local order of SORT, modified UTF-7, messages made of lines and literals | through `Commands` | |

The map from each definition to the source lines it stands for is in
`PROJECT.json`.

### ImapSend

The variables of the first block are the fields of `ImapSend`; `st` is its
`State`. One action is one pass of the loop of `resume`, together with the
caller's answer to the yield it ends in: `AnswerTag`, `Serialize`, `ReadBytes`,
`ReadEof`, `Deserialize` (one message) and, once the fragmentizer is drained,
`Complete`, `ResumeLiteral` or `ReadMore`, in the order of the match arms.

The module runs a list of exchanges, `Exchanges`, because the fragmentizer, the
socket and the server outlive an exchange. An exchange has the constructor it
is built with, the fragments of its message (a line, a non-synchronising and a
synchronising literal), and the exchange whose command it belongs to: an IDLE
DONE or the literal of a streamed APPEND is answered under the tag of an earlier
one. The caller is what the code's callers are: it continues a command only when
its last exchange was paused by a continuation request (`Paused`), gives up
after an error or a BYE (`Usable`), and may drop the coroutine while it waits
for bytes (`Abandon`).

Data is abstract: a response is its kind and a number; a decoding error is the
message that causes it; a read delivers any number of whole messages and
perhaps the start of one more (`partial`), which covers every way of splitting
a response over reads that the code can tell apart. The server reads the
fragments in order, owes a "+" or a refusal to a synchronising literal and one
status to each command, and may at any time send untagged responses, lines that
do not decode, BYE, or close. A refused command has the rest of it discarded.

### WatchStream and EventStream

One action per branch of the worker's loop and per operation of the stream. The
coroutine is seen through its yields: it may yield an event, ask to read or to
wait, fail, or, once the flag is set, complete. `close` and `drop` are one
action that sets the flag and one that joins. The receiver is a field of the
stream, so it lives until the join returns. A sleep is a number of steps: the
flag is looked at before each (`Sleep`, `SleepEnd`), and once more by the
coroutine that is resumed after the last (`GoOn`, `ResumeDone`). The history
variable `waits` counts the read deadlines and the steps of a sleep that ran out
since the flag was set (`RunOut`): both are as long as `shutdown_poll`.

`EventStream` says what the consumer may rely on, without thread, channel or
flag: events in order, each once, then an error or the end, and a quiet end only
on request. `Implements` states that `WatchStream` implements it, the queue
being the channel followed by the item in the worker's hand.

### MailboxWatch

`st` is the `State` of `ImapMailboxWatch`, `idle` that of the `ImapIdle` it
nests while `st = "Idle"`. A command exchange has four phases: to send, sent,
served (the server answered, as of one instant) and replied (the tagged status
was read). Between served and replied other clients may act, and the server may
announce what they did in the same response: that is where a FETCH response is
merged (`rfc3501/fetch.rs`) and where an announcement may be overlooked. The
response to a QRESYNC EXAMINE keeps every FETCH it has (`rfc3501/examine.rs:164-166`):
those of the answer are `reply.items`, those announced after it `reply.later`, and
the watch applies the ones after the others (`watch.rs:447-464`); an EXISTS that
comes with them is left aside. While it
idles, a read that holds nothing of interest wakes the watch too (`KeepAlive`). A
mailbox, a shadow and a snapshot are all functions from UIDs to sets of flags;
the events are the code's four, as `compute_deltas`, `compute_snapshot_deltas`
and `push_flag_deltas` make them.

Three history variables serve the properties: `replica`, what a consumer that
applies the events holds; `view`, the mailbox as of the answer the shadow is
built on, with the flags announced in the same response and kept; `viewValidity`,
its UIDVALIDITY. No action reads them.

### FetchStream

The two coroutines are one machine: `batch` tells them apart, and `st` is the
`State` of either (`Header` and `Trailer` of the one message, `NextItem` of the
batch, `Stream` of both). Here the split of the octets is what can go wrong, so
the module counts octets where `ImapSend` counts messages. The server's octets
are fixed at the start by a `Plan`: what is left of the command before, the
messages, whether their lines name the UID, a stray or an overlong line, the
end, and a line after it. `ReadBytes(n)` delivers any portion of them.

`TakeLine` is `next_line` followed by `enqueue_bytes` and one `progress` of the
fragmentizer; what `progress` returns and what the line then decodes to selects
one of `SkipFragment`, `SkipLine`, `EndOfFetch`, `StartBody`, `StartMessage` and
`RefuseBody`. `BodyChunk` to `EndBody` are the arms of `State::Stream`, each
with what the driver does to the sink when it gets that yield. The fragmentizer
is two variables: the octets it has not parsed (`raw`) and the literal it waits
for (`literal`), which `skip_message` resets. What the coroutine has read and not
yet taken off as lines or bodies (`pending`) is its own, and goes with it. The
fetch of one message does not look at which message a header is of; there
`current` only records it, for the properties.

### SessionOpen

`state` is the `State` of `ImapSessionOpen`, `tls` that of the `ImapStartTls` and
`auth` that of the authentication coroutine it nests. STARTTLS reads the socket
itself, line by line, and is modelled so: `Read(n, rest)` is a read of `n` whole
lines, and perhaps of the start of one more. The other sub-coroutines run over
`ImapSend`; one of their exchanges is one step, whose outcome is any that
`ImapSend` may return (`Answer`): a status or none, and a capability list or none
in its code, its data and its untagged statuses.

A capability list is known by the phase of the session in which the server
announced it: in clear, over TLS, authenticated. What the code gets wrong when
it keeps a list too long is then a stale value. A mechanism is what the code
asks of it: how many challenges it answers, when it agrees that the exchange is
over, and whether a status may answer AUTHENTICATE at once. The six coroutines
share their frame, and so do their actions; LOGIN has its own. A session opened
without credentials may be authenticated later through a method of the client
(`CallAuth`), which does not insist on a capability list.

### Commands

One client calls commands one after the other. Each coroutine is an action named
after it with two disjuncts: it sends its command (`Sends`), and, when the
exchange has ended (`Ended`), it reads the output (`Completes`, or `Requires`
for those whose OK without data is an error). The streamed APPEND, SORT and the raw passthrough have
more states, and an action for each. The exchange is seen as what `ImapSendOutput`
holds: data and untagged codes in order, the tagged status, BYE, continuation
request.

The server keeps INBOX, which other clients change, a set of other mailboxes by
wire name, and what it has told this session (`told`: the numbering and the
flags as announced). It executes a command at one instant and completes it
later; in between it may announce, as the RFC allows: EXPUNGE not in the response
to a FETCH, STORE or SEARCH by number. It may also refuse, say BYE or close. A
COPY or MOVE takes its messages in any order (`CopyOrders`), and their UIDs and
those of the copies are listed in any one order, as single UIDs or as a range where
they are consecutive and ascending (`CopyCodes`, `Listing`).
History variables: `ran`, `heard`, `searched`, `mine`, `mySubs`.

`UidSets` has `uid_ranges` and the expansion of COPYUID; `MessageSort` the items
fetched for a list of sort criteria, their comparison and the order of the ids;
`MailboxNames` the two conversions of a mailbox name, character by character,
over five sorts of character: a name has to survive both; `RawLines` how a raw
batch and its answer fall into messages, and the tags of these. The two
sorts, of a COPYUID and of the fallback of SORT, are written by places: the one in
place i has i - 1 before it.

## 3. Runs

| Run | Expect | Question | Bounds |
|---|---|---|---|
| `append` | pass | Does each exchange end, on its own completion, its command written, with nothing lost? IDLE, DONE, then an APPEND with a synchronising literal. | 1 untagged response, 1 undecodable line |
| `stream` | pass | The same for the two `receive` exchanges of a streamed APPEND followed by a plain command. | 2 untagged responses, 1 undecodable line |
| `literal` | violation | Does a synchronising literal wait for the "+"? | one APPEND |
| `watch_stream` | pass | Does the consumer see an event stream, and does closing return when the channel has room, after one deadline or sleep step at most? | channel of 2, 4 events, 2 sleep steps |
| `watch_close` | violation | Does closing always return? | the same |
| `deltas` | pass | Are the events the difference between what the consumer knows and what the server answered, is every change announced while idling reported, and does the flag end the watch? | 2 UIDs, 2 flags, 2 changes, 1 refresh, a server that announces early and one that does not |
| `missed` | violation | Is a change announced outside IDLE reported? | 1 UID, 1 change, eager server |
| `fetch_bodies` | pass | Does every octet of a body reach its sink, does no other, and does the fetch end where its completion ends? | 2 bodies of 3 and 1 octets, lines of 2 octets and room for 3, at most 2 unusual things in a plan, one cut |
| `fetch_foreign` | violation | Is a completion of another command skipped? | the same |
| `session` | pass | Does what was read in clear end at the upgrade, does success mean authenticated, is the capability list the last one, and does opening end? | all mechanisms, 2 lines in clear beyond the greeting and the answer |
| `commands` | pass | Is what each call returns what the server did and told? | 3 messages and room for 1, 2 names, 2 commands, 1 change |
| `first` | violation | Does a FETCH of one message return that message? | the same, 1 command |

Why the bounds are enough. A command's exchange interacts with at most the one
before it (its late completion, its unread "+", its half-read message); the
lists of exchanges have three of them, with every constructor and every kind of
fragment between them. Two untagged responses tell loss, repetition and
reordering apart. A channel of two with four events is filled, drained and
filled again. Two UIDs and two flags distinguish every case of the deltas (one
message changed and another not, one flag added while another is removed), and
two changes let a message be added or re-flagged and then removed around one
resync, or the mailbox be re-created after it was changed; the changes may come
at any of the watch's steps. A refresh restarts IDLE in place, so one is enough to
see what it does to an announcement. A body with a line end in its middle and
one that is nothing else show whether its octets are ever taken for lines; two
messages show that one ends before the next begins; a line of two octets is
enough to be split, one of four is too long, and three leave room for the end of
an old literal in front of a line. What is unusual in a plan
meets at most one other such thing, in every pairing.

Two lines in clear are one before and one after the answer to STARTTLS, in one
read or two. Commands meet only through the server's state (a name created, then
listed; a mailbox selected, then fetched from), so two in a row reach every
pairing. Three messages tell a swap from a shift, a chunk of one makes every sort
fetch several times, and the four messages have equal, different and missing
sort keys. Two copied messages are enough for a pair that is crossed. The largest
run, `commands`, has 3.4 million states. The two names are one outside ASCII and the ASCII name spelled as its
wire form; a third mailbox has a wire name that is nobody's. A literal width of
2 makes the narrowing of the length happen.

Every run has CHECK_DEADLOCK FALSE: an exchange list comes to its end, a watch
terminates, a stream is closed, a session is open and the calls are used up.

The records that `Sends` and `Call` of Commands are given list their fields in
one order, `op`, `uid`, `mailbox`, `set` and the rest. Records are equal whatever
the order, but TLC's workers share the value of a constant argument and sort its
fields in place the first time they meet it: written in TLC's order there is
nothing to sort, and a run with several workers is reproducible.

### Fairness

* `ImapSend`: weak fairness of `Resume` (the driver calls `resume` in a loop,
  `client.rs:792-819`) and of the server's answers to what it received. Nothing
  obliges the server to close, to send untagged data, or the caller to start.
* `WatchStream`: weak fairness of the worker, of the joining thread and of a
  consumer that iterates, and strong fairness of the coroutine's completion:
  `ShutdownEnds` of `MailboxWatch` is what justifies that a coroutine that is
  resumed again and again with the flag set does complete. Reads return because
  the stream has a read deadline (`client.rs:880`).
* `MailboxWatch`: weak fairness of the watch, of the server's answers (or the
  failure of the exchange), and of announcements to a session that idles. No
  fairness for the timer, the flag or other clients.
* `SessionOpen`: weak fairness of `Resume`, and of the server's greeting and
  answer to STARTTLS. Over an exchange of `ImapSend` the step that returns is
  part of `Resume`: `ExchangeEnds` justifies it. Nothing obliges the server to
  say more, or the caller to authenticate later.
* `FetchStream`: weak fairness of `Resume`, the driver's loop with its reads
  (`client.rs:993-1031`, `1060-1113`). A server that has sent its plan has
  completed the command or closed; nobody has to break the connection.

## 4. What the checks show

Hold: an exchange is never ended by another command's status, and a held literal
is never skipped by one; every untagged response is returned by exactly one
exchange, in order, whatever the splits; exchanges end. The watch stream is an
event stream, and its worker sees the flag within one read deadline or sleep step,
unless it waits for room. The watch's events, applied to the baseline, give the shadow, each
makes sense when it comes, the shadow is the server's state as of the last
answer, on every path, and it is never mixed with a mailbox of another
UIDVALIDITY. The flag ends the watch. A streamed FETCH writes to each sink the
octets of its body and nothing else, commits only whole bodies, hands over all
of them before its own OK, and leaves nothing of its response in the fragmentizer
or to be read.

A session goes on over TLS with nothing read in clear but the answer to
STARTTLS, sends the payloads of its mechanism in order, reports success only
with the consent of the server and the mechanism, and never a capability list of
an earlier phase. A command returns Ok only of what the server executed and a
refusal only of what it did not; the map of a FETCH or STORE holds each message
under its own number with the flags announced last; the sources of a COPYUID are
those of the copies it names, pair by pair when the server copied in the order of
the UIDs; names come back as they were given; a raw call returns what was sent,
whole messages only, up to the last completion; and the local SORT returns the
messages found, each once, in the order of the criteria on what their items carry.

Do not hold, with the statement of the repository each contradicts:

1. `LiteralAfterContinuation` (`send.rs:338`). A synchronising literal goes out
   as soon as any read has been drained, not when the "+" was read.
   Counterexample: the header of the APPEND is written, an untagged line is
   read, and the literal is written; the "+" is still to come and then ends the
   exchange.
2. `CloseReturns` (`client.rs:893`). The worker waits for room in the full
   channel while `close` or `drop` waits for the worker.
   `CloseReturnsWithRoom` shows that this is the only way it can hang.
3. `ChangesReported`, run `missed` (`watch.rs:601`). An EXISTS announced in the
   response to FETCH is ignored, and the server does not repeat it.
4. `EndsOnOwnStatus` (`rfc3501/fetch_stream.rs:412`). The streamed FETCH does
   not keep its tag and ends on any tagged status. The late OK of a command
   that was dropped ends it with success and no body, and the body then comes
   in the next exchange. `LeftInStep` and `OkMeansAll` show that its own
   completion does no such thing.
5. `FirstIsOwn` (`rfc3501/fetch.rs:295`). A FETCH of one message keeps the items
   of the last FETCH response, of whatever message: the flags of another one,
   announced with it, are returned in their place.

Also seen while modelling, in the models but without a run of their own:

* The n-th UID of the one set of a COPYUID was copied to the n-th of the other, in
  the order written; "its UID mapping" is what the code says it returns
  (`rfc3501/copy.rs:194-195`). It sorts each set by itself (`copy.rs:297`): a server
  that copies message 3 before message 1 writes `3,1 1,2`, and the call returns that
  1 became 1 and 3 became 2. The model's server copies and writes in any order;
  `CopyPairs` says what holds: the sources are those of the copies named, and they
  are paired when the copies were made in the order of the UIDs.
* The fallback of SORT is said to return what the extension does
  (`rfc5256/sort.rs:4-7`). A server (RFC 5256) compares base subjects, takes the time
  of arrival for a missing Date and breaks ties by number; the code compares whole
  subjects (`sort.rs:445-458`), puts a message without a Date first (`sort.rs:471-474`),
  breaks ties by Date (`sort.rs:245`) and compares no address. `FallbackSorts` is
  about the values the code compares, and says nothing of the server's order.
* The header of a streamed APPEND announces `len as u32` (`client.rs:1130`) and `len`
  octets follow. The server takes those announced for the message; if the next one
  ends the line it completes the APPEND, and the call is Ok with the message cut
  short. `OutcomeTrue` asks for the whole message of the lengths that fit.
* An announcement handed in when the refresh timer of IDLE has elapsed is read
  by the DONE exchange and dropped (`rfc2177/idle.rs:290`). `ReportedWhileIdling`
  holds because it asks for a timer that stays quiet.
* LOGOUT wants the BYE and the tagged OK in one output. An exchange ends on a
  BYE (`send.rs:280`, `325`): read in two batches, a successful LOGOUT is
  `MissingTagged` (`rfc3501/logout.rs:118-126`).
* A BYE read with the command's OK makes a command that succeeded return `Bye`.
* STARTTLS takes any tagged line for consent (`rfc3501/starttls.rs:259`): after a
  NO the handshake is attempted.
* The octets a streamed FETCH has read past its completion are in a buffer of the
  coroutine, which the client drops with it (`rfc3501/fetch_stream.rs:164`,
  `client.rs:995`, `1062`): untagged data that comes with the completion is lost, and
  the next exchange may begin within a line. `LeftInStep` allows for it.
* FETCH, and the fallback of SORT, are keyed by sequence number
  (`rfc3501/fetch.rs:213`, `rfc5256/sort.rs:317`). An EXPUNGE announced between
  two chunks, or within one response to a UID command, mixes two messages.
  `AsTold` speaks of responses without EXPUNGE, `FallbackSorts` of calls during
  which nothing was announced, and of messages that agree on the addresses of the
  criteria (`Alike`), which the code does not compare; in the instance of
  `commands` every message has the same From.

Each property of a passing run has a mutant of the code in the model, next to
the definition it changes and marked as such, that the run catches.

## 5. What is proved

Every invariant and every safety property that a passing run checks is also a
theorem. The proofs hold for every value of the constants that meets the modules'
assumptions. Those are what the code's callers guarantee: the channel has a
positive capacity; a list of exchanges is not empty, and an exchange continues
only the command of the one just before it. Of the commands they say that names are
sequences of characters, criteria sequences of keys, and the values a key compares
natural numbers. One is about the server and not about the callers: no other wire
name there is decoded to a name of the caller (`NamesAssumption`). A wire form that
`encode` never writes may be one, since a run that is not valid base64 is decoded to
itself (`rfc3501/mailbox.rs:112-178`); such a mailbox would be listed under the
name of another.

`ImapSendProofs`. `TypeCorrect`, and `OwnCompletionHolds`: for any list of
exchanges and any server of the model, a returned status carries the tag of the
exchange's command and was given to it by the server. `OwnCompletion` speaks of
outputs only and is not inductive. The invariant `Inv` follows a status on its
way: every tagged message on the wire or in the fragmentizer was given by the
server (`FlightInv`), so was the one the exchange holds, and the exchange holds
it under its own tag (`TagInv`), so the outputs are honest (`OutsInv`). The tag
of a continuation is right because the caller continues only the exchange that
was just paused, whose output carries the tag of its command. `OkIsWritten`: an
OK is returned only of a command that was written whole. The server completes
the last exchange of a command once it has all of it, and no exchange is written
before it is begun (`WInv`); that the last exchange is the one that does not
prompt is `LastOfCommand`. `UntaggedKeepOrder`: no untagged response is lost,
repeated or overtaken on its way to the outputs. Two kinds of place hold one: the
outputs, the exchange under way, the fragmentizer and the wire, from the oldest to
the newest. The invariant `OInv` says that they are one ascending sequence
(`Chain`), that together with what an abandoned exchange had read they hold every
number given out, and that no number is in two of them. The fragmentizer and the
wire are one sequence there (`Flight`), because a read, which moves any number of
messages from one to the other, leaves it as it is. What a step does to a chain is
one of five lemmas: a response is sent at its end, taken from the sequence, kept by
the exchange, stored with its output, or dropped.

`WatchStreamProofs`. `TypeCorrect`; `ClosesInTime`; `InOrder`; `NotSilent`;
and `Refinement`, that the watch stream implements `EventStream`. The worker has
an item in hand exactly while it sends and the receiver is dropped only after it
stopped (`BaseCorrect`); the items delivered, queued and in hand are then always
the events from 1 to the last, with at most an error after them, and an error
only behind a worker that has stopped or is about to (`LogCorrect`). Each step
of the worker or the consumer maps to a step of `EventStream` or a stutter:
handing an item to the channel moves it within the abstract queue, and is one.
`ClosesInTime`: once the flag is set, a deadline or a step that has run out leads to
the next look at the flag, and from there to the end; what is invariant is that none
has run out yet, or that the worker is between the one that did and that look.

`SessionOpenProofs`. For any set of mechanisms and any number of lines the server
sends in clear: `TypeCorrect`, `UpgradeIsClean`, `PayloadOrder`,
`SuccessIsAuthenticated` and `FreshCapability`. None of the last four is
inductive: they speak of a session that has ended, and what makes them true is
older. The invariant adds what has not begun (`Unstarted`: no payload and no ID
before the authentication, nothing observed before it has an answer), how many
payloads were written for the challenges answered (`Numbered`), that the server
and the mechanism have consented as soon as the coroutine looks at capabilities
or ID (`Consented`), that the session is past the clear phase once STARTTLS was
consumed (`Sealed`), and of which phase the lists held are (`Fresh`).

`CommandsProofs`. `OutcomeIsTrue`, for any names, lengths, sets and sort criteria
and any number of commands and changes: a command that returned Ok was executed,
one that was refused was not, and a streamed APPEND stored the message whole if
its length fits the literal. `OutcomeTrue` speaks of calls that have returned;
the invariant `OInv` follows the call: it was not executed before it was sent
whole and was executed from then on (`Staged`), a tagged OK stands only for an
executed command and a refusal only for one that was not (`Statuses`), and the
APPEND on the wire announces the length of the message (`Announced`). Every
action does one of seven things to a call (`Shape`): each action is shown to have
one of these shapes, and each shape to preserve the invariant. All it assumes is
that the lengths are natural numbers and that the width of a literal is positive.

`RawIsVerbatim`, in the same module, is about the raw passthrough: for any batch,
any untagged responses and any way their lines and literals are split into reads,
an Ok returns the whole messages read, from the first on, and every command of the
batch was completed by one of them; the call fails at the end of the stream only
when one was not. `Batched` says that an exchange is a raw one for the client and
for the server alike, and `Capturing` what such a call holds: the response is the
part of the fragments read that ends with the last line (`Whole`), and the pending
tags are those of the batch that no message of one line completes (`Completions`).
A read keeps both because of what a server sends: a message that begins with a tag
is a completion, and anything else begins with none (`RawAssumption`, which the
code's own reading of a tag shares, `raw.rs:228`). A literal or the line after it may
read like a completion all the same. The lemmas on prefixes (`WholeFacts`,
`PrefixCompletes`, `WholeCompletes`, `PrefixGrows`) carry the argument.

`CommandsTyped`, in the second half of the module, says that the state of `Commands`
keeps its types, for any INBOX, names, commands and changes: it assumes that the names are finitely
many (`NamesAssumption`) and the bounds natural numbers (`MaxAssumption`). Three of
the types are more than they seem. INBOX holds no UID twice and all of them are below
the next one given (`Boxed`), and no message has two numbers in the numbering
announced (`Numbered`); an EXPUNGE keeps both since it leaves elements of the sequence
in their order (`AtFacts`), and what is announced as new is not numbered yet
(`FreshNumbered`). A raw call never captures more than it has read: that follows from
`Capturing` above. And what the fallback of SORT keeps between its commands are
numbers of messages (`Sorting`), which is true of what it reads because every FETCH
entry of an output is of a number announced and every SEARCH by number answers with
those (`Answered`), whatever else was announced in between; the numbering may shrink
only while no SEARCH by number is answered.

`CommandsToldProofs`. `ReturnsAsTold`: what FETCH, STORE and SELECT return is the
mailbox as it was announced, for the same constants. It speaks of the moment a call
returns; between the answer of the server and that moment more may be announced. Two
invariants of the output under way hold through it. Of a FETCH or a STORE, every entry
is about the message its number stands for, and the last entry about a message has the
flags announced last (`Flagging`), as long as no EXPUNGE was read: an announcement
keeps that because it has an entry for every message whose flags it changes
(`SpeaksConcat`). Of a SELECT that was executed, the last count is that of the
numbering, and the one VANISHED denotes the known messages outside it (`Selecting`): a
message that arrives was not known, and no EXPUNGE may be sent before the SELECT is
done. The two maps and the ranges then follow from what is kept of a sequence of
responses (`FetchMapItems`, `LastOfFacts`, `VanishedFacts`).

`CopiesPair`, in the same module: however the messages were copied and listed, the
sources of a COPYUID are those of the copies its destinations name, and the n-th was
copied to the n-th when the copies were made in the order of the UIDs. The code reads
two sets written separately and sorts each. A set of numbers has only one enumeration
from the least up (`OneEnumeration`), so both come out in order however they were
listed (`ListingRead`); the copies have the UIDs from 1 on (`CopyUids`), and the
destinations name the ones just made. Every code in the output, tagged or untagged,
then speaks of copies that were made (`CodesPair`, `Copying`).

`CommandsReturnProofs`. `NamesAreExact`: of the caller's mailboxes, LIST and LSUB return
those that are there, under the names it gave, for names of any length. That decoding
inverts encoding is `ComesBack`. Both are folds over a sequence, and the invariant of
the first (`Holds`) speaks of the second: the characters outside ASCII that are held are
the last ones seen (`Heeded`), and of any wire form that begins with what was written so
far, the decoder has made the characters before these when it gets there (`Undone`). A
dash closes the run before any other character, which is why the decoder is outside a
run again. The server then has the wire forms of the caller's names and the other names
there (`KeptWires`), no two of its names sharing one; what LIST and LSUB have read is
these (`ListShows`).

`SortsInOrder`, in the same module: the fallback of SORT returns the messages the search
found and that are still there, each once, in the order the criteria give to what their
items carry, for any criteria and chunks of any size. It holds for calls during which
nothing was announced and for messages that agree on the keys the code compares as
equal, the addresses (`Alike`). That a message that arrives is not among those sought
rests on `RankedNow`: numbers grow with UIDs, in INBOX and in what the session was told
of it, at any time. Three invariants say how the fallback gets there (`Chunks`): the ids
the search gives stand for messages of the numbering (`SearchRead`); what a chunk adds
is about messages sought, with every item the criteria need, and each message sought
that is still in INBOX is fetched or in a chunk to come (`FetchRead`); a message that
arrives meanwhile is none of those sought, its UID being above theirs
(`SearchedBelow`). The sort itself places a message by the number of those before it. As
"before" is a strict order of the messages (`WinsOrder`), the places are those from 1
to their number and each is taken once (`PlacedFacts`, `LocalOrder`).

`MailboxWatchProofs`. `NeverRekeyed` and `ShadowFollowsServer`, for any UIDs,
flags and number of changes and refreshes: the shadow is the mailbox as the
server answered, after a snapshot and after QRESYNC deltas, and the UIDVALIDITY
the watch keeps is that of the mailbox its shadow was read from. A QRESYNC names
only what changed since a remembered mod-sequence, so the invariant `SInv` says
what makes that enough: up to that mod-sequence the view is the mailbox as it is
now (`Synced`), as long as the mailbox was not re-created, and the view patched
with the answer is the view of the answer (`Patches`). A step of the watch, the
server or another client that touches none of this is one of a few shapes (`Goes`,
`Acknowledges`, `Tells`, `Touches`); the others are proved one by one.

The second half of the module goes on from `SInv` to what a consumer sees, for the
same constants: `TypeCorrect`, `ReplicaFollowsShadow`, that the events handed out and
those pending, applied to the baseline, give the shadow, and `EventsMakeSense`,
that the next one fits what the consumer then holds. Neither is inductive, since
they speak of a fold over the events and of the first of them. The invariant is
that the pending events run from the consumer's copy of the mailbox to the shadow:
there are copies in between, the first event fits the first of them and leads to
the second, and so on (`Runs`). An event handed over shortens the run by its first
step. The deltas of a resync extend it: the events of one message lead from the copy
to the copy with that message as answered, and those of all of them, in the order of
the UIDs, to the copy as answered (`DeltasRun`). Both halves are by induction, over the events and over the
messages.

`FetchStreamProofs`. `TypeCorrect`, `ScanIsSound` and `BodiesAreExact`, for any
bodies, limits and plan of the server, any longest line from two octets on, and
any splits and cuts: a sink holds the beginning of its own body and nothing else,
and a committed sink the whole of it. The octets are described by what follows
what (`Follows`): an octet of a body by the next, the last by a line, a header by
the body it announces. Reads, cuts and lines taken off leave a stretch of the
same octets and so keep it (`Chain`). The coroutine then only has to know the
octet that comes first: the start of a line between bodies (`AtLine`), the next
octet of the body within one, of which the sink has those before (`InBody`).
After an unfinished literal of the command before, the fragmentizer is a line
behind, and the late completion ends the fetch before any body (`Lagging`).

Its second half, `OkIsAll` and `LeavesInStep`, for the same constants: a fetch
that ends on its own OK handed over every body, and one that ends on its own
completion leaves nothing of its response to the next exchange, in the fragmentizer
or on the wire. Both speak of the end of a
script that may begin with what is left of another command. The script is read by
the lines that make a difference (`Telling`): the header of each message, then the
completion, which are all there are of them (`ScriptSays`). The invariant `EInv` has
an offset: that many octets of the script were taken, all others are still to come
unless the connection broke (`Sent`), and those taken hold the first n of these
lines (`Past`). What was handed over is told by n (`Handed`). A line taken that
makes a difference is the next one of them (`LineTaken`), so a header opens the
sink of the next message and a completion comes after the last. An octet of a body
ends no such line, since the octets of the model carry their place.

Only model-checked: the liveness properties, `ExchangeEnds`,
`EventsReachConsumer`, `CloseReturnsWithRoom`, `ReportedWhileIdling`,
`ShutdownEnds`, `FetchEnds` and `SessionEnds`, since fairness and ENABLED are
outside the prover's reach; and that the properties of section 4 fail, which is a
matter of one behaviour each. The library's induction theorems cannot be
instantiated by the provers; where induction was needed above, it was done by
hand, on the least number for which a fact fails (`Least`, `Induct`).

## 6. Not modelled

Text: formatting, parsing inside a message, logging, secrets. Limits on the
length of a message, which fail the exchange like an undecodable one; the limits
on a line of a streamed FETCH and of STARTTLS are modelled. An error of a sink or
of a write, which stops the driver. The fields of EXAMINE and SELECT other than
EXISTS and the QRESYNC data, FETCH items without a UID in the watch, and the two
refusals of a QRESYNC select before anything is sent. The `*` of a VANISHED range,
which `uid_ranges` reads as the largest UID: RFC 7162 does not allow it there and
the model's server does not write it. What a SASL mechanism computes, which is
another crate. The parameters of ID, and ID sent by
itself. The DONE that follows an IDLE the server ended by
itself, and a refresh interval shorter than the
round trip of DONE. The timeouts set on the socket, and the panics of the worker
thread. `client/connect.rs` opens sockets and has no protocol state.

## 7. Plan

What is left, in this order:

1. IDLE whose DONE is not answered, after the server ended it, with the read
   deadline of the driver; IDLE refreshed without end.
2. Two exchanges in a row of which the first is a streamed FETCH, to show what the
   octets lost with its coroutine do to the second.
