--------------------------- MODULE CommandsProofs ----------------------------
(***************************************************************************)
(* Proofs that a call says what the server did, that a raw call returns    *)
(* what it sent, and that the state of the commands keeps its types, for   *)
(* every mailbox, set of names, batch and answer, and any number of        *)
(* commands and of changes by other clients.                               *)
(*                                                                         *)
(* OutcomeTrue and RawVerbatim speak of calls that have returned.  The     *)
(* invariant follows the exchange: before the server executes the command  *)
(* nothing in it can be an OK, and after it nothing can be a refusal; what *)
(* a raw call has captured is every whole message read, and its pending    *)
(* tags are those that none of them completes.                             *)
(*                                                                         *)
(* INBOX and its numbering are sequences of which an EXPUNGE leaves some   *)
(* elements (At).  Each holds a message at most once, so each is as long   *)
(* as there are UIDs at most.  What the fallback of SORT keeps between its *)
(* commands is read from responses; the invariant says of those which      *)
(* messages they number (Answered).                                        *)
(***************************************************************************)
EXTENDS Commands, SequenceTheorems, NaturalsInduction, WellFoundedInduction,
        FiniteSetTheorems, TLAPS

Waiting == {"header", "stream", "sent"}

Staged ==
  /\ phase \in Exchanging \cup {"idle", "closed"}
  /\ phase \in Waiting => ~ran
  /\ phase = "served" => ran
  /\ result.status # "none" => phase \in {"idle", "closed"}

Statuses ==
  /\ DOMAIN out = DOMAIN NoOutput
  /\ out.tagged \in {{}, {"Ok"}, {"No"}, {"Bad"}}
  /\ out.tagged = {"Ok"} => ran
  /\ out.tagged \in {{"No"}, {"Bad"}} => ~ran

Returns ==
  /\ result.status = "Ok" /\ cmd.op # "Raw" => ran
  /\ result.status \in {"No", "Bad"} => ~ran

\* What a streamed APPEND stored is as long as its header announced.
Announced ==
  cmd.op = "AppendStream" =>
    /\ cmd.len \in Nat /\ req.op = "APPEND" /\ req.len = cmd.len % LiteralWidth
    /\ ran => stored = req.len

\* A raw call under way: what it has captured and what it still waits for.
Capturing ==
  LET read == SubSeq(lines, 1, taken)
  IN /\ lines \in Seq(Fragment) /\ taken \in 0..Len(lines)
     /\ req.tags \subseteq Nat \ {0}
     /\ \A k \in DOMAIN lines :
          Begins(lines, k) => lines[k].tag = 0 \/ lines[k].kind = "line"
     /\ out.data = SubSeq(lines, 1, Whole(read))
     /\ pending = req.tags \ Completions(read) /\ pending # {}

Batched ==
  phase \in Exchanging /\ (cmd.op = "Raw" \/ req.op = "RAW") =>
    phase = "sent" /\ cmd.op = "Raw" /\ req.op = "RAW" /\ Capturing

OInv == Staged /\ Statuses /\ Returns /\ Announced /\ Batched /\ RawVerbatim
-----------------------------------------------------------------------------
(* What the actions do to the call, whichever command it is of.            *)

\* What the properties need to know of a command and of its wire form.
Asked(c, r) ==
  /\ c.op \notin {"none", "Raw"} /\ r.op # "RAW"
  /\ c.op = "AppendStream" =>
       c.len \in Nat /\ r.op = "APPEND" /\ r.len = c.len % LiteralWidth
  /\ r.op = "APPEND" => r.len \in Nat
  /\ r.op = "STORE" => r.flag \in BOOLEAN
  /\ r.op \in {"CREATE", "DELETE", "RENAME", "SUBSCRIBE", "UNSUBSCRIBE"} =>
       c.mailbox \in Names /\ r.mailbox = EncodeInplace(c.mailbox)
  /\ r.op = "RENAME" => c.to \in Names /\ r.to = EncodeInplace(c.to)
  /\ c.op = "Sort" =>
       /\ c.criteria \in Criteria /\ c.uid \in BOOLEAN /\ r.uid = c.uid
       /\ r.op \in {"SORT", "SEARCH", "FETCH"} /\ (c.fallback => r.op # "SORT")
       /\ r.op = "FETCH" => r.names = FetchItems(c.criteria, c.uid)
  /\ c.op = "Copy" => r.op = "COPY"
  /\ c.op = "Move" => r.op = "MOVE"
  /\ c.op = "List" => r.op = "LIST"
  /\ c.op = "Lsub" => r.op = "LSUB"
  /\ c.op = "Fetch" => r.op = "FETCH" /\ "Flags" \in r.names
  /\ c.op = "Store" => r.op = "STORE" /\ ~r.silent
  /\ c.op \in {"Select", "Examine"} =>
       r.op \in {"SELECT", "EXAMINE"} /\ r.qresync = c.qresync

\* What the commands return of whose values something is proved.
Reported == {"Fetch", "Store", "Select", "Examine", "Copy", "Move", "List", "Lsub"}
Reading(op, o) ==
  CASE op = "Fetch" -> FetchMap(o)
    [] op = "Store" -> StoreMap(o)
    [] op = "Copy" -> CopyUidFromCode(o.code)
    [] op = "Move" -> MoveUids(o)
    [] op \in {"List", "Lsub"} -> Decoded(Values(OfType(o, IF op = "List" THEN "List" ELSE "Lsub")))
    [] OTHER -> SelectData(o)

Starts ==
  /\ out' = NoOutput /\ ran' = FALSE
  /\ phase' \in Waiting /\ result' = NoResult
  /\ Asked(cmd', req') /\ (cmd'.op = "Sort" => req'.op # "FETCH")
  /\ commands < MaxCommands /\ commands' = commands + 1
  /\ heard' = FALSE /\ pending' = {} /\ lines' = <<>> /\ taken' = 0
  /\ remaining' = <<>> /\ fetched' = <<>> /\ searched' = {}
  /\ UNCHANGED <<srvVars, changes>>

Reads ==
  /\ phase \in Exchanging /\ phase' \in {"idle", "closed"}
  /\ cmd.op # "Raw" /\ result'.status \notin {"none", "Eof"}
  /\ result'.status = "Ok" => "Ok" \in out.tagged
  /\ result'.status \in {"No", "Bad"} => result'.status \in out.tagged
  /\ cmd.op \in Reported /\ result'.status = "Ok" =>
       result'.value = Reading(cmd.op, out)
  /\ cmd.op = "Sort" /\ req.op # "SORT" /\ result'.status = "Ok" => SortSearched \/ SortFetched
  /\ UNCHANGED Kept

Advances ==
  /\ phase \in {"header", "stream"} /\ phase' \in Waiting
  /\ out' = out \/ out' = NoOutput
  /\ UNCHANGED <<cmd, req, result, rawVars, ran, heard, commands, sortVars, srvVars, changes>>

FetchesNext ==
  /\ phase \in Exchanging /\ phase' = "sent" /\ cmd.op = "Sort"
  /\ SortSearched \/ SortFetched
  /\ req'.op = "FETCH" /\ out' = NoOutput /\ ran' = FALSE
  /\ UNCHANGED <<cmd, result, rawVars, heard, commands, srvVars, changes>>

Serves ==
  /\ req.op # "RAW" /\ phase = "sent" /\ phase' = "served" /\ ran' = TRUE
  /\ out.tagged = {} /\ out'.tagged = {} /\ DOMAIN out' = DOMAIN out
  /\ UNCHANGED <<cmd, req, result, rawVars, heard, commands, sortVars, changes>>
  /\ req.op = "APPEND" => stored' = req.len

Concludes ==
  /\ req.op # "RAW" /\ out.tagged = {} /\ DOMAIN out' = DOMAIN out
  /\ \/ phase = "served" /\ out'.tagged = {"Ok"}
     \/ phase \in Waiting /\ out'.tagged \in {{"No"}, {"Bad"}}
  /\ UNCHANGED <<cmd, req, phase, result, ran, stored, rawVars, heard, commands, sortVars, changes>>

Keeps ==
  /\ out'.tagged = out.tagged /\ DOMAIN out' = DOMAIN out
  /\ out' = out \/ (phase \in Exchanging /\ (req.op # "RAW" \/ phase = "header"))
  /\ heard' \in {heard, TRUE} /\ (UNCHANGED changes \/ Changes)
  /\ UNCHANGED <<cmd, req, phase, result, ran, stored, rawVars, commands, sortVars>>

Shape ==
  \/ Starts \/ Reads \/ Advances \/ FetchesNext \/ Serves \/ Concludes \/ Keeps
  \/ Raw \/ SrvRaw

-----------------------------------------------------------------------------
(* Reading the output.                                                     *)

\* The status read is the tagged one (noop.rs:121-145).
LEMMA StatusOf ==
  ASSUME NEW o, o.tagged \in {{}, {"Ok"}, {"No"}, {"Bad"}}
  PROVE  /\ Status(o) \notin {"none", "Eof"}
         /\ Status(o) = "Ok" => "Ok" \in o.tagged
         /\ Status(o) \in {"No", "Bad"} => Status(o) \in o.tagged
<1>1. o.tagged # {} => (CHOOSE k \in {"Ok", "No", "Bad"} : k \in o.tagged) \in o.tagged
  <2> SUFFICES ASSUME o.tagged # {}
               PROVE  (CHOOSE k \in {"Ok", "No", "Bad"} : k \in o.tagged) \in o.tagged
    OBVIOUS
  <2>1. \E k \in {"Ok", "No", "Bad"} : k \in o.tagged
    OBVIOUS
  <2>2. QED
    BY <2>1, Zenon
<1>2. QED
  BY <1>1 DEF Status

\* Every command reads its output alike, and keeps it.
LEMMA ReturnReads ==
  ASSUME phase \in Exchanging, UNCHANGED Kept, NEW s, NEW v, Return(s, v),
         cmd.op # "Raw", s \notin {"none", "Eof"}, s = "Ok" => "Ok" \in out.tagged,
         s \in {"No", "Bad"} => s \in out.tagged,
         cmd.op \in Reported /\ s = "Ok" =>
           v = Reading(cmd.op, out),
         cmd.op = "Sort" /\ req.op # "SORT" /\ s = "Ok" => SortSearched \/ SortFetched
  PROVE  Reads
BY DEF Reads, Return

\* A coroutine that ends with its exchange reads the output.
LEMMA CompletesReads ==
  ASSUME Statuses, Ended, UNCHANGED Kept, NEW v, Return(Status(out), v), cmd.op # "Raw",
         cmd.op \in Reported /\ Status(out) = "Ok" =>
           v = Reading(cmd.op, out),
         cmd.op = "Sort" /\ req.op # "SORT" /\ Status(out) = "Ok" => SortSearched \/ SortFetched
  PROVE  Reads
<1>1. phase \in Exchanging
  BY DEF Ended, Exchanging
<1>2. out.tagged \in {{}, {"Ok"}, {"No"}, {"Bad"}}
  BY DEF Statuses
<1>3. QED
  BY <1>1, <1>2, StatusOf, ReturnReads

\* An error of the exchange is neither an OK nor a refusal.
LEMMA FailureReads ==
  ASSUME phase \in Exchanging, UNCHANGED Kept, NEW s, NEW v, Return(s, v),
         s \notin {"Ok", "No", "Bad", "none", "Eof"}, cmd.op # "Raw"
  PROVE  Reads
BY ReturnReads

\* A new call starts with an empty output and nothing executed.
LEMMA CallStarts ==
  ASSUME NEW c, NEW r, NEW f \in Waiting, Call(c, r, f), Asked(c, r), c.op = "Sort" => r.op # "FETCH"
  PROVE  Starts
BY DEF Call, Starts

\* A command that is sent whole starts waiting for its answer.
LEMMA SendsStarts ==
  ASSUME NEW c, NEW r, Sends(c, r), Asked(c, r), c.op = "Sort" => r.op # "FETCH"
  PROVE  Starts
BY CallStarts DEF Sends, Waiting

\* So does one that names a mailbox.
LEMMA NamedStarts ==
  ASSUME NEW op, NEW wire, Named(op, wire),
         op \in {"Create", "Delete", "Subscribe", "Unsubscribe"},
         wire \in {"CREATE", "DELETE", "SUBSCRIBE", "UNSUBSCRIBE"}
  PROVE  Starts
<1>1. PICK m \in Names :
        Sends([op |-> op, mailbox |-> m], [op |-> wire, mailbox |-> EncodeInplace(m)])
  BY DEF Named
<1>2. Asked([op |-> op, mailbox |-> m], [op |-> wire, mailbox |-> EncodeInplace(m)])
  BY DEF Asked
<1>3. QED
  BY <1>1, <1>2, SendsStarts

-----------------------------------------------------------------------------
(* The commands.                                                           *)

\* Each command on mailboxes starts a call or reads its output.
LEMMA MailboxSteps ==
  ASSUME Statuses, MailboxCommands
  PROVE  Starts \/ Reads
<1>1. CASE Create
  BY <1>1, CompletesReads, NamedStarts DEF Create, Completes, Reported
<1>2. CASE Delete
  BY <1>2, CompletesReads, NamedStarts DEF Delete, Completes, Reported
<1>3. CASE Subscribe
  BY <1>3, CompletesReads, NamedStarts DEF Subscribe, Completes, Reported
<1>4. CASE Unsubscribe
  BY <1>4, CompletesReads, NamedStarts DEF Unsubscribe, Completes, Reported
<1>5. CASE Rename
  <2>1. ASSUME NEW m \in Names, NEW n \in Names,
               Sends([op |-> "Rename", mailbox |-> m, to |-> n],
                     [op |-> "RENAME", mailbox |-> EncodeInplace(m),
                      to |-> EncodeInplace(n)])
        PROVE  Starts
    BY <2>1, SendsStarts DEF Asked
  <2>2. QED
    BY <1>5, <2>1, CompletesReads DEF Rename, Completes, Reported
<1>6. CASE List
  BY <1>6, CompletesReads, SendsStarts DEF List, Asked, Completes, Reported, Reading
<1>7. CASE Lsub
  BY <1>7, CompletesReads, SendsStarts DEF Lsub, Asked, Completes, Reported, Reading
<1>8. CASE MailboxStatus
  <2>1. ASSUME NEW m,
               Sends([op |-> "Status", mailbox |-> m],
                     [op |-> "STATUS", mailbox |-> EncodeInplace(m)])
        PROVE  Starts
    BY <2>1, SendsStarts DEF Asked
  <2>2. QED
    BY <1>8, <2>1, CompletesReads DEF MailboxStatus, Completes, Reported
<1>9. CASE Select
  <2>1. ASSUME NEW q,
               Sends([op |-> "Select", qresync |-> q],
                     [op |-> "SELECT", mailbox |-> EncodeInplace(Inbox), qresync |-> q])
        PROVE  Starts
    BY <2>1, SendsStarts DEF Asked
  <2>2. QED
    BY <1>9, <2>1, CompletesReads DEF Select, Completes, Reading, Reported
<1>10. CASE Examine
  <2>1. ASSUME NEW q,
               Sends([op |-> "Examine", qresync |-> q],
                     [op |-> "EXAMINE", mailbox |-> EncodeInplace(Inbox), qresync |-> q])
        PROVE  Starts
    BY <2>1, SendsStarts DEF Asked
  <2>2. QED
    BY <1>10, <2>1, CompletesReads DEF Examine, Completes, Reading, Reported
<1>11. QED
  BY <1>1, <1>2, <1>3, <1>4, <1>5, <1>6, <1>7, <1>8, <1>9, <1>10 DEF MailboxCommands

\* So does each command on the session, a raw batch apart; LOGOUT wants the BYE
\* first.
LEMMA SessionSteps ==
  ASSUME Statuses, SessionCommands
  PROVE  Starts \/ Reads \/ Raw
<1>1. CASE Noop
  BY <1>1, CompletesReads, SendsStarts DEF Noop, Asked, Completes, Reported
<1>2. CASE Check
  BY <1>2, CompletesReads, SendsStarts DEF Check, Asked, Completes, Reported
<1>3. CASE Close
  BY <1>3, CompletesReads, SendsStarts DEF Close, Asked, Completes, Reported
<1>4. CASE Unselect
  BY <1>4, CompletesReads, SendsStarts DEF Unselect, Asked, Completes, Reported
<1>5. CASE Enable
  BY <1>5, CompletesReads, SendsStarts DEF Enable, Asked, Completes, Reported
<1>6. CASE Logout
  <2>1. CASE Sends([op |-> "Logout"], [op |-> "LOGOUT"])
    BY <2>1, SendsStarts DEF Asked
  <2>2. CASE /\ cmd.op = "Logout" /\ Ended
             /\ result' = [status |-> LogoutStatus(out), value |-> <<>>] /\ phase' = "closed"
             /\ UNCHANGED Kept
    <3> DEFINE o == [out EXCEPT !.bye = FALSE]
    <3> HIDE DEF o
    <3>1. o.tagged = out.tagged
      BY DEF o, Statuses, NoOutput
    <3>2. LogoutStatus(out) \in {"MissingBye", Status(o)}
      BY DEF LogoutStatus, o
    <3>3. /\ Status(o) \notin {"none", "Eof"}
          /\ Status(o) = "Ok" => "Ok" \in out.tagged
          /\ Status(o) \in {"No", "Bad"} => Status(o) \in out.tagged
      BY <3>1, StatusOf DEF Statuses
    <3>4. /\ LogoutStatus(out) \notin {"none", "Eof"}
          /\ LogoutStatus(out) = "Ok" => "Ok" \in out.tagged
          /\ LogoutStatus(out) \in {"No", "Bad"} => LogoutStatus(out) \in out.tagged
      BY <3>2, <3>3
    <3>5. phase \in Exchanging
      BY <2>2 DEF Ended, Exchanging
    <3>6. result'.status = LogoutStatus(out) /\ phase' \in {"idle", "closed"}
      BY <2>2
    <3>7. QED
      BY <2>2, <3>4, <3>5, <3>6 DEF Reads, Reported
  <2>3. QED
    BY <1>6, <2>1, <2>2 DEF Logout
<1>7. QED
  BY <1>1, <1>2, <1>3, <1>4, <1>5, <1>6 DEF SessionCommands

\* Missing data turns an OK into an error, never a refusal into an OK.
LEMMA RequiresReads ==
  ASSUME Statuses, Ended, UNCHANGED Kept, NEW s, NEW v, Return(s, v), cmd.op # "Raw",
         s \in {"MissingData", Status(out)},
         cmd.op \notin Reported, cmd.op # "Sort" \/ req.op = "SORT"
  PROVE  Reads
<1>1. CASE s = Status(out)
  BY <1>1, CompletesReads
<1>2. CASE s = "MissingData"
  BY <1>2, FailureReads DEF Ended, Exchanging, Reported
<1>3. QED
  BY <1>1, <1>2

\* SORT, or its fallback of SEARCH and FETCH (sort.rs:202-261).
LEMMA SortSteps ==
  ASSUME Statuses, Sort
  PROVE  Starts \/ Reads \/ FetchesNext
<1>1. CASE SortStart
  <2>1. ASSUME NEW c \in Criteria, NEW uid \in BOOLEAN, NEW fallback \in BOOLEAN,
               Sends([op |-> "Sort", uid |-> uid, fallback |-> fallback, criteria |-> c],
                     [op |-> IF fallback THEN "SEARCH" ELSE "SORT", uid |-> uid,
                      criteria |-> c])
        PROVE  Starts
    BY <2>1, SendsStarts DEF Asked
  <2>2. QED
    BY <1>1, <2>1 DEF SortStart
<1>2. CASE SortReplied
  BY <1>2, RequiresReads DEF SortReplied, Requires, Reported
<1>3. CASE SortFails
  BY <1>3, CompletesReads DEF SortFails, Reported
<1>4. ASSUME NEW ids, cmd.op = "Sort", Ended, NextFetch(ids), SortSearched \/ SortFetched
      PROVE  FetchesNext
  BY <1>4 DEF NextFetch, FetchRequest, FetchesNext, Ended, Exchanging
<1>5. CASE SortSearched
  BY <1>5, <1>4, CompletesReads DEF SortSearched, Reported
<1>6. CASE SortFetched
  BY <1>6, <1>4, CompletesReads DEF SortFetched, Reported
<1>7. QED
  BY <1>1, <1>2, <1>3, <1>5, <1>6 DEF Sort

\* The streamed APPEND: header, continuation request, body (append.rs).
LEMMA StreamSteps ==
  ASSUME Staged, Statuses, Batched, AppendStream
  PROVE  Starts \/ Reads \/ Advances
<1>1. CASE StreamHeader
  <2>1. PICK len \in Lengths, short \in BOOLEAN, nonSync \in BOOLEAN :
          Call([op |-> "AppendStream", len |-> len, short |-> short],
               AppendRequest(len % LiteralWidth), IF nonSync THEN "stream" ELSE "header")
    BY <1>1 DEF StreamHeader
  <2>2. len \in Nat
    BY LengthAssumption
  <2>3. /\ AppendRequest(len % LiteralWidth).op = "APPEND"
        /\ AppendRequest(len % LiteralWidth).len = len % LiteralWidth
    BY DEF AppendRequest
  <2>4. (IF nonSync THEN "stream" ELSE "header") \in Waiting
    BY DEF Waiting
  <2>5. Asked([op |-> "AppendStream", len |-> len, short |-> short],
              AppendRequest(len % LiteralWidth))
    <3>1. len % LiteralWidth \in Nat
      BY <2>2, ChunkAssumption
    <3>2. QED
      BY <2>2, <2>3, <3>1 DEF Asked
  <2>6. QED
    BY <2>1, <2>4, <2>5, CallStarts
<1>2. CASE StreamContinuation
  <2> cmd.op # "Raw"
    BY <1>2 DEF Batched, StreamContinuation, Exchanging
  <2>1. CASE out.bye \/ out.tagged # {}
    <3>1. /\ phase \in Exchanging /\ UNCHANGED Kept
          /\ Return(IF out.bye THEN "Bye"
                    ELSE IF "No" \in out.tagged THEN "No" ELSE "Bad", <<>>)
      BY <1>2, <2>1 DEF StreamContinuation, Exchanging, Kept
    <3>2. CASE out.bye
      BY <3>1, <3>2, ReturnReads
    <3>3. CASE ~out.bye /\ "No" \in out.tagged
      BY <3>1, <3>3, ReturnReads
    <3>4. CASE ~out.bye /\ "No" \notin out.tagged /\ out.tagged = {"Bad"}
      BY <3>1, <3>4, ReturnReads
    <3>5. CASE out.tagged = {"Ok"}
      BY <1>2, <3>5 DEF StreamContinuation, Staged, Statuses, Waiting
    <3>6. QED
      BY <2>1, <3>2, <3>3, <3>4, <3>5 DEF Statuses
  <2>2. CASE ~(out.bye \/ out.tagged # {})
    <3>1. /\ phase = "header" /\ phase' = "stream" /\ out' = NoOutput
          /\ UNCHANGED <<cmd, req, result, rawVars, ran, heard, commands, sortVars, srvVars,
                         changes>>
      BY <1>2, <2>2 DEF StreamContinuation
    <3>2. QED
      BY <3>1 DEF Advances, Waiting
  <2>3. QED
    BY <2>1, <2>2
<1>3. CASE StreamBody
  <2> cmd.op # "Raw"
    BY <1>3 DEF Batched, StreamBody, Exchanging
  <2>1. CASE cmd.short
    BY <1>3, <2>1, FailureReads DEF StreamBody, Exchanging, Reported
  <2>2. CASE ~cmd.short
    BY <1>3, <2>2 DEF StreamBody, Kept, Advances, Waiting
  <2>3. QED
    BY <2>1, <2>2
<1>4. CASE Completes("AppendStream", AppendOutput)
  BY <1>4, CompletesReads DEF Completes, Reported
<1>5. QED
  BY <1>1, <1>2, <1>3, <1>4 DEF AppendStream

\* Each command on messages.
LEMMA MessageSteps ==
  ASSUME Staged, Statuses, Batched, MessageCommands
  PROVE  Starts \/ Reads \/ FetchesNext \/ Advances
<1>1. CASE Expunge
  BY <1>1, CompletesReads, SendsStarts DEF Expunge, Asked, Completes, Reported
<1>2. CASE ExpungeUid
  <2>1. ASSUME NEW s,
               Sends([op |-> "ExpungeUid", set |-> s], [op |-> "EXPUNGE", set |-> s])
        PROVE  Starts
    BY <2>1, SendsStarts DEF Asked
  <2>2. QED
    BY <1>2, <2>1, CompletesReads DEF ExpungeUid, Completes, Reported
<1>3. CASE Fetch
  <2>1. ASSUME NEW s, NEW uid,
               Sends([op |-> "Fetch", uid |-> uid, set |-> s], FetchRequest(s, {"Flags"}, uid))
        PROVE  Starts
    BY <2>1, SendsStarts DEF FetchRequest, Asked
  <2>2. QED
    BY <1>3, <2>1, CompletesReads DEF Fetch, Completes, Reading, Reported
<1>4. CASE FetchFirst
  <2>1. ASSUME NEW id, NEW uid,
               Sends([op |-> "FetchFirst", uid |-> uid, id |-> id],
                     FetchRequest({id}, {"Flags"}, uid))
        PROVE  Starts
    BY <2>1, SendsStarts DEF FetchRequest, Asked
  <2>2. QED
    BY <1>4, <2>1, RequiresReads DEF FetchFirst, Requires, Reported
<1>5. CASE Store
  <2>1. ASSUME NEW s, NEW uid \in BOOLEAN, NEW flag \in BOOLEAN,
               Sends([op |-> "Store", uid |-> uid, set |-> s],
                     StoreRequest(s, uid, flag, FALSE))
        PROVE  Starts
    <3> DEFINE c == [op |-> "Store", uid |-> uid, set |-> s]
               r == StoreRequest(s, uid, flag, FALSE)
    <3>1. Asked(c, r)
      BY DEF StoreRequest, Asked
    <3>2. Sends(c, r) /\ c.op # "Sort"
      BY <2>1
    <3> HIDE DEF c, r
    <3>3. QED
      BY <3>1, <3>2, SendsStarts
  <2>2. QED
    BY <1>5, <2>1, CompletesReads DEF Store, Completes, Reading, Reported
<1>6. CASE StoreSilent
  <2>1. ASSUME NEW s, NEW uid \in BOOLEAN, NEW flag \in BOOLEAN,
               Sends([op |-> "StoreSilent", uid |-> uid, set |-> s],
                     StoreRequest(s, uid, flag, TRUE))
        PROVE  Starts
    <3> DEFINE c == [op |-> "StoreSilent", uid |-> uid, set |-> s]
               r == StoreRequest(s, uid, flag, TRUE)
    <3>1. Asked(c, r)
      BY DEF StoreRequest, Asked
    <3>2. Sends(c, r) /\ c.op # "Sort"
      BY <2>1
    <3> HIDE DEF c, r
    <3>3. QED
      BY <3>1, <3>2, SendsStarts
  <2>2. QED
    BY <1>6, <2>1, CompletesReads DEF StoreSilent, Completes, Reported
<1>7. CASE Copy
  <2>1. ASSUME NEW s, NEW uid, NEW m,
               Sends([op |-> "Copy", uid |-> uid, set |-> s],
                     [op |-> "COPY", uid |-> uid, mailbox |-> EncodeInplace(m), set |-> s])
        PROVE  Starts
    BY <2>1, SendsStarts DEF Asked
  <2>2. QED
    BY <1>7, <2>1, CompletesReads DEF Copy, Completes, Reported, Reading
<1>8. CASE Move
  <2>1. ASSUME NEW s, NEW uid, NEW m,
               Sends([op |-> "Move", uid |-> uid, set |-> s],
                     [op |-> "MOVE", uid |-> uid, mailbox |-> EncodeInplace(m), set |-> s])
        PROVE  Starts
    BY <2>1, SendsStarts DEF Asked
  <2>2. QED
    BY <1>8, <2>1, CompletesReads DEF Move, Completes, Reported, Reading
<1>9. CASE Search
  <2>1. ASSUME NEW uid,
               Sends([op |-> "Search", uid |-> uid], [op |-> "SEARCH", uid |-> uid])
        PROVE  Starts
    BY <2>1, SendsStarts DEF Asked
  <2>2. QED
    BY <1>9, <2>1, CompletesReads DEF Search, Completes, Reported
<1>10. CASE Thread
  <2>1. ASSUME NEW uid,
               Sends([op |-> "Thread", uid |-> uid], [op |-> "THREAD", uid |-> uid])
        PROVE  Starts
    BY <2>1, SendsStarts DEF Asked
  <2>2. QED
    BY <1>10, <2>1, RequiresReads DEF Thread, Requires, Reported
<1>11. CASE Sort
  BY <1>11, SortSteps
<1>12. CASE AppendStream
  BY <1>12, StreamSteps
<1>13. CASE AppendBuffered
  BY <1>13, CompletesReads, SendsStarts DEF AppendBuffered, Asked, AppendRequest, Completes, Reported
<1>14. CASE AppendUid
  BY <1>14, CompletesReads, SendsStarts DEF AppendUid, Asked, AppendRequest, Completes, Reported
<1>15. QED
  BY <1>1, <1>2, <1>3, <1>4, <1>5, <1>6, <1>7, <1>8, <1>9, <1>10, <1>11, <1>12, <1>13, <1>14
  DEF MessageCommands

-----------------------------------------------------------------------------
(* The server and the other clients.                                       *)

\* The server executes a command once, after it was sent whole.
LEMMA ExecutesServes ==
  ASSUME Statuses, NEW op, NEW data, NEW untagged, NEW code,
         Executes(op, data, untagged, code), op # "RAW",
         op = "APPEND" => stored' = req.len
  PROVE  Serves
<1>1. /\ phase = "sent" /\ phase' = "served" /\ ran' = TRUE /\ req.op = op
      /\ out.tagged = {}
      /\ UNCHANGED <<cmd, req, result, rawVars, heard, commands, sortVars, changes>>
  BY DEF Executes
<1>2. out'.tagged = out.tagged /\ DOMAIN out' = DOMAIN out
  BY DEF Executes, Statuses, NoOutput
<1>3. QED
  BY <1>1, <1>2 DEF Serves

\* One answered without a code is never an APPEND.
LEMMA AnswersServes ==
  ASSUME Statuses, NEW op, NEW data, Answers(op, data), op \notin {"APPEND", "RAW"}
  PROVE  Serves
BY ExecutesServes DEF Answers

\* It completes with an OK after it executed, and refuses before.
LEMMA TaggedConcludes ==
  ASSUME Statuses, NEW kind \in {"Ok", "No", "Bad"}, SrvTagged(kind),
         kind = "Ok" => phase = "served", kind # "Ok" => phase \in Waiting
  PROVE  Concludes
<1>1. out'.tagged = {kind} /\ DOMAIN out' = DOMAIN out
  BY DEF SrvTagged, Statuses, NoOutput
<1>2. /\ req.op # "RAW" /\ out.tagged = {}
      /\ UNCHANGED <<cmd, req, phase, result, ran, stored, rawVars, heard, commands, sortVars,
                     changes>>
  BY DEF SrvTagged
<1>3. QED
  BY <1>1, <1>2 DEF Concludes

\* What is announced during a call leaves its outcome alone.
LEMMA AnnouncesKeeps ==
  ASSUME Statuses, NEW data, Announces(data)
  PROVE  Keeps
<1>1. out'.tagged = out.tagged /\ DOMAIN out' = DOMAIN out
  BY DEF Announces, Statuses, NoOutput
<1>2. /\ phase \in Exchanging /\ req.op # "RAW"
      /\ heard' = TRUE
      /\ UNCHANGED <<cmd, req, phase, result, ran, stored, rawVars, commands, sortVars, changes>>
  BY DEF Announces, Exchanging, rawVars
<1>3. QED
  BY <1>1, <1>2 DEF Keeps

\* So does what other clients do.
LEMMA ChangesKeeps ==
  ASSUME Changes
  PROVE  Keeps
BY DEF Changes, Keeps, callVars

\* The commands on the selected mailbox.
LEMMA ReadingServer ==
  ASSUME Statuses, SrvPlain \/ SrvLeave \/ SrvSearch \/ SrvFetch \/ SrvStore \/ SrvExpunge
  PROVE  Serves
<1>1. CASE SrvPlain
  BY <1>1, AnswersServes DEF SrvPlain
<1>2. CASE SrvLeave
  BY <1>2, AnswersServes DEF SrvLeave
<1>3. CASE SrvSearch
  BY <1>3, AnswersServes DEF SrvSearch
<1>4. CASE SrvFetch
  BY <1>4, AnswersServes DEF SrvFetch
<1>5. CASE SrvStore
  BY <1>5, AnswersServes DEF SrvStore
<1>6. CASE SrvExpunge
  BY <1>6, AnswersServes DEF SrvExpunge
<1>7. QED
  BY <1>1, <1>2, <1>3, <1>4, <1>5, <1>6

\* Selecting a mailbox, and the names of the others.
LEMMA SelectingServer ==
  ASSUME Statuses, SrvSelect \/ SrvNames
  PROVE  Serves
<1>1. CASE SrvSelect
  <2>1. PICK op \in {"SELECT", "EXAMINE"} : \E data : Answers(op, data)
    BY <1>1 DEF SrvSelect
  <2>2. QED
    BY <2>1, AnswersServes
<1>2. CASE SrvNames
  BY <1>2, AnswersServes DEF SrvNames
<1>3. QED
  BY <1>1, <1>2

\* COPY, MOVE and APPEND, which store messages.
LEMMA CopyingServer ==
  ASSUME Statuses, SrvCopy \/ SrvMove \/ SrvAppend
  PROVE  Serves
<1>1. CASE SrvCopy
  BY <1>1, ExecutesServes DEF SrvCopy
<1>2. CASE SrvMove
  BY <1>2, ExecutesServes DEF SrvMove
<1>3. CASE SrvAppend
  BY <1>3, ExecutesServes DEF SrvAppend
<1>4. QED
  BY <1>1, <1>2, <1>3

\* Each step of the server.
LEMMA ServerSteps ==
  ASSUME Statuses, Server
  PROVE  Serves \/ Concludes \/ Keeps \/ SrvRaw
<1>1. CASE SrvLogout
  <2>1. out'.tagged = {} /\ DOMAIN out' = DOMAIN out /\ out.tagged = {}
    BY <1>1 DEF SrvLogout, NoOutput
  <2>2. /\ phase = "sent" /\ phase' = "served" /\ ran' = TRUE /\ req.op = "LOGOUT"
        /\ UNCHANGED <<cmd, req, result, rawVars, heard, commands, sortVars, changes>>
    BY <1>1 DEF SrvLogout
  <2>3. QED
    BY <2>1, <2>2 DEF Serves
<1>2. CASE SrvContinue \/ SrvBye
  <2>1. out'.tagged = out.tagged /\ DOMAIN out' = DOMAIN out
    <3>1. out' = [out EXCEPT !.cr = TRUE] \/ out' = [out EXCEPT !.bye = TRUE]
      BY <1>2 DEF SrvContinue, SrvBye
    <3>2. QED
      BY <3>1 DEF Statuses, NoOutput
  <2>2. /\ phase \in Exchanging /\ (req.op # "RAW" \/ phase = "header")
        /\ UNCHANGED <<cmd, req, phase, result, ran, stored, rawVars, commands, sortVars, heard,
                       changes>>
    BY <1>2 DEF SrvContinue, SrvBye, srvVars, rawVars, Exchanging
  <2>3. QED
    BY <2>1, <2>2 DEF Keeps
<1>3. CASE SrvOk
  <2>1. SrvTagged("Ok") /\ phase = "served"
    BY <1>3 DEF SrvOk
  <2>2. QED
    BY <2>1, TaggedConcludes
<1>4. CASE SrvRefuse
  <2>1. PICK kind \in {"No", "Bad"} : SrvTagged(kind)
    BY <1>4 DEF SrvRefuse
  <2>2. phase \in Waiting
    BY <1>4 DEF SrvRefuse, Waiting
  <2>3. QED
    BY <2>1, <2>2, TaggedConcludes
<1>5. CASE TellExpunge \/ TellExists \/ TellFlags
  BY <1>5, AnnouncesKeeps DEF TellExpunge, TellExists, TellFlags
<1>6. QED
  BY <1>1, <1>2, <1>3, <1>4, <1>5, ReadingServer, SelectingServer, CopyingServer
  DEF Server

\* Every step has one of the shapes.
LEMMA EveryStep ==
  ASSUME OInv, Next
  PROVE  Shape
<1> USE DEF OInv
<1>1. CASE SessionCommands \/ MailboxCommands
  BY <1>1, SessionSteps, MailboxSteps DEF Shape
<1>2. CASE MessageCommands
  BY <1>2, MessageSteps DEF Shape
<1>3. CASE ReadEof
  BY <1>3, FailureReads DEF ReadEof, Exchanging, Shape, Reported
<1>4. CASE Server
  BY <1>4, ServerSteps DEF Shape
<1>5. CASE OtherExpunge \/ OtherStore \/ OtherDeliver
  <2>1. Changes
    BY <1>5 DEF OtherExpunge, OtherStore, OtherDeliver
  <2>2. QED
    BY <2>1, ChangesKeeps DEF Shape
<1>6. QED
  BY <1>1, <1>2, <1>3, <1>4, <1>5 DEF Next

-----------------------------------------------------------------------------
(* The invariant.                                                          *)

\* A call that starts.
LEMMA StartsInv ==
  ASSUME Starts
  PROVE  OInv'
<1>1. Staged'
  BY DEF Starts, Staged, Waiting, Exchanging, NoResult
<1>2. Statuses'
  BY DEF Starts, Statuses, NoOutput
<1>3. Returns'
  BY DEF Starts, Returns, NoResult
<1>4. Announced'
  BY DEF Starts, Asked, Announced
<1>5. Batched' /\ RawVerbatim'
  BY DEF Starts, Asked, Batched, RawVerbatim, Returned, NoResult
<1>6. QED
  BY <1>1, <1>2, <1>3, <1>4, <1>5 DEF OInv

\* A call that returns.
LEMMA ReadsInv ==
  ASSUME OInv, Reads
  PROVE  OInv'
<1> USE DEF Kept, srvVars
<1>1. Staged'
  BY DEF OInv, Reads, Staged, Waiting, Exchanging
<1>2. Statuses'
  BY DEF OInv, Reads, Statuses
<1>3. Returns'
  BY DEF OInv, Reads, Statuses, Returns
<1>4. Announced'
  BY DEF OInv, Reads, Announced
<1>5. Batched' /\ RawVerbatim'
  BY DEF Reads, Batched, RawVerbatim, Returned, Exchanging
<1>6. QED
  BY <1>1, <1>2, <1>3, <1>4, <1>5 DEF OInv

\* A call that goes on.
LEMMA MovesInv ==
  ASSUME OInv, Advances \/ FetchesNext \/ Serves
  PROVE  OInv'
<1> USE DEF srvVars
<1>1. Staged'
  BY DEF OInv, Advances, FetchesNext, Serves, Staged, Waiting, Exchanging
<1>2. Statuses'
  <2>1. CASE out' = NoOutput
    BY <2>1 DEF Statuses, NoOutput
  <2>2. CASE out' = out /\ ran' = ran
    BY <2>2 DEF OInv, Statuses
  <2>3. CASE Serves
    BY <2>3 DEF OInv, Serves, Statuses
  <2>4. QED
    BY <2>1, <2>2, <2>3 DEF Advances, FetchesNext
<1>3. Returns'
  BY DEF OInv, Advances, FetchesNext, Serves, Returns, Staged, Waiting, Exchanging
<1>4. Announced'
  BY DEF OInv, Advances, FetchesNext, Serves, Announced
<1>5. Batched'
  BY DEF OInv, Advances, FetchesNext, Serves, Batched, Exchanging
<1>6. RawVerbatim'
  <2>1. result'.status = "none"
    BY DEF OInv, Advances, FetchesNext, Serves, Staged, Exchanging
  <2>2. QED
    BY <2>1 DEF RawVerbatim, Returned
<1>7. QED
  BY <1>1, <1>2, <1>3, <1>4, <1>5, <1>6 DEF OInv

\* A completion, and what changes nothing for the call.
LEMMA ConcludesInv ==
  ASSUME OInv, Concludes \/ Keeps
  PROVE  OInv'
<1> UNCHANGED <<cmd, req, phase, result, ran, stored, pending, lines, taken>>
  BY DEF Concludes, Keeps, rawVars
<1>1. Staged'
  BY DEF OInv, Staged
<1>2. Statuses'
  <2>1. CASE Concludes
    BY <2>1 DEF OInv, Concludes, Statuses, Staged, Waiting
  <2>2. CASE Keeps
    BY <2>2 DEF OInv, Keeps, Statuses
  <2>3. QED
    BY <2>1, <2>2
<1>3. Returns'
  BY DEF OInv, Returns
<1>4. Announced'
  BY DEF OInv, Announced
<1>5. Batched'
  <2>1. CASE out' = out /\ Keeps
    BY <2>1 DEF OInv, Keeps, Batched, Capturing
  <2>2. CASE phase \in Exchanging /\ (req.op # "RAW" \/ phase = "header")
    BY <2>2 DEF OInv, Concludes, Keeps, Batched
  <2>3. QED
    BY <2>1, <2>2 DEF Concludes, Keeps, Waiting, Exchanging
<1>6. RawVerbatim'
  <2>1. CASE Concludes
    <3>1. result'.status = "none"
      BY <2>1 DEF OInv, Concludes, Staged, Waiting, Exchanging
    <3>2. QED
      BY <3>1 DEF RawVerbatim, Returned
  <2>2. CASE Keeps
    BY <2>2 DEF OInv, Keeps, RawVerbatim, Returned
  <2>3. QED
    BY <2>1, <2>2
<1>7. QED
  BY <1>1, <1>2, <1>3, <1>4, <1>5, <1>6 DEF OInv

-----------------------------------------------------------------------------
(* The fragments of an answer to a raw batch.                              *)

\* A bounded set of numbers has a greatest one.
LEMMA Greatest ==
  ASSUME NEW n \in Nat, NEW S \in SUBSET (0..n), S # {}
  PROVE  Max(S) \in S /\ \A i \in S : i <= Max(S)
<1> DEFINE T == {j \in Nat : n - j \in S}
<1>1. T \in SUBSET Nat /\ T # {}
  <2>1. PICK i \in S : TRUE
    OBVIOUS
  <2>2. n - i \in Nat /\ n - (n - i) = i
    OBVIOUS
  <2>3. QED
    BY <2>1, <2>2
<1>2. PICK j \in T : \A k \in T : ~(<<k, j>> \in OpToRel(<, Nat))
  BY <1>1, WFMin, NatLessThanWellFounded, Zenon
<1>3. n - j \in S /\ j \in Nat
  OBVIOUS
<1>4. ASSUME NEW i \in S
      PROVE  n - j >= i
  <2>1. n - i \in T
    <3>1. n - i \in Nat /\ n - (n - i) = i
      OBVIOUS
    <3>2. QED
      BY <3>1
  <2>2. ~(n - i < j)
    BY <1>2, <2>1, Zenon DEF OpToRel
  <2>3. QED
    BY <1>3, <2>2
<1> HIDE DEF T
<1>5. \E x \in S : \A y \in S : x >= y
  BY <1>3, <1>4
<1>6. Max(S) \in S /\ \A y \in S : Max(S) >= y
  BY <1>5, Zenon DEF Max
<1>7. QED
  BY <1>6

\* The last whole message ends with the last line.
LEMMA WholeFacts ==
  ASSUME NEW f \in Seq(Fragment)
  PROVE  /\ Whole(f) \in 0..Len(f)
         /\ Whole(f) # 0 => f[Whole(f)].kind = "line"
         /\ \A k \in DOMAIN f : f[k].kind = "line" => k <= Whole(f)
<1> DEFINE L == {i \in DOMAIN f : f[i].kind = "line"}
           S == {0} \cup L
<1>1. DOMAIN f = 1..Len(f) /\ Len(f) \in Nat
  BY LenProperties
<1>2. S \in SUBSET (0..Len(f)) /\ S # {}
  BY <1>1
<1>3. Max(S) \in S /\ \A i \in S : i <= Max(S)
  <2> HIDE DEF S
  <2>1. QED
    BY <1>1, <1>2, Greatest
<1>4. Whole(f) = Max(S)
  BY DEF Whole
<1>5. QED
  BY <1>1, <1>3, <1>4

\* A prefix of what was sent.
LEMMA PrefixFacts ==
  ASSUME NEW f \in Seq(Fragment), NEW n \in 0..Len(f)
  PROVE  /\ SubSeq(f, 1, n) \in Seq(Fragment) /\ Len(SubSeq(f, 1, n)) = n
         /\ DOMAIN SubSeq(f, 1, n) = 1..n
         /\ \A i \in 1..n : SubSeq(f, 1, n)[i] = f[i]
<1>1. Len(f) \in Nat /\ \A i \in 1..n : f[i] \in Fragment
  BY LenProperties, ElementOfSeq
<1>2. /\ SubSeq(f, 1, n) \in Seq(Fragment)
      /\ Len(SubSeq(f, 1, n)) = IF 1 <= n THEN n - 1 + 1 ELSE 0
      /\ \A i \in 1..(n - 1 + 1) : SubSeq(f, 1, n)[i] = f[1 + i - 1]
  BY <1>1, SubSeqProperties
<1>3. Len(SubSeq(f, 1, n)) = n
  BY <1>2
<1>4. ASSUME NEW i \in 1..n
      PROVE  SubSeq(f, 1, n)[i] = f[i]
  <2>1. i \in 1..(n - 1 + 1) /\ 1 + i - 1 = i
    OBVIOUS
  <2>2. QED
    BY <1>2, <2>1
<1>5. QED
  BY <1>2, <1>3, <1>4, LenProperties

\* Two sequences of fragments with the same elements.
LEMMA SameFragments ==
  ASSUME NEW f \in Seq(Fragment), NEW g \in Seq(Fragment), Len(f) = Len(g),
         \A i \in 1..Len(f) : f[i] = g[i]
  PROVE  f = g
BY SeqEqual

\* Of a prefix, the messages of one line are those of the whole that fit in it.
LEMMA PrefixCompletes ==
  ASSUME NEW f \in Seq(Fragment), NEW n \in 0..Len(f), NEW t
  PROVE  t \in Completions(SubSeq(f, 1, n)) <=>
           \E k \in 1..n : Begins(f, k) /\ f[k].kind = "line" /\ f[k].tag = t
<1> DEFINE g == SubSeq(f, 1, n)
<1>1. DOMAIN g = 1..n /\ \A i \in 1..n : g[i] = f[i]
  BY PrefixFacts
<1> HIDE DEF g
<1>2. ASSUME NEW k \in 1..n
      PROVE  Begins(g, k) <=> Begins(f, k)
  <2>1. k # 1 => k - 1 \in 1..n
    OBVIOUS
  <2>2. QED
    BY <1>1, <2>1 DEF Begins
<1>3. t \in Completions(g) <=>
        \E k \in 1..n : Begins(g, k) /\ g[k].kind = "line" /\ g[k].tag = t
  BY <1>1 DEF Completions
<1>4. QED
  BY <1>1, <1>2, <1>3 DEF g

\* Only whole messages complete anything.
LEMMA WholeCompletes ==
  ASSUME NEW f \in Seq(Fragment), NEW n \in 0..Len(f), NEW w,
         w = Whole(SubSeq(f, 1, n))
  PROVE  /\ w \in 0..n
         /\ SubSeq(SubSeq(f, 1, n), 1, w) = SubSeq(f, 1, w)
         /\ Completions(SubSeq(f, 1, w)) = Completions(SubSeq(f, 1, n))
<1> DEFINE g == SubSeq(f, 1, n)
<1>1. /\ g \in Seq(Fragment) /\ Len(g) = n /\ DOMAIN g = 1..n
      /\ \A i \in 1..n : g[i] = f[i]
  BY PrefixFacts
<1>2. Len(f) \in Nat
  BY LenProperties
<1> HIDE DEF g
<1>3. w \in 0..n /\ \A k \in 1..n : f[k].kind = "line" => k <= w
  BY <1>1, WholeFacts DEF g
<1>4. SubSeq(g, 1, w) = SubSeq(f, 1, w)
  <2> DEFINE a == SubSeq(g, 1, w)
             b == SubSeq(f, 1, w)
  <2>1. w \in 0..Len(g) /\ w \in 0..Len(f)
    BY <1>1, <1>2, <1>3
  <2>2. a \in Seq(Fragment) /\ Len(a) = w /\ \A i \in 1..w : a[i] = g[i]
    BY <1>1, <2>1, PrefixFacts
  <2>3. b \in Seq(Fragment) /\ Len(b) = w /\ \A i \in 1..w : b[i] = f[i]
    BY <2>1, PrefixFacts
  <2> HIDE DEF a, b
  <2>4. \A i \in 1..w : a[i] = b[i]
    BY <1>1, <1>3, <2>2, <2>3
  <2>5. a = b
    BY <2>2, <2>3, <2>4, SameFragments
  <2>6. QED
    BY <2>5 DEF a, b
<1>5. ASSUME NEW t
      PROVE  t \in Completions(SubSeq(f, 1, w)) <=> t \in Completions(g)
  <2>1. w \in 0..Len(f)
    BY <1>2, <1>3
  <2>2. t \in Completions(SubSeq(f, 1, w)) <=>
          \E k \in 1..w : Begins(f, k) /\ f[k].kind = "line" /\ f[k].tag = t
    BY <2>1, PrefixCompletes
  <2>3. t \in Completions(g) <=>
          \E k \in 1..n : Begins(f, k) /\ f[k].kind = "line" /\ f[k].tag = t
    BY PrefixCompletes DEF g
  <2>4. QED
    BY <1>3, <2>2, <2>3
<1>6. Completions(SubSeq(f, 1, w)) = Completions(g)
  BY <1>5
<1>7. QED
  BY <1>3, <1>4, <1>6 DEF g

\* What was captured, and then what the next read makes whole.
LEMMA PrefixGrows ==
  ASSUME NEW f \in Seq(Fragment), NEW v \in 0..Len(f), NEW w \in v..Len(f)
  PROVE  SubSeq(f, 1, v) \o SubSeq(f, v + 1, w) = SubSeq(f, 1, w)
<1> DEFINE a == SubSeq(f, 1, v)
           b == SubSeq(f, v + 1, w)
           c == SubSeq(f, 1, w)
<1>1. Len(f) \in Nat /\ v \in Nat /\ w \in Nat /\ v <= w /\ w <= Len(f)
  BY LenProperties
<1>2. a \in Seq(Fragment) /\ Len(a) = v /\ \A i \in 1..v : a[i] = f[i]
  BY <1>1, PrefixFacts
<1>3. c \in Seq(Fragment) /\ Len(c) = w /\ \A i \in 1..w : c[i] = f[i]
  BY <1>1, PrefixFacts
<1>4. b \in Seq(Fragment) /\ Len(b) = w - v /\ \A i \in 1..(w - v) : b[i] = f[v + i]
  <2>1. \A i \in (v + 1)..w : f[i] \in Fragment
    BY <1>1, ElementOfSeq
  <2>2. /\ b \in Seq(Fragment)
        /\ Len(b) = IF v + 1 <= w THEN w - (v + 1) + 1 ELSE 0
        /\ \A i \in 1..(w - (v + 1) + 1) : b[i] = f[(v + 1) + i - 1]
    BY <1>1, <2>1, SubSeqProperties
  <2>3. w - (v + 1) + 1 = w - v /\ (~(v + 1 <= w) => w - v = 0)
    BY <1>1
  <2>4. \A i \in 1..(w - v) : (v + 1) + i - 1 = v + i
    BY <1>1
  <2> HIDE DEF b
  <2>5. QED
    BY <2>2, <2>3, <2>4
<1> HIDE DEF a, b, c
<1>5. /\ a \o b \in Seq(Fragment) /\ Len(a \o b) = v + (w - v)
      /\ \A i \in 1..(v + (w - v)) : (a \o b)[i] = IF i <= v THEN a[i] ELSE b[i - v]
  <2>1. /\ a \o b \in Seq(Fragment) /\ Len(a \o b) = Len(a) + Len(b)
        /\ \A i \in 1..(Len(a) + Len(b)) :
             (a \o b)[i] = IF i <= Len(a) THEN a[i] ELSE b[i - Len(a)]
    BY <1>2, <1>4, ConcatProperties, Zenon
  <2>2. Len(a) = v /\ Len(b) = w - v
    BY <1>2, <1>4
  <2>3. QED
    BY <2>1, <2>2, Zenon
<1>6. ASSUME NEW i \in 1..w
      PROVE  (a \o b)[i] = c[i]
  <2>1. i \in 1..(v + (w - v))
    BY <1>1
  <2>2. CASE i <= v
    <3>1. i \in 1..v
      BY <2>2
    <3>2. QED
      BY <1>2, <1>3, <1>5, <2>1, <2>2, <3>1
  <2>3. CASE ~(i <= v)
    <3>1. i - v \in 1..(w - v) /\ v + (i - v) = i
      BY <1>1, <2>3
    <3>2. (a \o b)[i] = b[i - v]
      BY <1>5, <2>1, <2>3
    <3>3. b[i - v] = f[i]
      BY <1>4, <3>1
    <3>4. QED
      BY <1>3, <3>2, <3>3
  <2>4. QED
    BY <2>2, <2>3
<1>7. a \o b = c
  <2>1. Len(a \o b) = w
    BY <1>1, <1>5
  <2>2. QED
    BY <1>3, <1>5, <1>6, <2>1, SameFragments
<1>8. QED
  BY <1>7 DEF a, b, c
-----------------------------------------------------------------------------
(* The raw batch.                                                          *)

\* Only a refusal tells of the input; it is none of the other outcomes.
LEMMA RefusalNames ==
  ASSUME NEW f
  PROVE  Refusal(f) \in
           {"MissingTag", "DuplicateTag", "IncompleteCommand", "NoCommand", "none"}
BY DEF Refusal

\* An input that is let through has messages, each with a tag.
LEMMA TagsOfInput ==
  ASSUME NEW f \in Seq(Fragment), Refusal(f) = "none"
  PROVE  Tags(f, 1, Len(f)) \subseteq Nat \ {0} /\ Tags(f, 1, Len(f)) # {}
<1> DEFINE heads == {i \in 1..Whole(f) : Begins(f, i)}
           bad == {i \in heads : f[i].tag \in {0} \cup Tags(f, 1, i - 1)}
<1>1. bad = {} /\ ~(Whole(f) < Len(f)) /\ heads # {}
  BY DEF Refusal
<1>2. Whole(f) = Len(f) /\ Len(f) \in Nat
  <2>1. Len(f) \in Nat /\ Whole(f) \in 0..Len(f)
    BY WholeFacts, LenProperties
  <2> HIDE DEF heads, bad
  <2>2. QED
    BY <1>1, <2>1
<1>3. \A i \in 1..Len(f) : f[i].tag \in Nat
  <2>1. \A i \in 1..Len(f) : f[i] \in Fragment
    BY ElementOfSeq
  <2>2. QED
    BY <2>1 DEF Fragment
<1>4. ASSUME NEW t \in Tags(f, 1, Len(f))
      PROVE  t \in Nat \ {0}
  <2>1. PICK k \in 1..Len(f) : Begins(f, k) /\ t = f[k].tag
    BY DEF Tags
  <2>2. k \in heads
    BY <1>2, <2>1
  <2>3. f[k].tag # 0
    BY <1>1, <2>2
  <2>4. QED
    BY <1>3, <2>1, <2>3
<1>5. Tags(f, 1, Len(f)) # {}
  <2>1. PICK k \in 1..Len(f) : Begins(f, k)
    BY <1>1, <1>2
  <2>2. f[k].tag \in Tags(f, 1, Len(f))
    BY <2>1 DEF Tags
  <2>3. QED
    BY <2>2
<1>6. QED
  BY <1>4, <1>5

\* A batch is sent: nothing was read, so every tag is still waited for.
LEMMA RawStartInv ==
  ASSUME RawStart
  PROVE  OInv'
<1>1. PICK f \in Batches :
        /\ Refusal(f) = "none"
        /\ cmd' = [op |-> "Raw"] /\ req' = [op |-> "RAW", tags |-> Tags(f, 1, Len(f))]
        /\ phase' = "sent" /\ pending' = Tags(f, 1, Len(f)) /\ lines' = <<>> /\ taken' = 0
        /\ out' = NoOutput /\ result' = NoResult /\ ran' = FALSE
  BY DEF RawStart
<1>2. cmd'.op = "Raw" /\ req'.op = "RAW" /\ req'.tags = Tags(f, 1, Len(f))
  BY <1>1
<1>3. Staged' /\ Returns' /\ Announced' /\ RawVerbatim'
  BY <1>1, <1>2
  DEF Staged, Returns, Announced, RawVerbatim, Returned, Exchanging, Waiting, NoResult
<1>4. Statuses'
  BY <1>1 DEF Statuses, NoOutput
<1>5. Capturing'
  <2>1. <<>> \in Seq(Fragment) /\ Len(<<>>) = 0 /\ DOMAIN <<>> = {}
    OBVIOUS
  <2>2. SubSeq(<<>>, 1, 0) = <<>>
    BY <2>1, SubSeqEmpty
  <2>3. Whole(<<>>) = 0
    <3> DEFINE e == <<>>
    <3>1. e \in Seq(Fragment) /\ Len(e) = 0
      OBVIOUS
    <3> HIDE DEF e
    <3>2. Whole(e) = 0
      <4>1. Whole(e) \in 0..Len(e)
        BY <3>1, WholeFacts
      <4>2. QED
        BY <3>1, <4>1
    <3>3. QED
      BY <3>2 DEF e
  <2>4. Completions(<<>>) = {}
    BY <2>1 DEF Completions
  <2>5. f \in Seq(Fragment)
    BY RawAssumption
  <2>6. Tags(f, 1, Len(f)) \subseteq Nat \ {0} /\ Tags(f, 1, Len(f)) # {}
    BY <1>1, <2>5, TagsOfInput
  <2>7. out'.data = <<>>
    BY <1>1 DEF NoOutput
  <2>8. /\ lines' \in Seq(Fragment) /\ taken' \in 0..Len(lines')
        /\ req'.tags \subseteq Nat \ {0} /\ DOMAIN lines' = {}
        /\ SubSeq(lines', 1, taken') = <<>>
    BY <1>1, <1>2, <2>1, <2>2, <2>6
  <2>9. out'.data = SubSeq(lines', 1, Whole(<<>>))
    BY <1>1, <2>2, <2>3, <2>7
  <2>10. pending' = req'.tags \ Completions(<<>>) /\ pending' # {}
    BY <1>1, <1>2, <2>4, <2>6
  <2>11. QED
    BY <2>8, <2>9, <2>10, Zenon DEF Capturing
<1>6. QED
  BY <1>1, <1>2, <1>3, <1>4, <1>5 DEF OInv, Batched

\* What a read captures completes what it says: of the messages it makes whole,
\* those that begin with a tag are one line.
LEMMA CapturedCompletes ==
  ASSUME Capturing, NEW n \in 1..(Len(lines) - taken), NEW from, NEW whole,
         from = Len(out.data) + 1, whole = Whole(SubSeq(lines, 1, taken + n))
  PROVE  /\ pending \ Captured(from, whole)
              = req.tags \ Completions(SubSeq(lines, 1, taken + n))
         /\ out.data \o SubSeq(lines, from, whole) = SubSeq(lines, 1, whole)
<1> DEFINE now == taken + n
           v == Whole(SubSeq(lines, 1, taken))
<1>1. /\ lines \in Seq(Fragment) /\ taken \in 0..Len(lines) /\ Len(lines) \in Nat
      /\ DOMAIN lines = 1..Len(lines)
  BY LenProperties DEF Capturing
<1>2. now \in 0..Len(lines) /\ now \in Nat /\ taken \in Nat /\ taken <= now
  BY <1>1
<1> HIDE DEF now
<1>3. /\ v \in 0..taken
      /\ \A k \in 1..taken : lines[k].kind = "line" => k <= v
  <2>1. /\ SubSeq(lines, 1, taken) \in Seq(Fragment)
        /\ Len(SubSeq(lines, 1, taken)) = taken /\ DOMAIN SubSeq(lines, 1, taken) = 1..taken
        /\ \A i \in 1..taken : SubSeq(lines, 1, taken)[i] = lines[i]
    BY <1>1, PrefixFacts
  <2>2. QED
    BY <2>1, WholeFacts
<1>4. /\ whole \in 0..now
      /\ whole # 0 => lines[whole].kind = "line"
      /\ \A k \in 1..now : lines[k].kind = "line" => k <= whole
  <2> DEFINE g == SubSeq(lines, 1, now)
  <2>1. /\ g \in Seq(Fragment) /\ Len(g) = now /\ DOMAIN g = 1..now
        /\ \A i \in 1..now : g[i] = lines[i]
    BY <1>1, <1>2, PrefixFacts
  <2>2. whole = Whole(g)
    BY DEF now
  <2> HIDE DEF g
  <2>3. QED
    BY <1>2, <2>1, <2>2, WholeFacts
<1>5. v <= whole
  <2>1. CASE v = 0
    BY <1>4, <2>1
  <2>2. CASE v # 0
    <3>1. lines[v].kind = "line"
      <4> DEFINE g == SubSeq(lines, 1, taken)
      <4>1. g \in Seq(Fragment) /\ \A i \in 1..taken : g[i] = lines[i]
        BY <1>1, PrefixFacts
      <4>2. g[v].kind = "line"
        BY <2>2, <4>1, WholeFacts
      <4> HIDE DEF g
      <4>3. QED
        BY <1>3, <2>2, <4>1, <4>2
    <3>2. v \in 1..now
      BY <1>2, <1>3, <2>2
    <3>3. QED
      BY <1>4, <3>1, <3>2
  <2>3. QED
    BY <2>1, <2>2
<1>6. out.data = SubSeq(lines, 1, v) /\ Len(out.data) = v /\ from = v + 1
  <2>1. v \in 0..Len(lines)
    BY <1>1, <1>3
  <2>2. out.data = SubSeq(lines, 1, v)
    BY DEF Capturing
  <2> HIDE DEF v
  <2>3. QED
    BY <1>1, <2>1, <2>2, PrefixFacts
<1> HIDE DEF v
<1>7. out.data \o SubSeq(lines, from, whole) = SubSeq(lines, 1, whole)
  <2>1. v \in 0..Len(lines) /\ whole \in v..Len(lines)
    BY <1>1, <1>2, <1>3, <1>4, <1>5
  <2>2. QED
    BY <1>1, <1>6, <2>1, PrefixGrows
<1>8. ASSUME NEW t \in req.tags
      PROVE  t \in Completions(SubSeq(lines, 1, now)) <=>
               t \in Completions(SubSeq(lines, 1, taken)) \/ t \in Captured(from, whole)
  <2>1. t \in Completions(SubSeq(lines, 1, now)) <=>
          \E k \in 1..now : Begins(lines, k) /\ lines[k].kind = "line" /\ lines[k].tag = t
    BY <1>1, <1>2, PrefixCompletes
  <2>2. t \in Completions(SubSeq(lines, 1, taken)) <=>
          \E k \in 1..taken : Begins(lines, k) /\ lines[k].kind = "line" /\ lines[k].tag = t
    BY <1>1, PrefixCompletes
  <2>3. t \in Captured(from, whole) <=>
          \E k \in from..whole : Begins(lines, k) /\ lines[k].tag = t
    BY DEF Captured, Tags
  <2>4. ASSUME NEW k \in from..whole, Begins(lines, k), lines[k].tag = t
        PROVE  k \in 1..now /\ lines[k].kind = "line"
    <3>1. k \in 1..now /\ k \in DOMAIN lines
      BY <1>1, <1>2, <1>3, <1>4, <1>6
    <3>2. t # 0
      BY DEF Capturing
    <3>3. QED
      BY <2>4, <3>1, <3>2 DEF Capturing
  <2>5. ASSUME NEW k \in 1..now, lines[k].kind = "line", k \notin 1..taken
        PROVE  k \in from..whole
    BY <1>2, <1>3, <1>4, <1>6, <2>5
  <2>6. 1..taken \subseteq 1..now
    BY <1>2
  <2>7. QED
    BY <2>1, <2>2, <2>3, <2>4, <2>5, <2>6
<1>9. pending \ Captured(from, whole) = req.tags \ Completions(SubSeq(lines, 1, now))
  <2>1. pending = req.tags \ Completions(SubSeq(lines, 1, taken))
    BY DEF Capturing
  <2>2. QED
    BY <1>8, <2>1
<1>10. QED
  BY <1>7, <1>9 DEF now

\* A read: the call ends when every tag was completed.
LEMMA RawReadInv ==
  ASSUME OInv, RawRead
  PROVE  OInv'
<1>1. PICK n \in 1..(Len(lines) - taken) :
        /\ cmd.op = "Raw" /\ phase = "sent"
        /\ taken' = taken + n
        /\ out' = [out EXCEPT !.data = @ \o SubSeq(lines, Len(out.data) + 1,
                                                    Whole(SubSeq(lines, 1, taken + n)))]
        /\ pending' = pending \ Captured(Len(out.data) + 1,
                                         Whole(SubSeq(lines, 1, taken + n)))
        /\ IF pending' = {} THEN Return("Ok", out'.data) ELSE UNCHANGED <<phase, result>>
        /\ UNCHANGED <<cmd, req, lines, ran, stored>>
  BY DEF RawRead, srvVars
<1> DEFINE now == taken + n
           whole == Whole(SubSeq(lines, 1, now))
<1>2. Capturing /\ req.op = "RAW"
  BY <1>1 DEF OInv, Batched, Exchanging
<1>3. /\ lines \in Seq(Fragment) /\ taken \in 0..Len(lines) /\ Len(lines) \in Nat
      /\ now \in 0..Len(lines)
  <2>1. lines \in Seq(Fragment) /\ taken \in 0..Len(lines) /\ Len(lines) \in Nat
    BY <1>2, LenProperties DEF Capturing
  <2>2. QED
    BY <2>1
<1>4. /\ pending' = req.tags \ Completions(SubSeq(lines, 1, now))
      /\ out.data \o SubSeq(lines, Len(out.data) + 1, whole) = SubSeq(lines, 1, whole)
  BY <1>1, <1>2, CapturedCompletes
<1>5. out'.data = SubSeq(lines, 1, whole) /\ out'.tagged = out.tagged /\ DOMAIN out' = DOMAIN out
  <2>1. DOMAIN out = DOMAIN NoOutput
    BY DEF OInv, Statuses
  <2>2. "data" \in DOMAIN out /\ "tagged" \in DOMAIN out
    BY <2>1 DEF NoOutput
  <2>3. QED
    BY <1>1, <1>4, <2>2
<1>6. /\ whole \in 0..now
      /\ SubSeq(SubSeq(lines, 1, now), 1, whole) = SubSeq(lines, 1, whole)
      /\ Completions(SubSeq(lines, 1, whole)) = Completions(SubSeq(lines, 1, now))
  BY <1>3, WholeCompletes
<1>7. taken' = now
  BY <1>1
<1> HIDE DEF now
<1>8. Statuses' /\ Announced'
  BY <1>1, <1>5 DEF OInv, Statuses, Announced
<1>9. CASE pending' = {}
  <2>1. phase' = "idle" /\ result' = [status |-> "Ok", value |-> SubSeq(lines, 1, whole)]
    BY <1>1, <1>5, <1>9 DEF Return
  <2>2. Staged' /\ Returns' /\ Batched'
    BY <1>1, <2>1 DEF OInv, Staged, Returns, Batched, Exchanging, Waiting
  <2>3. RawVerbatim'
    <3>1. /\ req'.tags \subseteq Completions(SubSeq(lines, 1, whole))
          /\ result'.value = SubSeq(SubSeq(lines, 1, now), 1, whole)
      BY <1>1, <1>4, <1>6, <1>9, <2>1
    <3>2. result'.status = "Ok" /\ lines' = lines /\ taken' = now
      BY <1>1, <1>7, <2>1
    <3>3. result'.value = SubSeq(lines, 1, whole)
      BY <2>1
    <3>4. QED
      BY <3>1, <3>2, <3>3, Zenon DEF RawVerbatim
  <2>4. QED
    BY <1>8, <2>2, <2>3 DEF OInv
<1>10. CASE pending' # {}
  <2>1. UNCHANGED <<cmd, req, phase, result, ran, stored, lines>>
    BY <1>1, <1>10
  <2>2. Staged' /\ Returns'
    BY <2>1 DEF OInv, Staged, Returns
  <2>3. RawVerbatim'
    <3>1. result'.status = "none"
      BY <1>1, <2>1 DEF OInv, Staged, Exchanging
    <3>2. QED
      BY <3>1 DEF RawVerbatim, Returned
  <2>4. Capturing'
    <3>1. /\ lines' \in Seq(Fragment) /\ taken' \in 0..Len(lines')
          /\ out'.data = SubSeq(lines', 1, Whole(SubSeq(lines', 1, taken')))
          /\ pending' = req'.tags \ Completions(SubSeq(lines', 1, taken')) /\ pending' # {}
      BY <1>3, <1>4, <1>5, <1>7, <1>10, <2>1
    <3>2. /\ req'.tags \subseteq Nat \ {0}
          /\ \A k \in DOMAIN lines' :
               Begins(lines', k) => lines'[k].tag = 0 \/ lines'[k].kind = "line"
      BY <1>2, <2>1 DEF Capturing
    <3>3. QED
      BY <3>1, <3>2, Zenon DEF Capturing
  <2>5. Batched'
    BY <1>1, <1>2, <2>1, <2>4 DEF Batched
  <2>6. QED
    BY <1>8, <2>2, <2>3, <2>5 DEF OInv
<1>11. QED
  BY <1>9, <1>10

\* Every step of a raw call.
LEMMA RawInv ==
  ASSUME OInv, Raw
  PROVE  OInv'
<1>1. CASE RawRefused
  <2>1. PICK f \in Batches : Refusal(f) # "none" /\ Return(Refusal(f), <<>>)
    BY <1>1 DEF RawRefused
  <2>2. /\ cmd' = [op |-> "Raw"] /\ out' = NoOutput /\ ran' = FALSE
    BY <1>1 DEF RawRefused
  <2>3. Refusal(f) \notin {"Ok", "No", "Bad", "Eof"} /\ phase' \in {"idle", "closed"}
    BY <1>1, <2>1, RefusalNames DEF RawRefused, Return
  <2>4. result'.status = Refusal(f) /\ cmd'.op = "Raw"
    BY <2>1, <2>2 DEF Return
  <2>5. Staged' /\ Returns' /\ Announced' /\ Batched' /\ RawVerbatim'
    BY <2>2, <2>3, <2>4
    DEF Staged, Returns, Announced, Batched, RawVerbatim, Returned, Exchanging, Waiting
  <2>6. Statuses'
    BY <2>2 DEF Statuses, NoOutput
  <2>7. QED
    BY <2>5, <2>6 DEF OInv
<1>2. CASE RawStart
  BY <1>2, RawStartInv
<1>3. CASE RawRead
  BY <1>3, RawReadInv
<1>4. CASE RawEof
  <2>1. /\ cmd.op = "Raw" /\ phase = "sent" /\ phase' = "closed"
        /\ result' = [status |-> "Eof", value |-> <<>>]
        /\ UNCHANGED <<cmd, req, out, ran, stored, lines, taken>>
    BY <1>4 DEF RawEof, Return, Kept, rawVars, srvVars
  <2>2. Capturing
    BY <2>1 DEF OInv, Batched, Exchanging
  <2>3. Staged' /\ Returns' /\ Announced' /\ Batched' /\ Statuses'
    BY <2>1 DEF OInv, Staged, Returns, Announced, Batched, Statuses, Exchanging, Waiting
  <2>4. ~(req.tags \subseteq Completions(SubSeq(lines, 1, taken)))
    BY <2>2 DEF Capturing
  <2>5. RawVerbatim'
    <3>1. result'.status = "Eof"
      BY <2>1
    <3>2. QED
      BY <2>1, <2>4, <3>1 DEF RawVerbatim, Returned
  <2>6. QED
    BY <2>3, <2>5 DEF OInv
<1>5. QED
  BY <1>1, <1>2, <1>3, <1>4 DEF Raw

\* The server sends more fragments: those read are what they were.
LEMMA MoreFragments ==
  ASSUME OInv, phase = "sent", req.op = "RAW", NEW g \in Seq(Fragment),
         lines' = lines \o g,
         \A i \in 1..Len(g) : Begins(g, i) => g[i].tag = 0 \/ g[i].kind = "line",
         UNCHANGED <<cmd, req, phase, out, result, pending, taken, ran, stored>>
  PROVE  OInv'
<1>1. Capturing /\ cmd.op = "Raw"
  BY DEF OInv, Batched, Exchanging
<1>2. /\ lines \in Seq(Fragment) /\ taken \in 0..Len(lines) /\ Len(lines) \in Nat
      /\ DOMAIN lines = 1..Len(lines) /\ Len(g) \in Nat
  BY <1>1, LenProperties DEF Capturing
<1>3. /\ lines' \in Seq(Fragment) /\ Len(lines') = Len(lines) + Len(g)
      /\ \A i \in 1..(Len(lines) + Len(g)) :
           lines'[i] = IF i <= Len(lines) THEN lines[i] ELSE g[i - Len(lines)]
  BY <1>2, ConcatProperties, Zenon
<1>4. DOMAIN lines' = 1..(Len(lines) + Len(g)) /\ taken \in 0..Len(lines')
  BY <1>2, <1>3, LenProperties
<1>5. SubSeq(lines', 1, taken) = SubSeq(lines, 1, taken)
  <2> DEFINE a == SubSeq(lines', 1, taken)
             b == SubSeq(lines, 1, taken)
  <2>1. a \in Seq(Fragment) /\ Len(a) = taken /\ \A i \in 1..taken : a[i] = lines'[i]
    BY <1>3, <1>4, PrefixFacts
  <2>2. b \in Seq(Fragment) /\ Len(b) = taken /\ \A i \in 1..taken : b[i] = lines[i]
    BY <1>2, PrefixFacts
  <2>3. \A i \in 1..taken : lines'[i] = lines[i]
    BY <1>2, <1>3
  <2> HIDE DEF a, b
  <2>4. a = b
    BY <2>1, <2>2, <2>3, SameFragments
  <2>5. QED
    BY <2>4 DEF a, b
<1>6. LET w == Whole(SubSeq(lines, 1, taken))
      IN SubSeq(lines', 1, w) = SubSeq(lines, 1, w)
  <2> DEFINE r == SubSeq(lines, 1, taken)
             w == Whole(r)
  <2>1. w = Whole(SubSeq(lines', 1, taken))
    BY <1>5
  <2>2. SubSeq(SubSeq(lines', 1, taken), 1, w) = SubSeq(lines', 1, w)
    BY <1>3, <1>4, <2>1, WholeCompletes
  <2>3. SubSeq(r, 1, w) = SubSeq(lines, 1, w)
    BY <1>2, WholeCompletes
  <2>4. QED
    BY <1>5, <2>2, <2>3
<1>7. ASSUME NEW k \in DOMAIN lines', Begins(lines', k)
      PROVE  lines'[k].tag = 0 \/ lines'[k].kind = "line"
  <2>1. k \in 1..(Len(lines) + Len(g))
    BY <1>4
  <2>2. CASE k <= Len(lines)
    <3>1. k \in 1..Len(lines) /\ lines'[k] = lines[k]
      BY <1>3, <2>1, <2>2
    <3>2. k # 1 => lines'[k - 1] = lines[k - 1]
      <4> SUFFICES ASSUME k # 1
                   PROVE  lines'[k - 1] = lines[k - 1]
        OBVIOUS
      <4>1. k - 1 \in 1..(Len(lines) + Len(g)) /\ k - 1 <= Len(lines)
        BY <1>2, <2>1, <2>2
      <4>2. QED
        BY <1>3, <4>1
    <3>3. Begins(lines, k)
      BY <1>7, <3>2 DEF Begins
    <3>4. QED
      BY <1>1, <1>2, <3>1, <3>3 DEF Capturing
  <2>3. CASE ~(k <= Len(lines))
    <3> DEFINE i == k - Len(lines)
    <3>1. i \in 1..Len(g) /\ lines'[k] = g[i]
      BY <1>2, <1>3, <2>1, <2>3
    <3>2. i # 1 => lines'[k - 1] = g[i - 1]
      <4> SUFFICES ASSUME i # 1
                   PROVE  lines'[k - 1] = g[i - 1]
        OBVIOUS
      <4>1. /\ k - 1 \in 1..(Len(lines) + Len(g)) /\ ~(k - 1 <= Len(lines))
            /\ (k - 1) - Len(lines) = i - 1 /\ k # 1
        BY <1>2, <2>1, <2>3
      <4> HIDE DEF i
      <4>2. QED
        BY <1>3, <4>1
    <3>3. i # 1 => k # 1
      BY <1>2, <2>1, <2>3
    <3> HIDE DEF i
    <3>4. Begins(g, i)
      BY <1>7, <3>2, <3>3 DEF Begins
    <3>5. QED
      BY <3>1, <3>4
  <2>4. QED
    BY <2>2, <2>3
<1>8. Capturing'
  <2> DEFINE r == SubSeq(lines, 1, taken)
  <2>1. /\ req'.tags \subseteq Nat \ {0} /\ out'.data = SubSeq(lines, 1, Whole(r))
        /\ pending' = req'.tags \ Completions(r) /\ pending' # {}
    BY <1>1 DEF Capturing
  <2>2. SubSeq(lines', 1, taken') = r
    BY <1>5
  <2>3. out'.data = SubSeq(lines', 1, Whole(r))
    BY <1>6, <2>1
  <2>4. lines' \in Seq(Fragment) /\ taken' \in 0..Len(lines')
    BY <1>3, <1>4
  <2> HIDE DEF r
  <2>5. QED
    BY <1>7, <2>1, <2>2, <2>3, <2>4, Zenon DEF Capturing
<1>9. Batched'
  BY <1>1, <1>8 DEF Batched
<1>10. Staged' /\ Statuses' /\ Returns' /\ Announced'
  BY DEF OInv, Staged, Statuses, Returns, Announced
<1>11. RawVerbatim'
  <2>1. result'.status = "none"
    BY DEF OInv, Staged, Exchanging
  <2>2. QED
    BY <2>1 DEF RawVerbatim, Returned
<1>12. QED
  BY <1>9, <1>10, <1>11 DEF OInv

\* What the server answers: an untagged response, or a completion.
LEMMA SrvRawInv ==
  ASSUME OInv, SrvRaw
  PROVE  OInv'
<1>1. /\ req.op = "RAW" /\ phase = "sent"
      /\ UNCHANGED <<cmd, req, phase, out, result, pending, taken, ran, stored>>
  BY DEF SrvRaw, srvVars
<1>2. Capturing
  BY <1>1 DEF OInv, Batched, Exchanging
<1>3. ASSUME NEW r \in Replies, lines' = lines \o r
      PROVE  OInv'
  <2>1. r \in Seq(Fragment) /\ Tags(r, 1, Len(r)) \subseteq {0}
    BY RawAssumption
  <2>2. \A i \in 1..Len(r) : Begins(r, i) => r[i].tag = 0
    BY <2>1 DEF Tags
  <2>3. QED
    BY <1>1, <1>3, <2>1, <2>2, MoreFragments
<1>4. ASSUME NEW t \in req.tags, lines' = Append(lines, Line(t))
      PROVE  OInv'
  <2>1. Line(t) \in Fragment /\ Line(t).kind = "line"
    BY <1>2 DEF Capturing, Line, Fragment
  <2> DEFINE g == <<Line(t)>>
  <2>2. g \in Seq(Fragment) /\ Len(g) = 1 /\ g[1] = Line(t)
    BY <2>1
  <2>3. lines \in Seq(Fragment)
    BY <1>2 DEF Capturing
  <2>4. lines' = lines \o g
    BY <1>4, <2>1, <2>3
  <2> HIDE DEF g
  <2>5. \A i \in 1..Len(g) : Begins(g, i) => g[i].tag = 0 \/ g[i].kind = "line"
    BY <2>1, <2>2
  <2>6. QED
    BY <1>1, <2>2, <2>4, <2>5, MoreFragments
<1>5. QED
  BY <1>3, <1>4 DEF SrvRaw

-----------------------------------------------------------------------------
(* The theorems.                                                           *)

\* No call was made yet.
LEMMA InitInv == Init => OInv
<1> SUFFICES ASSUME Init
             PROVE  OInv
  OBVIOUS
<1>1. /\ cmd.op = "none" /\ phase = "idle" /\ result.status = "none" /\ ran = FALSE
      /\ out = NoOutput /\ out.tagged = {}
  BY DEF Init, NoCommand, NoResult, NoOutput
<1>2. Staged /\ Returns /\ Announced /\ Batched /\ RawVerbatim
  BY <1>1 DEF Staged, Returns, Announced, Batched, RawVerbatim, Returned, Exchanging, Waiting
<1>3. Statuses
  BY <1>1 DEF Statuses
<1>4. QED
  BY <1>2, <1>3 DEF OInv

\* The invariant is inductive.
LEMMA StepInv == OInv /\ [Next]_vars => OInv'
<1> SUFFICES ASSUME OInv, [Next]_vars
             PROVE  OInv'
  OBVIOUS
<1>1. CASE Next
  BY <1>1, EveryStep, StartsInv, ReadsInv, MovesInv, ConcludesInv, RawInv, SrvRawInv
  DEF Shape
<1>2. CASE UNCHANGED vars
  BY <1>2, ConcludesInv DEF vars, callVars, srvVars, rawVars, Keeps
<1>3. QED
  BY <1>1, <1>2

\* What fits the literal is announced as it is.
LEMMA InvOutcome == OInv => OutcomeTrue
<1> SUFFICES ASSUME OInv
             PROVE  OutcomeTrue
  OBVIOUS
<1>1. ASSUME Returned({"AppendStream"}), cmd.len < LiteralWidth
      PROVE  stored = cmd.len
  <2>1. cmd.op = "AppendStream" /\ result.status = "Ok"
    BY <1>1 DEF Returned
  <2>2. ran
    BY <2>1 DEF OInv, Returns
  <2>3. stored = cmd.len % LiteralWidth /\ cmd.len \in Nat
    BY <2>1, <2>2 DEF OInv, Announced
  <2>4. cmd.len % LiteralWidth = cmd.len
    BY <2>3, <1>1, ChunkAssumption
  <2>5. QED
    BY <2>3, <2>4
<1>2. QED
  BY <1>1 DEF OInv, Returns, OutcomeTrue

\* The invariant holds throughout.
LEMMA OInvAlways == Spec => []OInv
BY InitInv, StepInv, PTL DEF Spec

(* A call says what the server did: Ok only of a command it executed, No   *)
(* or Bad only of one it did not, and a streamed APPEND that returns Ok    *)
(* stored the whole message, for every set of names, message lengths and   *)
(* number of commands (the reading of the output at the end of every       *)
(* coroutine, src/rfc3501/noop.rs:121-145, src/rfc3501/append.rs).         *)
THEOREM OutcomeIsTrue == Spec => []OutcomeTrue
BY OInvAlways, InvOutcome, PTL

(* A raw call returns what the server sent, whole messages from the first  *)
(* on and as they are, with the completion of every command of the batch   *)
(* among them, and fails at the end of the stream only when one is         *)
(* missing: for every batch, every untagged response and every way the     *)
(* answer is split into reads (src/rfc3501/raw.rs:186-243).                *)
THEOREM RawIsVerbatim == Spec => []RawVerbatim
<1>1. OInv => RawVerbatim
  BY DEF OInv
<1>2. QED
  BY <1>1, OInvAlways, PTL

-----------------------------------------------------------------------------
(* Sets of numbers in order, and what is left of a sequence.               *)

\* Ordered lists the members of a finite set, each once and from the least up.
LEMMA OrderedFacts ==
  ASSUME NEW S \in SUBSET Nat, IsFiniteSet(S)
  PROVE  /\ Cardinality(S) \in Nat
         /\ Ordered(S) \in [1..Cardinality(S) -> S]
         /\ \A i, j \in 1..Cardinality(S) : i < j => Ordered(S)[i] < Ordered(S)[j]
         /\ \A x \in S : \E i \in 1..Cardinality(S) : Ordered(S)[i] = x
<1> DEFINE n == Cardinality(S)
           Below(x) == {y \in S : y < x}
           rank == [x \in S |-> Cardinality(Below(x))]
<1>1. n \in Nat
  BY FS_CardinalityType
<1>2. ASSUME NEW x \in S
      PROVE  /\ IsFiniteSet(Below(x)) /\ Cardinality(Below(x)) \in Nat
             /\ Cardinality(Below(x)) < n
  <2>1. Below(x) \in SUBSET S /\ x \notin Below(x)
    OBVIOUS
  <2>2. Below(x) # S
    BY <2>1
  <2> HIDE DEF Below
  <2>3. /\ IsFiniteSet(Below(x)) /\ Cardinality(Below(x)) <= Cardinality(S)
        /\ Cardinality(S) # Cardinality(Below(x))
    BY <2>1, <2>2, FS_Subset, Zenon
  <2>4. Cardinality(Below(x)) \in Nat
    BY <2>3, FS_CardinalityType
  <2>5. QED
    BY <1>1, <2>3, <2>4
<1>3. ASSUME NEW x \in S, NEW y \in S, x < y
      PROVE  Cardinality(Below(x)) < Cardinality(Below(y))
  <2>1. Below(x) \in SUBSET Below(y)
    <3>1. ASSUME NEW z \in S, z < x
          PROVE  z < y
      BY <1>3, <3>1
    <3>2. QED
      BY <3>1
  <2>2. Below(x) # Below(y)
    <3>1. x \in Below(y) /\ x \notin Below(x)
      BY <1>3
    <3>2. QED
      BY <3>1
  <2>3. IsFiniteSet(Below(y)) /\ Cardinality(Below(y)) \in Nat /\ Cardinality(Below(x)) \in Nat
    BY <1>2
  <2> HIDE DEF Below
  <2>4. /\ Cardinality(Below(x)) <= Cardinality(Below(y))
        /\ Cardinality(Below(y)) # Cardinality(Below(x))
    BY <2>1, <2>2, <2>3, FS_Subset, Zenon
  <2>5. QED
    BY <2>3, <2>4
<1>4. rank \in Injection(S, 0..(n - 1))
  <2>1. \A x \in S : rank[x] = Cardinality(Below(x))
    OBVIOUS
  <2> HIDE DEF Below
  <2>2. rank \in [S -> 0..(n - 1)]
    <3>1. \A x \in S : Cardinality(Below(x)) \in 0..(n - 1)
      BY <1>1, <1>2
    <3> HIDE DEF n
    <3>2. QED
      BY <3>1
  <2> HIDE DEF rank, n
  <2>3. ASSUME NEW x \in S, NEW y \in S, rank[x] = rank[y], x # y
        PROVE  FALSE
    <3>1. x < y \/ y < x
      BY <2>3
    <3>2. rank[x] < rank[y] \/ rank[y] < rank[x]
      BY <1>3, <2>1, <3>1
    <3>3. rank[x] \in Nat /\ rank[y] \in Nat
      BY <1>2, <2>1
    <3>4. QED
      BY <2>3, <3>2, <3>3
  <2>4. IsInjective(rank)
    <3>1. DOMAIN rank = S
      BY <2>2
    <3>2. QED
      BY <2>3, <3>1 DEF IsInjective
  <2>5. QED
    BY <2>2, <2>4 DEF Injection
<1>5. rank \in Surjection(S, 0..(n - 1))
  <2>1. IsFiniteSet(0..(n - 1)) /\ Cardinality(0..(n - 1)) = n
    <3>1. 0 \in Int /\ n - 1 \in Int /\ (IF 0 > n - 1 THEN 0 ELSE (n - 1) - 0 + 1) = n
      BY <1>1
    <3> HIDE DEF n
    <3>2. QED
      BY <3>1, FS_Interval
  <2> HIDE DEF rank
  <2>2. QED
    BY <1>4, <2>1, FS_Injection
<1>6. \A m \in 0..(n - 1) : \E x \in S : Cardinality(Below(x)) = m
  <2>1. \A m \in 0..(n - 1) : \E x \in S : rank[x] = m
    <3> HIDE DEF rank, n
    <3>1. QED
      BY <1>5 DEF Surjection
  <2>2. \A x \in S : rank[x] = Cardinality(Below(x))
    OBVIOUS
  <2> HIDE DEF rank, n, Below
  <2>3. QED
    BY <2>1, <2>2
<1> DEFINE o == Ordered(S)
<1>7. ASSUME NEW i \in 1..n
      PROVE  o[i] \in S /\ Cardinality(Below(o[i])) = i - 1
  <2>1. i - 1 \in 0..(n - 1)
    BY <1>1
  <2>2. \E x \in S : Cardinality(Below(x)) = i - 1
    BY <1>6, <2>1
  <2>3. o[i] = CHOOSE x \in S : Cardinality(Below(x)) = i - 1
    BY DEF Ordered
  <2> HIDE DEF o, Below
  <2>4. QED
    BY <2>2, <2>3, Zenon
<1>8. o \in [1..n -> S]
  <2> DEFINE pick(i) == CHOOSE x \in S : Cardinality(Below(x)) = i - 1
  <2>1. o = [i \in 1..n |-> pick(i)]
    BY DEF Ordered
  <2> HIDE DEF o, n, Below, pick
  <2>2. \A i \in 1..n : pick(i) \in S
    BY <1>7, <2>1
  <2>3. QED
    BY <2>1, <2>2
<1> HIDE DEF o, Below, rank
<1>9. ASSUME NEW i \in 1..n, NEW j \in 1..n, i < j
      PROVE  o[i] < o[j]
  <2>1. o[i] \in Nat /\ o[j] \in Nat
    BY <1>7
  <2>2. CASE o[j] < o[i]
    <3>1. Cardinality(Below(o[j])) < Cardinality(Below(o[i]))
      BY <1>3, <1>7, <2>2
    <3>2. j - 1 < i - 1
      BY <1>7, <3>1
    <3>3. QED
      BY <1>1, <1>9, <3>2
  <2>3. CASE o[i] = o[j]
    <3>1. i - 1 = j - 1
      BY <1>7, <2>3
    <3>2. QED
      BY <1>1, <1>9, <3>1
  <2>4. QED
    BY <2>1, <2>2, <2>3
<1>10. ASSUME NEW x \in S
       PROVE  \E i \in 1..n : o[i] = x
  <2> DEFINE i == Cardinality(Below(x)) + 1
  <2>1. i \in 1..n /\ i - 1 = Cardinality(Below(x))
    BY <1>1, <1>2
  <2> HIDE DEF i
  <2>2. o[i] \in S /\ Cardinality(Below(o[i])) = Cardinality(Below(x))
    BY <1>7, <2>1
  <2>3. ~(o[i] < x) /\ ~(x < o[i])
    <3>1. Cardinality(Below(x)) \in Nat
      BY <1>2
    <3>2. o[i] < x => Cardinality(Below(o[i])) < Cardinality(Below(x))
      BY <1>3, <2>2, Zenon
    <3>3. x < o[i] => Cardinality(Below(x)) < Cardinality(Below(o[i]))
      BY <1>3, <2>2, Zenon
    <3>4. QED
      BY <2>2, <3>1, <3>2, <3>3
  <2>4. o[i] = x
    <3>1. o[i] \in Nat /\ x \in Nat
      BY <2>2
    <3>2. QED
      BY <2>3, <3>1
  <2>5. QED
    BY <2>1, <2>4
<1>11. QED
  BY <1>1, <1>8, <1>9, <1>10 DEF o

\* The positions of a sequence that are kept, in order.
LEMMA AtFacts ==
  ASSUME NEW T, NEW s \in Seq(T), NEW S \in SUBSET DOMAIN s
  PROVE  /\ Cardinality(S) \in Nat /\ DOMAIN At(s, S) = 1..Cardinality(S)
         /\ At(s, S) \in Seq(T) /\ Len(At(s, S)) = Cardinality(S)
         /\ \A i \in 1..Cardinality(S) : Ordered(S)[i] \in S /\ At(s, S)[i] = s[Ordered(S)[i]]
         /\ \A i, j \in 1..Cardinality(S) : i < j => Ordered(S)[i] < Ordered(S)[j]
         /\ \A p \in S : \E i \in 1..Cardinality(S) : Ordered(S)[i] = p
<1>1. DOMAIN s = 1..Len(s) /\ Len(s) \in Nat
  BY LenProperties
<1>2. IsFiniteSet(S) /\ S \in SUBSET Nat
  <2>1. IsFiniteSet(1..Len(s))
    BY <1>1, FS_Interval
  <2>2. QED
    BY <1>1, <2>1, FS_Subset
<1> DEFINE n == Cardinality(S)
           o == Ordered(S)
           a == At(s, S)
<1>3. /\ n \in Nat /\ o \in [1..n -> S]
      /\ \A i, j \in 1..n : i < j => o[i] < o[j]
      /\ \A p \in S : \E i \in 1..n : o[i] = p
  BY <1>2, OrderedFacts
<1>4. a = [i \in 1..n |-> s[o[i]]]
  BY DEF At
<1> HIDE DEF n, o, a
<1>5. \A i \in 1..n : o[i] \in S /\ s[o[i]] \in T
  BY <1>1, <1>3, ElementOfSeq
<1>6. a \in [1..n -> T] /\ \A i \in 1..n : a[i] = s[o[i]]
  BY <1>4, <1>5
<1>7. a \in Seq(T) /\ Len(a) = n /\ DOMAIN a = 1..n
  BY <1>3, <1>6
<1>8. QED
  BY <1>3, <1>5, <1>6, <1>7 DEF n, o, a

\* What is left of distinct elements is distinct.
LEMMA AtInjective ==
  ASSUME NEW T, NEW s \in Seq(T), NEW S \in SUBSET DOMAIN s, IsInjective(s)
  PROVE  IsInjective(At(s, S))
<1> DEFINE a == At(s, S)
           o == Ordered(S)
           n == Cardinality(S)
<1>1. /\ n \in Nat /\ DOMAIN a = 1..n
      /\ \A i \in 1..n : o[i] \in S /\ a[i] = s[o[i]]
      /\ \A i, j \in 1..n : i < j => o[i] < o[j]
  BY AtFacts
<1>2. \A i \in 1..n : o[i] \in Nat
  <2>1. DOMAIN s \subseteq Nat
    BY LenProperties
  <2> HIDE DEF n, o, a
  <2>2. QED
    BY <1>1, <2>1
<1> HIDE DEF a, o, n
<1>3. ASSUME NEW i \in 1..n, NEW j \in 1..n, a[i] = a[j], i # j
      PROVE  FALSE
  <2>1. s[o[i]] = s[o[j]] /\ o[i] \in DOMAIN s /\ o[j] \in DOMAIN s
    BY <1>1, <1>3
  <2>2. o[i] = o[j]
    BY <2>1 DEF IsInjective
  <2>3. i < j \/ j < i
    BY <1>1, <1>3
  <2>4. o[i] < o[j] \/ o[j] < o[i]
    BY <1>1, <2>3
  <2>5. QED
    BY <1>2, <2>2, <2>4
<1>4. QED
  BY <1>1, <1>3 DEF a, IsInjective
-----------------------------------------------------------------------------
(* The mailbox and its numbering.                                          *)

Entry == [uid : Uids, deleted : BOOLEAN]

\* The messages of INBOX have UIDs of their own, below the one given next.
Boxed ==
  /\ box \in Seq(Uids) /\ IsInjective(box)
  /\ deleted \in [Uids -> BOOLEAN] /\ nextUid \in 1..(MaxUid + 1)
  /\ \A u \in Known \cup ToSet(box) : u < nextUid

\* A message has one number at most in the numbering announced.
Numbered ==
  /\ view \in {"rw", "ro", "none"} /\ told \in Seq(Entry)
  /\ \A j, k \in DOMAIN told : told[j].uid = told[k].uid => j = k
  /\ view = "none" => told = <<>>

LEMMA BoundNat == MaxUid \in Nat /\ Uids = 1..MaxUid /\ Uids \in SUBSET Nat /\ Known \in SUBSET Uids
BY UidAssumption DEF Uids

\* A function of 1..n is a sequence.
LEMMA SeqFrom ==
  ASSUME NEW n \in Nat, NEW T, NEW f \in [1..n -> T]
  PROVE  f \in Seq(T) /\ Len(f) = n /\ DOMAIN f = 1..n
OBVIOUS

\* What InBox keeps of INBOX.
LEMMA InBoxFacts ==
  ASSUME Boxed, NEW U
  PROVE  /\ InBox(U) \in Seq(Uids) /\ IsInjective(InBox(U))
         /\ ToSet(InBox(U)) = ToSet(box) \cap U
<1> DEFINE S == {i \in DOMAIN box : box[i] \in U}
           a == At(box, S)
           o == Ordered(S)
           n == Cardinality(S)
<1>1. box \in Seq(Uids) /\ IsInjective(box) /\ S \in SUBSET DOMAIN box
  BY DEF Boxed
<1>2. /\ a \in Seq(Uids) /\ IsInjective(a) /\ DOMAIN a = 1..n
      /\ \A i \in 1..n : o[i] \in S /\ a[i] = box[o[i]]
      /\ \A p \in S : \E i \in 1..n : o[i] = p
  <2> HIDE DEF S
  <2>1. QED
    BY <1>1, AtFacts, AtInjective
<1>3. InBox(U) = a
  BY DEF InBox
<1>4. \A p \in S : p \in DOMAIN box /\ box[p] \in U
  OBVIOUS
<1>5. \A p \in DOMAIN box : box[p] \in U => p \in S
  OBVIOUS
<1> HIDE DEF S, a, o, n
<1>6. ToSet(a) = ToSet(box) \cap U
  <2>1. ASSUME NEW i \in DOMAIN a
        PROVE  a[i] \in ToSet(box) \cap U
    BY <1>2, <1>4, <2>1 DEF ToSet
  <2>2. ASSUME NEW p \in DOMAIN box, box[p] \in U
        PROVE  \E i \in DOMAIN a : a[i] = box[p]
    <3>1. PICK i \in 1..n : o[i] = p
      BY <1>2, <1>5, <2>2
    <3>2. QED
      BY <1>2, <3>1
  <2>3. QED
    BY <2>1, <2>2 DEF ToSet
<1>7. QED
  BY <1>2, <1>3, <1>6

\* Messages are taken out of INBOX,
LEMMA BoxKeeps ==
  ASSUME Boxed, NEW U, box' = InBox(U), UNCHANGED <<deleted, nextUid>>
  PROVE  Boxed'
<1>1. box' \in Seq(Uids) /\ IsInjective(box') /\ ToSet(box') \subseteq ToSet(box)
  BY InBoxFacts
<1>2. \A u \in Known \cup ToSet(box') : u < nextUid
  BY <1>1 DEF Boxed
<1>3. QED
  BY <1>1, <1>2 DEF Boxed

\* put into it,
LEMMA BoxGrows ==
  ASSUME Boxed, nextUid \in Uids, box' = Append(box, nextUid), nextUid' = nextUid + 1,
         UNCHANGED deleted
  PROVE  Boxed'
<1>1. /\ box \in Seq(Uids) /\ DOMAIN box = 1..Len(box) /\ Len(box) \in Nat
      /\ \A i \in DOMAIN box : box[i] \in Nat /\ box[i] < nextUid
  <2>1. box \in Seq(Uids)
    BY DEF Boxed
  <2>2. \A i \in 1..Len(box) : box[i] \in Uids
    BY <2>1, ElementOfSeq
  <2>3. DOMAIN box = 1..Len(box) /\ Len(box) \in Nat
    BY <2>1, LenProperties
  <2>4. ASSUME NEW i \in DOMAIN box
        PROVE  box[i] < nextUid
    BY DEF Boxed, ToSet
  <2>5. QED
    BY <2>1, <2>2, <2>3, <2>4, BoundNat
<1>2. /\ box' \in Seq(Uids) /\ Len(box') = Len(box) + 1
      /\ DOMAIN box' = 1..(Len(box) + 1)
      /\ \A i \in 1..Len(box) : box'[i] = box[i]
      /\ box'[Len(box) + 1] = nextUid
  BY <1>1, AppendProperties
<1>3. ASSUME NEW i \in DOMAIN box', NEW j \in DOMAIN box', box'[i] = box'[j]
      PROVE  i = j
  <2>1. CASE i \in DOMAIN box /\ j \in DOMAIN box
    BY <1>1, <1>2, <1>3, <2>1 DEF Boxed, IsInjective
  <2>2. CASE i = Len(box) + 1 /\ j \in DOMAIN box
    BY <1>1, <1>2, <1>3, <2>2, BoundNat
  <2>3. CASE j = Len(box) + 1 /\ i \in DOMAIN box
    BY <1>1, <1>2, <1>3, <2>3, BoundNat
  <2>4. CASE i = Len(box) + 1 /\ j = Len(box) + 1
    BY <2>4
  <2>5. QED
    BY <1>1, <1>2, <2>1, <2>2, <2>3, <2>4
<1>4. nextUid \in Nat /\ nextUid <= MaxUid /\ nextUid' \in 1..(MaxUid + 1)
  BY BoundNat
<1>5. ASSUME NEW i \in DOMAIN box'
      PROVE  box'[i] < nextUid'
  <2>1. CASE i \in DOMAIN box
    BY <1>1, <1>2, <1>4, <2>1
  <2>2. CASE i = Len(box) + 1
    BY <1>2, <1>4, <2>2
  <2>3. QED
    BY <1>1, <1>2, <2>1, <2>2
<1>6. ASSUME NEW u \in Known
      PROVE  u < nextUid'
  BY <1>4, BoundNat DEF Boxed
<1>7. QED
  BY <1>2, <1>3, <1>4, <1>5, <1>6 DEF Boxed, IsInjective, ToSet

\* and given flags.
LEMMA BoxMarks ==
  ASSUME Boxed, deleted' \in [Uids -> BOOLEAN], UNCHANGED <<box, nextUid>>
  PROVE  Boxed'
BY DEF Boxed

\* An entry of the numbering is of a message, with its flags.
LEMMA ToldEntry ==
  ASSUME Boxed, NEW u \in Uids
  PROVE  Told(u) \in Entry /\ Told(u).uid = u /\ Told(u).deleted = deleted[u]
BY DEF Told, Entry, Boxed

LEMMA ToldFacts ==
  ASSUME Numbered
  PROVE  /\ Len(told) \in Nat /\ DOMAIN told = 1..Len(told)
         /\ \A k \in DOMAIN told : told[k] \in Entry /\ told[k].uid \in Uids
<1>1. told \in Seq(Entry)
  BY DEF Numbered
<1>2. Len(told) \in Nat /\ DOMAIN told = 1..Len(told)
  BY <1>1, LenProperties
<1>3. \A k \in DOMAIN told : told[k] \in Entry
  BY <1>1, <1>2, ElementOfSeq
<1>4. QED
  BY <1>2, <1>3 DEF Entry

\* Distinct UIDs are no more than there are.
LEMMA DistinctUids ==
  ASSUME NEW n \in Nat, NEW f \in [1..n -> Uids], \A j, k \in 1..n : f[j] = f[k] => j = k
  PROVE  n \in 0..MaxUid /\ 1..n \subseteq Uids
<1>1. f \in Injection(1..n, Uids)
  BY DEF Injection, IsInjective
<1>2. IsFiniteSet(Uids) /\ Cardinality(Uids) = MaxUid
  <2>1. IsFiniteSet(1..MaxUid) /\ Cardinality(1..MaxUid) = IF 1 > MaxUid THEN 0 ELSE MaxUid - 1 + 1
    BY BoundNat, FS_Interval
  <2>2. QED
    BY <2>1, BoundNat
<1>3. Cardinality(1..n) <= MaxUid
  BY <1>1, <1>2, FS_Injection
<1>4. Cardinality(1..n) = n
  <2>1. Cardinality(1..n) = IF 1 > n THEN 0 ELSE n - 1 + 1
    BY FS_Interval
  <2>2. QED
    BY <2>1
<1>5. QED
  BY <1>3, <1>4, BoundNat

\* There are no more numbers than UIDs.
LEMMA NumbersBounded ==
  ASSUME Numbered
  PROVE  Len(told) \in 0..MaxUid /\ DOMAIN told \subseteq Uids
<1> DEFINE f == [k \in 1..Len(told) |-> told[k].uid]
<1>1. Len(told) \in Nat /\ DOMAIN told = 1..Len(told) /\ \A k \in DOMAIN told : told[k].uid \in Uids
  BY ToldFacts
<1>2. f \in [1..Len(told) -> Uids]
  BY <1>1
<1>3. \A j, k \in 1..Len(told) : f[j] = f[k] => j = k
  BY <1>1 DEF Numbered
<1> HIDE DEF f
<1>4. QED
  BY <1>1, <1>2, <1>3, DistinctUids

LEMMA BoxBounded ==
  ASSUME Boxed
  PROVE  Len(box) \in Nat /\ DOMAIN box = 1..Len(box) /\ DOMAIN box \subseteq Uids
<1>1. box \in [1..Len(box) -> Uids] /\ Len(box) \in Nat /\ DOMAIN box = 1..Len(box)
  BY LenProperties DEF Boxed
<1>2. \A j, k \in 1..Len(box) : box[j] = box[k] => j = k
  BY <1>1 DEF Boxed, IsInjective
<1>3. QED
  BY <1>1, <1>2, DistinctUids

\* The mailbox is selected: its messages are numbered from the first on.
LEMMA ListedFacts ==
  ASSUME Boxed
  PROVE  /\ Listed \in Seq(Entry) /\ Len(Listed) = Len(box) /\ DOMAIN Listed = DOMAIN box
         /\ \A k \in DOMAIN box : Listed[k] = Told(box[k]) /\ Listed[k].uid = box[k]
<1>1. box \in Seq(Uids) /\ Len(box) \in Nat /\ DOMAIN box = 1..Len(box)
  BY LenProperties DEF Boxed
<1>2. \A k \in DOMAIN box : Told(box[k]) \in Entry /\ Told(box[k]).uid = box[k]
  BY <1>1, ElementOfSeq, ToldEntry
<1>3. Listed \in [1..Len(box) -> Entry] /\ \A k \in DOMAIN box : Listed[k] = Told(box[k])
  BY <1>1, <1>2 DEF Listed
<1>4. Listed \in Seq(Entry) /\ Len(Listed) = Len(box) /\ DOMAIN Listed = 1..Len(box)
  BY <1>1, <1>3, SeqFrom
<1>5. QED
  BY <1>1, <1>2, <1>3, <1>4

LEMMA ListedNumbered ==
  ASSUME Boxed, told' = Listed, view' \in {"rw", "ro"}
  PROVE  Numbered'
<1>1. ASSUME NEW j \in DOMAIN Listed, NEW k \in DOMAIN Listed, Listed[j].uid = Listed[k].uid
      PROVE  j = k
  BY <1>1, ListedFacts DEF Boxed, IsInjective
<1>2. QED
  BY <1>1, ListedFacts DEF Numbered

\* No mailbox is selected.
LEMMA NoneNumbered ==
  ASSUME told' = <<>>, view' \in {"rw", "ro", "none"}
  PROVE  Numbered'
<1> DEFINE e == <<>>
<1>1. e \in Seq(Entry) /\ DOMAIN e = {}
  OBVIOUS
<1>2. told' = e
  OBVIOUS
<1> HIDE DEF e
<1>3. \A j, k \in DOMAIN told' : told'[j].uid = told'[k].uid => j = k
  BY <1>1, <1>2
<1>4. told' = <<>>
  OBVIOUS
<1>5. QED
  BY <1>1, <1>2, <1>3, <1>4 DEF Numbered

\* Flags are announced: the numbers stay.
LEMMA FlagsNumbered ==
  ASSUME Numbered, NEW n \in [DOMAIN told -> Entry], told' = n, UNCHANGED view,
         \A k \in DOMAIN told : n[k].uid = told[k].uid
  PROVE  Numbered'
<1>1. Len(told) \in Nat /\ DOMAIN told = 1..Len(told)
  BY ToldFacts
<1>2. n \in Seq(Entry) /\ DOMAIN n = DOMAIN told /\ Len(n) = Len(told)
  BY <1>1, SeqFrom
<1>3. \A j, k \in DOMAIN n : n[j].uid = n[k].uid => j = k
  BY <1>2 DEF Numbered
<1>4. view = "none" => n = <<>>
  BY <1>2 DEF Numbered
<1>5. QED
  BY <1>2, <1>3, <1>4 DEF Numbered

LEMMA SyncFacts ==
  ASSUME Numbered, Boxed, NEW S
  PROVE  /\ Sync(S) \in [DOMAIN told -> Entry]
         /\ \A k \in DOMAIN told : Sync(S)[k].uid = told[k].uid
         /\ \A k \in DOMAIN told : Sync(S)[k] = IF k \in S THEN Told(told[k].uid) ELSE told[k]
<1>1. \A k \in DOMAIN told : told[k] \in Entry /\ told[k].uid \in Uids
  BY ToldFacts
<1>2. \A k \in DOMAIN told : Told(told[k].uid) \in Entry /\ Told(told[k].uid).uid = told[k].uid
  BY <1>1, ToldEntry
<1>3. QED
  BY <1>1, <1>2 DEF Sync

\* Expunges are announced.
LEMMA WithoutFacts ==
  ASSUME Numbered, NEW S
  PROVE  /\ Without(S) \in Seq(Entry) /\ DOMAIN Without(S) = 1..Len(Without(S))
         /\ \A k \in DOMAIN Without(S) :
              \E p \in DOMAIN told \ S : Without(S)[k] = told[p]
         /\ \A j, k \in DOMAIN Without(S) : Without(S)[j].uid = Without(S)[k].uid => j = k
         /\ told = <<>> => Without(S) = <<>>
<1> DEFINE R == DOMAIN told \ S
           a == At(told, R)
           o == Ordered(R)
           n == Cardinality(R)
<1>1. told \in Seq(Entry) /\ R \in SUBSET DOMAIN told
  BY DEF Numbered
<1>2. /\ n \in Nat /\ DOMAIN a = 1..n /\ a \in Seq(Entry) /\ Len(a) = n
      /\ \A i \in 1..n : o[i] \in R /\ a[i] = told[o[i]]
      /\ \A i, j \in 1..n : i < j => o[i] < o[j]
  BY <1>1, AtFacts
<1>3. \A i \in 1..n : o[i] \in Nat /\ o[i] \in DOMAIN told
  <2>1. R \subseteq DOMAIN told /\ DOMAIN told \subseteq Nat
    BY ToldFacts
  <2> HIDE DEF R, a, o, n
  <2>2. QED
    BY <1>2, <2>1
<1>4. Without(S) = a
  BY DEF Without
<1>5. told = <<>> => n = 0
  <2>1. told = <<>> => R = {}
    OBVIOUS
  <2> HIDE DEF R
  <2>2. QED
    BY <2>1, FS_EmptySet
<1> HIDE DEF a, o, n
<1>6. ASSUME NEW j \in 1..n, NEW k \in 1..n, a[j].uid = a[k].uid
      PROVE  j = k
  <2>1. o[j] = o[k]
    BY <1>2, <1>3, <1>6 DEF Numbered
  <2>2. ~(j < k) /\ ~(k < j)
    BY <1>2, <1>3, <2>1
  <2>3. QED
    BY <1>2, <2>2
<1>7. n = 0 => a = <<>>
  BY <1>2, EmptySeq
<1>8. QED
  BY <1>2, <1>4, <1>5, <1>6, <1>7

LEMMA WithoutNumbered ==
  ASSUME Numbered, NEW S, told' = Without(S), UNCHANGED view
  PROVE  Numbered'
BY WithoutFacts DEF Numbered

\* New messages are announced.
Fresh == InBox(Uids \ {told[k].uid : k \in DOMAIN told})
News == [i \in DOMAIN Fresh |-> Told(Fresh[i])]

LEMMA NewsFacts ==
  ASSUME Boxed, Numbered
  PROVE  /\ Fresh \in Seq(Uids) /\ News \in Seq(Entry) /\ Len(News) = Len(Fresh)
         /\ Len(Fresh) \in Nat /\ IsInjective(Fresh)
         /\ ToSet(Fresh) = {u \in ToSet(box) : \A k \in DOMAIN told : told[k].uid # u}
         /\ \A i \in 1..Len(Fresh) : News[i].uid = Fresh[i] /\ Fresh[i] \in ToSet(Fresh)
<1>1. /\ Fresh \in Seq(Uids) /\ IsInjective(Fresh)
      /\ ToSet(Fresh) = ToSet(box) \cap (Uids \ {told[k].uid : k \in DOMAIN told})
  BY InBoxFacts DEF Fresh
<1>2. Len(Fresh) \in Nat /\ DOMAIN Fresh = 1..Len(Fresh) /\ \A i \in 1..Len(Fresh) : Fresh[i] \in Uids
  BY <1>1, LenProperties, ElementOfSeq
<1>3. \A i \in 1..Len(Fresh) : Told(Fresh[i]) \in Entry /\ Told(Fresh[i]).uid = Fresh[i]
  BY <1>2, ToldEntry
<1>4. News \in [1..Len(Fresh) -> Entry] /\ \A i \in 1..Len(Fresh) : News[i].uid = Fresh[i]
  BY <1>2, <1>3 DEF News
<1>5. News \in Seq(Entry) /\ Len(News) = Len(Fresh)
  BY <1>2, <1>4, SeqFrom
<1>6. ToSet(box) \subseteq Uids
  <2>1. \A i \in DOMAIN box : box[i] \in Uids
    BY LenProperties, ElementOfSeq DEF Boxed
  <2>2. QED
    BY <2>1 DEF ToSet
<1>7. \A i \in 1..Len(Fresh) : Fresh[i] \in ToSet(Fresh)
  BY <1>2 DEF ToSet
<1>8. ToSet(Fresh) = {u \in ToSet(box) : \A k \in DOMAIN told : told[k].uid # u}
  BY <1>1, <1>6
<1>9. QED
  BY <1>1, <1>2, <1>4, <1>5, <1>7, <1>8

LEMMA FreshNumbered ==
  ASSUME Boxed, Numbered, told' = told \o News, UNCHANGED view, view # "none"
  PROVE  /\ Numbered' /\ Len(told') = Len(told) + Len(Fresh)
         /\ \A k \in DOMAIN told : k \in DOMAIN told' /\ told'[k] = told[k]
         /\ \A k \in DOMAIN told' \ DOMAIN told : told'[k].uid \in ToSet(Fresh)
<1>1. /\ told \in Seq(Entry) /\ Len(told) \in Nat /\ DOMAIN told = 1..Len(told)
      /\ \A k \in DOMAIN told : told[k].uid \in Uids
  BY ToldFacts DEF Numbered
<1>2. /\ News \in Seq(Entry) /\ Len(News) = Len(Fresh) /\ Len(Fresh) \in Nat
      /\ \A i \in 1..Len(Fresh) : News[i].uid = Fresh[i] /\ Fresh[i] \in ToSet(Fresh)
      /\ \A u \in ToSet(Fresh) : \A k \in DOMAIN told : told[k].uid # u
      /\ Fresh \in Seq(Uids) /\ IsInjective(Fresh)
  BY NewsFacts
<1>3. DOMAIN Fresh = 1..Len(Fresh)
  BY <1>2, LenProperties
<1> HIDE DEF Fresh, News
<1>4. /\ told' \in Seq(Entry) /\ Len(told') = Len(told) + Len(News)
      /\ \A k \in 1..Len(told) + Len(News) :
           told'[k] = IF k <= Len(told) THEN told[k] ELSE News[k - Len(told)]
  <2> DEFINE c == told \o News
  <2>1. told \in Seq(Entry) /\ News \in Seq(Entry)
    BY <1>1, <1>2
  <2>2. /\ c \in Seq(Entry) /\ Len(c) = Len(told) + Len(News)
        /\ \A k \in 1..Len(told) + Len(News) :
             c[k] = IF k <= Len(told) THEN told[k] ELSE News[k - Len(told)]
    BY <2>1, ConcatProperties
  <2>3. told' = c
    OBVIOUS
  <2> HIDE DEF c
  <2>4. QED
    BY <2>2, <2>3
<1>5. DOMAIN told' = 1..(Len(told) + Len(Fresh))
  BY <1>2, <1>4, LenProperties
<1>6. \A k \in DOMAIN told : k \in DOMAIN told' /\ told'[k] = told[k]
  BY <1>1, <1>2, <1>4, <1>5
<1>7. ASSUME NEW k \in DOMAIN told', k \notin DOMAIN told
      PROVE  /\ k - Len(told) \in 1..Len(Fresh) /\ told'[k].uid = Fresh[k - Len(told)]
             /\ told'[k].uid \in ToSet(Fresh)
  <2>1. k \in 1..Len(told) + Len(News) /\ ~(k <= Len(told)) /\ k - Len(told) \in 1..Len(Fresh)
    BY <1>1, <1>2, <1>5, <1>7
  <2>2. told'[k] = News[k - Len(told)]
    BY <1>4, <2>1
  <2>3. QED
    BY <1>2, <2>1, <2>2
<1>8. ASSUME NEW j \in DOMAIN told', NEW k \in DOMAIN told', told'[j].uid = told'[k].uid
      PROVE  j = k
  <2>1. CASE j \in DOMAIN told /\ k \in DOMAIN told
    BY <1>6, <1>8, <2>1 DEF Numbered
  <2>2. CASE j \in DOMAIN told /\ k \notin DOMAIN told
    BY <1>2, <1>6, <1>7, <1>8, <2>2
  <2>3. CASE j \notin DOMAIN told /\ k \in DOMAIN told
    BY <1>2, <1>6, <1>7, <1>8, <2>3
  <2>4. CASE j \notin DOMAIN told /\ k \notin DOMAIN told
    <3>1. j - Len(told) = k - Len(told)
      BY <1>2, <1>3, <1>7, <1>8, <2>4 DEF IsInjective
    <3>2. QED
      BY <1>1, <1>5, <3>1
  <2>5. QED
    BY <2>1, <2>2, <2>3, <2>4
<1>9. view' \in {"rw", "ro"}
  BY DEF Numbered
<1>10. Numbered'
  BY <1>4, <1>8, <1>9 DEF Numbered
<1>11. QED
  BY <1>2, <1>4, <1>6, <1>7, <1>10
-----------------------------------------------------------------------------
(* The state of the server, and the calls.                                 *)

Copied1 == [uid : Nat, source : Uids]
Owned ==
  /\ mine \subseteq Names /\ mySubs \subseteq Names
  /\ copies \in Seq(Copied1) /\ stored \in Nat
Counted ==
  /\ ran \in BOOLEAN /\ heard \in BOOLEAN
  /\ commands \in 0..MaxCommands /\ changes \in 0..MaxChanges
Requests == phase \in Exchanging /\ cmd.op # "Raw" => Asked(cmd, req)
Called == (result.status = "none") <=> (phase \in Exchanging \/ cmd = NoCommand)
\* What is left of a raw call that has ended.
Captures ==
  /\ lines \in Seq(Fragment) /\ taken \in 0..Len(lines) /\ pending \subseteq Nat \ {0}
  /\ pending # {} => cmd.op = "Raw" /\ phase \in {"sent", "closed"} /\ Len(out.data) <= taken

\* The commands of the client leave the server alone.
LEMMA ClientSteps ==
  ASSUME OInv, SessionCommands \/ MailboxCommands \/ MessageCommands \/ ReadEof
  PROVE  Starts \/ Reads \/ FetchesNext \/ Advances \/ Raw
<1> USE DEF OInv
<1>1. CASE ReadEof
  BY <1>1, FailureReads DEF ReadEof, Exchanging
<1>2. QED
  BY <1>1, SessionSteps, MailboxSteps, MessageSteps

LEMMA ClientKeeps ==
  ASSUME Starts \/ Reads \/ FetchesNext \/ Advances \/ Raw
  PROVE  UNCHANGED <<srvVars, changes>>
<1>1. CASE Raw
  BY <1>1 DEF Raw, RawRefused, RawStart, RawRead, RawEof, Kept
<1>2. QED
  BY <1>1 DEF Starts, Reads, FetchesNext, Advances, Kept

\* What a command names.
LEMMA SentAsked ==
  ASSUME OInv, Requests, phase = "sent", req.op # "RAW"
  PROVE  Asked(cmd, req)
BY DEF OInv, Batched, Requests, Exchanging

\* The messages a command is about.
LEMMA UidsOfFacts ==
  ASSUME Numbered, NEW S \in SUBSET DOMAIN told
  PROVE  /\ UidsOf(S) \in Seq(Uids) /\ Len(UidsOf(S)) = Cardinality(S)
         /\ Cardinality(S) \in Nat /\ DOMAIN UidsOf(S) = 1..Cardinality(S)
<1> DEFINE a == At(told, S)
           n == Cardinality(S)
<1>1. told \in Seq(Entry)
  BY DEF Numbered
<1>2. n \in Nat /\ a \in Seq(Entry) /\ Len(a) = n
  BY <1>1, AtFacts
<1> HIDE DEF a, n
<1>3. \A i \in 1..n : a[i] \in Entry
  BY <1>2, ElementOfSeq
<1>4. \A i \in 1..n : a[i].uid \in Uids
  BY <1>3 DEF Entry
<1>5. [i \in 1..n |-> a[i].uid] \in [1..n -> Uids]
  BY <1>4
<1>6. UidsOf(S) = [i \in 1..n |-> a[i].uid]
  BY DEF UidsOf, a, n
<1>7. UidsOf(S) \in Seq(Uids) /\ Len(UidsOf(S)) = n /\ DOMAIN UidsOf(S) = 1..n
  <2> DEFINE f == [i \in 1..n |-> a[i].uid]
  <2> HIDE DEF f
  <2>1. f \in Seq(Uids) /\ Len(f) = n /\ DOMAIN f = 1..n
    BY <1>2, <1>5, SeqFrom DEF f
  <2>2. QED
    BY <1>6, <2>1 DEF f
<1>8. QED
  BY <1>2, <1>7 DEF n

\* The orders a command may copy its messages in list each of them once.
LEMMA CopyOrdersFacts ==
  ASSUME Numbered, NEW s \in CopyOrders
  PROVE  /\ s \in Seq(Uids) /\ ToSet(UidsOf(Targets)) \in SUBSET Uids
         /\ IsFiniteSet(ToSet(UidsOf(Targets))) /\ s \in Listings(ToSet(UidsOf(Targets)))
<1> DEFINE U == ToSet(UidsOf(Targets))
           n == Cardinality(U)
<1>1. UidsOf(Targets) \in Seq(Uids)
  <2>1. Targets \in SUBSET DOMAIN told
    BY DEF Targets
  <2>2. QED
    BY <2>1, UidsOfFacts
<1>2. U \in SUBSET Uids
  <2>1. \A i \in DOMAIN UidsOf(Targets) : UidsOf(Targets)[i] \in Uids
    BY <1>1, ElementOfSeq, LenProperties
  <2>2. QED
    BY <2>1 DEF ToSet
<1>3. IsFiniteSet(U) /\ n \in Nat
  <2>1. IsFiniteSet(Uids)
    BY BoundNat, FS_Interval
  <2>2. IsFiniteSet(U)
    BY <1>2, <2>1, FS_Subset
  <2>3. QED
    BY <2>2, FS_CardinalityType
<1>4. s \in Listings(U)
  BY DEF CopyOrders
<1> HIDE DEF U
<1>5. s \in [1..n -> U]
  BY <1>4 DEF Listings, Bijection, Injection
<1> HIDE DEF n
<1>6. s \in [1..n -> Uids]
  BY <1>2, <1>5
<1>7. s \in Seq(Uids)
  BY <1>3, <1>6, SeqFrom
<1>8. QED
  BY <1>2, <1>3, <1>4, <1>7 DEF U

\* The copies made are counted on.
LEMMA CopiedFacts ==
  ASSUME Owned, NEW s \in Seq(Uids)
  PROVE  Copied(s) \in Seq(Copied1)
<1> DEFINE f == [i \in DOMAIN s |-> [uid |-> Len(copies) + i, source |-> s[i]]]
<1>1. copies \in Seq(Copied1) /\ Len(copies) \in Nat
  BY LenProperties DEF Owned
<1>2. DOMAIN s = 1..Len(s) /\ Len(s) \in Nat /\ \A i \in 1..Len(s) : s[i] \in Uids
  BY LenProperties, ElementOfSeq
<1>3. \A i \in 1..Len(s) : [uid |-> Len(copies) + i, source |-> s[i]] \in Copied1
  BY <1>1, <1>2 DEF Copied1
<1>4. f \in [1..Len(s) -> Copied1]
  BY <1>2, <1>3
<1>5. f \in Seq(Copied1)
  BY <1>2, <1>4, SeqFrom
<1> HIDE DEF f
<1>6. copies \o f \in Seq(Copied1)
  BY <1>1, <1>5, ConcatProperties
<1>7. QED
  BY <1>6 DEF Copied, f

Stays == Boxed /\ Numbered /\ Owned

\* Each step of the server keeps its state: commands that read the mailbox,
LEMMA ReadingStays ==
  ASSUME Stays, SrvPlain \/ SrvLeave \/ SrvLogout \/ SrvSelect \/ SrvSearch \/ SrvFetch
  PROVE  Stays'
<1> USE DEF Stays
<1>1. CASE UNCHANGED srvVars
  BY <1>1 DEF srvVars, boxVars, nameVars, sesVars, Boxed, Numbered, Owned
<1>2. CASE SrvLeave
  <2>1. Numbered'
    BY <1>2, NoneNumbered DEF SrvLeave
  <2>2. Boxed'
    <3>1. CASE box' = InBox({u \in Uids : ~deleted[u]}) /\ UNCHANGED <<deleted, nextUid>>
      BY <3>1, BoxKeeps
    <3>2. CASE UNCHANGED <<box, deleted, nextUid>>
      BY <3>2 DEF Boxed
    <3>3. QED
      BY <1>2, <3>1, <3>2 DEF SrvLeave, boxVars
  <2>3. Owned'
    BY <1>2 DEF SrvLeave, nameVars, Owned
  <2>4. QED
    BY <2>1, <2>2, <2>3
<1>3. CASE SrvSelect
  <2>1. Numbered'
    BY <1>3, ListedNumbered DEF SrvSelect
  <2>2. Boxed' /\ Owned'
    BY <1>3 DEF SrvSelect, boxVars, nameVars, Boxed, Owned
  <2>3. QED
    BY <2>1, <2>2
<1>4. CASE SrvFetch
  <2>1. Boxed' /\ Owned'
    BY <1>4 DEF SrvFetch, boxVars, nameVars, Boxed, Owned
  <2>2. view' = view /\ (told' = told \/ told' = Sync(Targets))
    BY <1>4 DEF SrvFetch
  <2>3. CASE told' = Sync(Targets)
    BY <2>1, <2>2, <2>3, SyncFacts, FlagsNumbered
  <2>4. CASE told' = told
    BY <2>1, <2>2, <2>4 DEF Numbered
  <2>5. QED
    BY <2>1, <2>2, <2>3, <2>4
<1>5. QED
  BY <1>1, <1>2, <1>3, <1>4 DEF SrvPlain, SrvLogout, SrvSearch

\* change the names,
LEMMA NamingStays ==
  ASSUME OInv, Requests, Stays, SrvNames
  PROVE  Stays'
<1> USE DEF Stays
<1>1. Boxed' /\ Numbered'
  BY DEF SrvNames, boxVars, sesVars, Boxed, Numbered
<1>2. phase = "sent" /\ UNCHANGED <<copies, stored>>
  BY DEF SrvNames
<1>3. CASE Answers("CREATE", <<>>) /\ mine' = mine \cup {cmd.mailbox} /\ UNCHANGED mySubs
  BY <1>1, <1>2, <1>3, SentAsked DEF Answers, Executes, Asked, Owned
<1>4. CASE mine' = mine \ {cmd.mailbox} /\ UNCHANGED mySubs
  BY <1>1, <1>2, <1>4 DEF Owned
<1>5. CASE Answers("RENAME", <<>>) /\ mine' = (mine \ {cmd.mailbox}) \cup {cmd.to} /\ UNCHANGED mySubs
  BY <1>1, <1>2, <1>5, SentAsked DEF Answers, Executes, Asked, Owned
<1>6. CASE Answers("SUBSCRIBE", <<>>) /\ mySubs' = mySubs \cup {cmd.mailbox} /\ UNCHANGED mine
  BY <1>1, <1>2, <1>6, SentAsked DEF Answers, Executes, Asked, Owned
<1>7. CASE mySubs' = mySubs \ {cmd.mailbox} /\ UNCHANGED mine
  BY <1>1, <1>2, <1>7 DEF Owned
<1>8. QED
  BY <1>3, <1>4, <1>5, <1>6, <1>7 DEF SrvNames

\* change, copy or take away messages,
LEMMA ChangingStays ==
  ASSUME OInv, Requests, Stays, SrvStore \/ SrvExpunge \/ SrvCopy \/ SrvMove \/ SrvAppend
  PROVE  Stays'
<1> USE DEF Stays
<1>1. Targets \in SUBSET DOMAIN told
  BY DEF Targets
<1>2. CASE SrvStore
  <2> DEFINE to == [u \in Uids |-> IF \E k \in Targets : told[k].uid = u
                                   THEN req.flag ELSE deleted[u]]
             n == [k \in DOMAIN told |-> IF k \in Targets
                                         THEN [told[k] EXCEPT !.deleted = req.flag]
                                         ELSE told[k]]
  <2>1. /\ phase = "sent" /\ req.op = "STORE" /\ deleted' = to /\ told' = n
        /\ UNCHANGED <<box, nextUid, nameVars, copies, stored, view>>
    BY <1>2 DEF SrvStore, ReadWrite
  <2>2. req.flag \in BOOLEAN
    BY <2>1, SentAsked DEF Asked
  <2>3. to \in [Uids -> BOOLEAN]
    BY <2>2 DEF Boxed
  <2>4. Boxed'
    BY <2>1, <2>3, BoxMarks
  <2>5. \A k \in DOMAIN told : n[k] \in Entry /\ n[k].uid = told[k].uid
    BY <2>2, ToldFacts DEF Entry
  <2>6. n \in [DOMAIN told -> Entry]
    <3>1. \A k \in DOMAIN told : n[k] \in Entry
      BY <2>5
    <3>2. QED
      BY <3>1
  <2>7. told' = n /\ UNCHANGED view
    BY <2>1
  <2> HIDE DEF n
  <2>8. Numbered'
    BY <2>5, <2>6, <2>7, FlagsNumbered
  <2>9. QED
    BY <2>1, <2>4, <2>8 DEF Owned, nameVars
<1>3. CASE SrvExpunge
  <2>1. Boxed'
    <3>1. \E U : box' = InBox(U) /\ UNCHANGED <<deleted, nextUid>>
      BY <1>3 DEF SrvExpunge
    <3>2. QED
      BY <3>1, BoxKeeps
  <2>2. Numbered'
    <3>1. \E S : told' = Without(S) /\ UNCHANGED view
      BY <1>3 DEF SrvExpunge
    <3>2. QED
      BY <3>1, WithoutNumbered
  <2>3. QED
    BY <1>3, <2>1, <2>2 DEF SrvExpunge, Owned, nameVars
<1>4. ASSUME NEW s \in CopyOrders, copies' = Copied(s), UNCHANGED <<nameVars, stored>>
      PROVE  Owned'
  <2>1. s \in Seq(Uids)
    BY CopyOrdersFacts DEF Stays
  <2>2. QED
    BY <1>1, <1>4, <2>1, CopiedFacts DEF Owned, nameVars
<1>5. CASE SrvCopy
  <2>1. Boxed' /\ Numbered'
    BY <1>5 DEF SrvCopy, boxVars, sesVars, Boxed, Numbered
  <2>2. QED
    BY <1>4, <1>5, <2>1 DEF SrvCopy
<1>6. CASE SrvMove
  <2>1. Boxed'
    BY <1>6, BoxKeeps DEF SrvMove
  <2>2. Numbered'
    BY <1>6, WithoutNumbered DEF SrvMove
  <2>3. QED
    BY <1>4, <1>6, <2>1, <2>2 DEF SrvMove
<1>7. CASE SrvAppend
  <2>1. Boxed'
    BY <1>7, BoxGrows DEF SrvAppend
  <2>2. stored' \in Nat
    BY <1>7, SentAsked DEF SrvAppend, Asked
  <2>3. QED
    BY <1>7, <2>1, <2>2 DEF SrvAppend, Owned, nameVars, sesVars, Numbered
<1>8. QED
  BY <1>2, <1>3, <1>5, <1>6, <1>7

\* complete a command, and announce what others did.
LEMMA TellingStays ==
  ASSUME Stays, \/ SrvContinue \/ SrvOk \/ SrvRefuse \/ SrvBye \/ SrvRaw
                \/ TellExpunge \/ TellExists \/ TellFlags
  PROVE  Stays'
<1> USE DEF Stays
<1>1. CASE UNCHANGED srvVars
  BY <1>1 DEF srvVars, boxVars, nameVars, sesVars, Boxed, Numbered, Owned
<1>2. CASE SrvOk
  BY <1>2 DEF SrvOk, SrvTagged, boxVars, nameVars, sesVars, Boxed, Numbered, Owned
<1>3. CASE SrvRefuse
  <2>1. Boxed' /\ Owned'
    BY <1>3 DEF SrvRefuse, SrvTagged, boxVars, nameVars, Boxed, Owned
  <2>2. CASE view' = "none" /\ told' = <<>>
    BY <2>1, <2>2, NoneNumbered
  <2>3. CASE UNCHANGED sesVars
    BY <2>1, <2>3 DEF sesVars, Numbered
  <2>4. QED
    BY <1>3, <2>2, <2>3 DEF SrvRefuse
<1>4. ASSUME NEW data, Announces(data)
      PROVE  Boxed' /\ Owned' /\ UNCHANGED view /\ view # "none"
  BY <1>4 DEF Announces, boxVars, nameVars, Boxed, Owned
<1>5. CASE TellExpunge
  BY <1>4, <1>5, WithoutNumbered DEF TellExpunge
<1>6. CASE TellExists
  <2>1. told' = told \o News
    BY <1>6 DEF TellExists, News, Fresh
  <2>2. QED
    BY <1>4, <1>6, <2>1, FreshNumbered DEF TellExists
<1>7. CASE TellFlags
  BY <1>4, <1>7, SyncFacts, FlagsNumbered DEF TellFlags
<1>8. QED
  BY <1>1, <1>2, <1>3, <1>5, <1>6, <1>7 DEF SrvContinue, SrvBye, SrvRaw

\* So do the other clients.
LEMMA OthersStay ==
  ASSUME Stays, OtherExpunge \/ OtherStore \/ OtherDeliver
  PROVE  Stays'
<1> USE DEF Stays
<1>1. UNCHANGED <<nameVars, sesVars, copies, stored>>
  BY DEF OtherExpunge, OtherStore, OtherDeliver, Changes
<1>2. Numbered' /\ Owned'
  BY <1>1 DEF nameVars, sesVars, Numbered, Owned
<1>3. CASE OtherExpunge
  BY <1>2, <1>3, BoxKeeps DEF OtherExpunge
<1>4. CASE OtherStore
  <2>1. PICK u \in ToSet(box) : deleted' = [deleted EXCEPT ![u] = ~@]
    BY <1>4 DEF OtherStore
  <2>2. deleted' \in [Uids -> BOOLEAN]
    BY <2>1 DEF Boxed
  <2>3. QED
    BY <1>2, <1>4, <2>2, BoxMarks DEF OtherStore
<1>5. CASE OtherDeliver
  BY <1>2, <1>5, BoxGrows DEF OtherDeliver
<1>6. QED
  BY <1>2, <1>3, <1>4, <1>5
-----------------------------------------------------------------------------
(* The state of the call.                                                  *)

CallState == Requests /\ Counted /\ Called /\ Captures

LEMMA StartsState ==
  ASSUME CallState, Starts
  PROVE  CallState'
<1>1. Requests' /\ Called'
  BY DEF Starts, Requests, Called, Asked, NoResult, Waiting, Exchanging, NoCommand
<1>2. Counted'
  <2>1. commands' \in 0..MaxCommands
    BY MaxAssumption DEF CallState, Counted, Starts
  <2>2. QED
    BY <2>1 DEF CallState, Counted, Starts
<1>3. Captures'
  <2> DEFINE e == <<>>
  <2>1. e \in Seq(Fragment) /\ Len(e) = 0
    OBVIOUS
  <2>2. lines' = e /\ taken' = 0 /\ pending' = {}
    BY DEF Starts
  <2> HIDE DEF e
  <2>3. QED
    BY <2>1, <2>2 DEF Captures
<1>4. QED
  BY <1>1, <1>2, <1>3 DEF CallState

LEMMA ReadsState ==
  ASSUME CallState, OInv, Reads
  PROVE  CallState'
<1>1. Requests' /\ Called'
  <2>1. cmd.op # "none"
    BY DEF CallState, Reads, Requests, Asked
  <2>2. QED
    BY <2>1 DEF Reads, Requests, Called, Kept, Exchanging, NoCommand
<1>2. Counted'
  BY DEF CallState, Reads, Kept, Counted
<1>3. Captures'
  <2>1. cmd.op # "Raw" /\ UNCHANGED <<lines, taken, pending>>
    BY DEF Reads, Kept, rawVars
  <2>2. QED
    BY <2>1 DEF CallState, Captures
<1>4. QED
  BY <1>1, <1>2, <1>3 DEF CallState

\* The next chunk of a SORT.
LEMMA FetchesRequest ==
  ASSUME FetchesNext
  PROVE  req'.uid = cmd.uid /\ req'.names = FetchItems(cmd.criteria, cmd.uid)
<1>1. PICK ids : NextFetch(ids)
  BY DEF FetchesNext, SortSearched, SortFetched, Return
<1>2. QED
  BY <1>1 DEF NextFetch, FetchRequest

LEMMA MovesState ==
  ASSUME CallState, OInv, Advances \/ FetchesNext \/ Serves \/ Concludes
  PROVE  CallState'
<1>1. CASE Advances \/ Serves \/ Concludes
  <2>1. /\ UNCHANGED <<cmd, req, result, heard, commands, changes, lines, taken, pending>>
        /\ phase \in Exchanging /\ phase' \in Exchanging
        /\ ran' \in {ran, TRUE}
    BY <1>1 DEF Advances, Serves, Concludes, rawVars, srvVars, Waiting, Exchanging
  <2>2. Requests' /\ Called' /\ Counted'
    BY <2>1 DEF CallState, Requests, Called, Counted
  <2>3. cmd.op # "Raw"
    BY <1>1 DEF OInv, Batched, Advances, Serves, Concludes, Waiting, Exchanging
  <2>4. Captures'
    BY <2>1, <2>3 DEF CallState, Captures
  <2>5. QED
    BY <2>2, <2>4 DEF CallState
<1>2. CASE FetchesNext
  <2>1. /\ UNCHANGED <<cmd, result, heard, commands, changes, lines, taken, pending>>
        /\ phase \in Exchanging /\ phase' = "sent" /\ ran' = FALSE
        /\ cmd.op = "Sort" /\ req'.op = "FETCH"
    BY <1>2 DEF FetchesNext, rawVars
  <2>2. Requests'
    <3>1. Asked(cmd, req)
      BY <2>1 DEF CallState, Requests
    <3>2. req'.uid = cmd.uid /\ req'.names = FetchItems(cmd.criteria, cmd.uid)
      BY <1>2, FetchesRequest
    <3>3. QED
      BY <2>1, <3>1, <3>2 DEF Requests, Asked
  <2>3. Called' /\ Counted' /\ Captures'
    BY <2>1 DEF CallState, Called, Counted, Captures, Exchanging
  <2>4. QED
    BY <2>2, <2>3 DEF CallState
<1>3. QED
  BY <1>1, <1>2

LEMMA KeepsState ==
  ASSUME CallState, OInv, Keeps
  PROVE  CallState'
<1>1. /\ UNCHANGED <<cmd, req, phase, result, ran, commands, lines, taken, pending>>
      /\ heard' \in {heard, TRUE} /\ (changes' = changes \/ Changes)
  BY DEF Keeps, rawVars
<1>2. Requests' /\ Called'
  BY <1>1 DEF CallState, Requests, Called
<1>3. changes' \in 0..MaxChanges
  BY <1>1, MaxAssumption DEF CallState, Counted, Changes
<1>4. Counted'
  BY <1>1, <1>3 DEF CallState, Counted
<1>5. Captures'
  <2>1. CASE out' = out
    BY <1>1, <2>1 DEF CallState, Captures
  <2>2. CASE phase \in Exchanging /\ (req.op # "RAW" \/ phase = "header")
    BY <1>1, <2>2 DEF CallState, Captures, OInv, Batched
  <2>3. QED
    BY <2>1, <2>2 DEF Keeps
<1>6. QED
  BY <1>2, <1>4, <1>5 DEF CallState

\* What a raw call has captured is among what it has read.
Bounded == Len(out.data) <= taken
LEMMA CapturingBounded == Capturing => Bounded
<1> SUFFICES ASSUME Capturing
             PROVE  Bounded
  OBVIOUS
<1> DEFINE read == SubSeq(lines, 1, taken)
<1>1. lines \in Seq(Fragment) /\ taken \in 0..Len(lines) /\ Len(lines) \in Nat
  BY LenProperties DEF Capturing
<1>2. read \in Seq(Fragment) /\ Len(read) = taken
  BY <1>1, PrefixFacts
<1>3. Whole(read) \in 0..taken
  BY <1>2, WholeFacts
<1>4. Whole(read) \in 0..Len(lines)
  BY <1>1, <1>3
<1>5. Len(SubSeq(lines, 1, Whole(read))) = Whole(read)
  BY <1>1, <1>4, PrefixFacts
<1>6. QED
  BY <1>3, <1>5 DEF Capturing, Bounded

LEMMA RawState ==
  ASSUME CallState, OInv, OInv', Raw
  PROVE  CallState'
<1>1. CASE RawRefused
  <2>1. PICK f \in Batches : Refusal(f) # "none" /\ Return(Refusal(f), <<>>)
    BY <1>1 DEF RawRefused
  <2>2. /\ phase' \in {"idle", "closed"} /\ result'.status # "none"
        /\ cmd' = [op |-> "Raw"] /\ out' = NoOutput
        /\ ran' = FALSE /\ heard' = FALSE /\ commands < MaxCommands
        /\ commands' = commands + 1 /\ UNCHANGED <<lines, taken, pending, changes>>
    BY <1>1, <2>1 DEF RawRefused, Return, rawVars
  <2>3. pending = {}
    BY <1>1 DEF CallState, Captures, RawRefused
  <2>4. Requests' /\ Called' /\ Captures'
    BY <2>2, <2>3 DEF CallState, Requests, Called, Captures, NoCommand, Exchanging
  <2>5. Counted'
    <3>1. commands' \in 0..MaxCommands
      BY <2>2, MaxAssumption DEF CallState, Counted
    <3>2. QED
      BY <2>2, <3>1 DEF CallState, Counted
  <2>6. QED
    BY <2>4, <2>5 DEF CallState
<1>2. CASE RawStart
  <2>1. /\ phase' = "sent" /\ result' = NoResult /\ cmd' = [op |-> "Raw"]
        /\ req'.op = "RAW" /\ ran' = FALSE /\ heard' = FALSE /\ commands < MaxCommands
        /\ commands' = commands + 1 /\ UNCHANGED changes
    BY <1>2 DEF RawStart
  <2>2. Capturing'
    BY <2>1 DEF OInv, Batched, Exchanging
  <2>3. Requests' /\ Called'
    BY <2>1 DEF Requests, Called, Exchanging, NoResult
  <2>4. Counted'
    <3>1. commands' \in 0..MaxCommands
      BY <2>1, MaxAssumption DEF CallState, Counted
    <3>2. QED
      BY <2>1, <3>1 DEF CallState, Counted
  <2>5. Bounded'
    BY <2>2, CapturingBounded, PTL
  <2>6. lines' \in Seq(Fragment) /\ taken' \in 0..Len(lines') /\ pending' \subseteq Nat \ {0}
    BY <2>2 DEF Capturing
  <2>7. Captures'
    BY <2>1, <2>5, <2>6 DEF Captures, Bounded
  <2>8. QED
    BY <2>3, <2>4, <2>7 DEF CallState
<1>3. CASE RawRead
  <2>1. /\ cmd.op = "Raw" /\ phase = "sent" /\ UNCHANGED <<cmd, req, ran, heard, commands, changes>>
        /\ IF pending' = {} THEN Return("Ok", out'.data) ELSE UNCHANGED <<phase, result>>
        /\ pending' \subseteq pending
    BY <1>3 DEF RawRead
  <2>2. Counted'
    BY <2>1 DEF CallState, Counted
  <2>3. Requests'
    BY <2>1 DEF Requests
  <2>4. Called'
    BY <2>1 DEF CallState, Called, Return, Exchanging, NoCommand
  <2>5. Captures'
    <3>1. lines' \in Seq(Fragment) /\ taken' \in 0..Len(lines') /\ pending' \subseteq Nat \ {0}
      <4>1. PICK n \in 1..(Len(lines) - taken) : taken' = taken + n /\ UNCHANGED lines
        BY <1>3 DEF RawRead
      <4>2. lines \in Seq(Fragment) /\ taken \in 0..Len(lines) /\ Len(lines) \in Nat
        BY LenProperties DEF CallState, Captures
      <4>3. taken' \in 0..Len(lines')
        BY <4>1, <4>2
      <4>4. QED
        BY <2>1, <4>1, <4>2, <4>3 DEF CallState, Captures
    <3>2. ASSUME pending' # {}
          PROVE  Bounded' /\ phase' = "sent"
      <4>1. phase' = "sent" /\ Capturing'
        BY <2>1, <3>2 DEF OInv, Batched, Exchanging
      <4>2. QED
        BY <4>1, CapturingBounded, PTL
    <3>3. QED
      BY <2>1, <3>1, <3>2 DEF Captures, Bounded
  <2>6. QED
    BY <2>2, <2>3, <2>4, <2>5 DEF CallState
<1>4. CASE RawEof
  <2>1. /\ cmd.op = "Raw" /\ phase = "sent" /\ phase' = "closed" /\ result'.status = "Eof"
        /\ UNCHANGED <<cmd, req, out, ran, heard, commands, changes, lines, taken, pending>>
    BY <1>4 DEF RawEof, Return, Kept, rawVars
  <2>2. Requests' /\ Called' /\ Counted' /\ Captures'
    BY <2>1 DEF CallState, Requests, Called, Counted, Captures, Exchanging, NoCommand
  <2>3. QED
    BY <2>2 DEF CallState
<1>5. QED
  BY <1>1, <1>2, <1>3, <1>4 DEF Raw

LEMMA SrvRawState ==
  ASSUME CallState, OInv, SrvRaw
  PROVE  CallState'
<1>1. /\ req.op = "RAW" /\ phase = "sent"
      /\ UNCHANGED <<cmd, req, phase, out, result, pending, taken, ran, heard, commands, changes>>
  BY DEF SrvRaw
<1>2. Capturing
  BY <1>1 DEF OInv, Batched, Exchanging
<1>3. \E g \in Seq(Fragment) : lines' = lines \o g
  <2>1. CASE \E r \in Replies : lines' = lines \o r
    BY <2>1, RawAssumption
  <2>2. CASE \E t \in req.tags : lines' = Append(lines, Line(t))
    <3>1. PICK t \in req.tags : lines' = Append(lines, Line(t))
      BY <2>2
    <3>2. Line(t) \in Fragment /\ lines \in Seq(Fragment)
      BY <1>2 DEF Capturing, Line, Fragment
    <3> DEFINE g == <<Line(t)>>
    <3>3. g \in Seq(Fragment) /\ lines' = lines \o g
      BY <3>1, <3>2
    <3>4. QED
      BY <3>3
  <2>3. QED
    BY <2>1, <2>2 DEF SrvRaw
<1>4. PICK g \in Seq(Fragment) : lines' = lines \o g
  BY <1>3
<1>5. lines \in Seq(Fragment) /\ taken \in 0..Len(lines) /\ Len(lines) \in Nat /\ Len(g) \in Nat
  BY LenProperties DEF CallState, Captures
<1>6. lines' \in Seq(Fragment) /\ Len(lines') = Len(lines) + Len(g)
  BY <1>4, <1>5, ConcatProperties
<1>7. taken' \in 0..Len(lines')
  BY <1>1, <1>5, <1>6
<1>8. Captures'
  BY <1>1, <1>6, <1>7 DEF CallState, Captures
<1>9. Requests' /\ Called' /\ Counted'
  BY <1>1 DEF CallState, Requests, Called, Counted
<1>10. QED
  BY <1>8, <1>9 DEF CallState

\* Every step keeps it.
LEMMA CallSteps ==
  ASSUME CallState, OInv, OInv', Next
  PROVE  CallState'
BY EveryStep, StartsState, ReadsState, MovesState, KeepsState, RawState, SrvRawState DEF Shape

\* Every step keeps the state of the server.
LEMMA ServerStays ==
  ASSUME Stays, Requests, OInv, Next
  PROVE  Stays'
<1>1. CASE SessionCommands \/ MailboxCommands \/ MessageCommands \/ ReadEof
  <2>1. UNCHANGED srvVars
    BY <1>1, ClientSteps, ClientKeeps
  <2>2. QED
    BY <2>1 DEF Stays, srvVars, boxVars, nameVars, sesVars, Boxed, Numbered, Owned
<1>2. CASE Server
  BY <1>2, ReadingStays, NamingStays, ChangingStays, TellingStays DEF Server
<1>3. CASE OtherExpunge \/ OtherStore \/ OtherDeliver
  BY <1>3, OthersStay
<1>4. QED
  BY <1>1, <1>2, <1>3 DEF Next
-----------------------------------------------------------------------------
(* What the server has answered.                                           *)

Plain(s) == s \in Seq(ToSet(s))

\* What the fallback of SORT relies on: the numbers are of messages, and those
\* a search by sequence number found are announced.
Fits(e, r, n) ==
  /\ e.type = "Fetch" => e.seq \in Uids
  /\ e.type = "Search" =>
       /\ r.op = "SEARCH" /\ e.value \in Seq(Uids)
       /\ ~r.uid => \A i \in DOMAIN e.value : e.value[i] \in 1..n
Data(s, r, n) == Plain(s) /\ \A i \in DOMAIN s : Fits(s[i], r, n)

Answered == phase \in Exchanging /\ cmd.op # "Raw" => Data(out.data, req, Len(told))
Sorting == remaining \in Seq(Uids) /\ searched \subseteq Uids /\ DOMAIN fetched \subseteq Uids

LEMMA PlainFacts ==
  ASSUME NEW s, Plain(s)
  PROVE  Len(s) \in Nat /\ DOMAIN s = 1..Len(s)
BY LenProperties DEF Plain

LEMMA PlainFrom ==
  ASSUME NEW n \in Nat, NEW T, NEW f \in [1..n -> T]
  PROVE  Plain(f) /\ Len(f) = n /\ DOMAIN f = 1..n
<1>1. f \in [1..n -> ToSet(f)]
  BY DEF ToSet
<1>2. QED
  BY <1>1, SeqFrom DEF Plain

\* A response after others.
LEMMA PlainConcat ==
  ASSUME NEW s, NEW d, Plain(s), Plain(d)
  PROVE  /\ Plain(s \o d) /\ Len(s \o d) = Len(s) + Len(d)
         /\ DOMAIN (s \o d) = 1..(Len(s) + Len(d))
         /\ \A i \in DOMAIN s : i \in DOMAIN (s \o d) /\ (s \o d)[i] = s[i]
         /\ \A i \in DOMAIN d : /\ Len(s) + i \in DOMAIN (s \o d)
                                /\ (s \o d)[Len(s) + i] = d[i]
         /\ \A i \in DOMAIN (s \o d) : i \in DOMAIN s \/ i - Len(s) \in DOMAIN d
<1> DEFINE T == ToSet(s) \cup ToSet(d)
           c == s \o d
<1>1. s \in Seq(T) /\ d \in Seq(T)
  BY SeqMonotonic DEF Plain
<1>2. /\ Len(s) \in Nat /\ Len(d) \in Nat /\ DOMAIN s = 1..Len(s) /\ DOMAIN d = 1..Len(d)
  BY PlainFacts
<1> HIDE DEF T
<1>3. /\ c \in Seq(T) /\ Len(c) = Len(s) + Len(d)
      /\ \A i \in 1..Len(s) + Len(d) : c[i] = IF i <= Len(s) THEN s[i] ELSE d[i - Len(s)]
  BY <1>1, ConcatProperties
<1> HIDE DEF c
<1>4. DOMAIN c = 1..(Len(s) + Len(d)) /\ c \in [1..(Len(s) + Len(d)) -> T]
  BY <1>3, LenProperties
<1>5. Plain(c)
  <2>1. Len(s) + Len(d) \in Nat
    BY <1>2
  <2>2. QED
    BY <1>4, <2>1, PlainFrom
<1>6. \A i \in DOMAIN s : i \in DOMAIN c /\ c[i] = s[i]
  BY <1>2, <1>3, <1>4
<1>7. ASSUME NEW i \in DOMAIN d
      PROVE  Len(s) + i \in DOMAIN c /\ c[Len(s) + i] = d[i]
  <2>1. Len(s) + i \in 1..Len(s) + Len(d) /\ ~(Len(s) + i <= Len(s)) /\ Len(s) + i - Len(s) = i
    BY <1>2
  <2>2. QED
    BY <1>3, <1>4, <2>1
<1>8. \A i \in DOMAIN c : i \in DOMAIN s \/ i - Len(s) \in DOMAIN d
  BY <1>2, <1>4
<1>9. QED
  BY <1>3, <1>4, <1>5, <1>6, <1>7, <1>8 DEF c

LEMMA DataConcat ==
  ASSUME NEW s, NEW d, NEW r, NEW n, Data(s, r, n), Data(d, r, n)
  PROVE  Data(s \o d, r, n)
<1> DEFINE c == s \o d
<1>1. /\ Plain(c) /\ \A i \in DOMAIN s : c[i] = s[i]
      /\ \A i \in DOMAIN d : c[Len(s) + i] = d[i]
      /\ \A i \in DOMAIN c : i \in DOMAIN s \/ i - Len(s) \in DOMAIN d
      /\ DOMAIN c \subseteq Nat /\ Len(s) \in Nat
  BY PlainConcat, PlainFacts DEF Data
<1> HIDE DEF c
<1>2. ASSUME NEW i \in DOMAIN c
      PROVE  Fits(c[i], r, n)
  <2>1. CASE i \in DOMAIN s
    BY <1>1, <2>1 DEF Data
  <2>2. CASE i - Len(s) \in DOMAIN d
    <3>1. Len(s) + (i - Len(s)) = i
      BY <1>1
    <3>2. c[i] = d[i - Len(s)]
      BY <1>1, <2>2, <3>1
    <3>3. QED
      BY <2>2, <3>2 DEF Data
  <2>3. QED
    BY <1>1, <2>1, <2>2
<1>3. QED
  BY <1>1, <1>2 DEF Data, c

\* The numbering may grow, and shrinks when no search by number is answered.
LEMMA DataGrows ==
  ASSUME NEW s, NEW r, NEW n \in Nat, NEW m \in Nat, Data(s, r, n),
         m >= n \/ r.op # "SEARCH" \/ r.uid
  PROVE  Data(s, r, m)
BY DEF Data, Fits

LEMMA DataNone ==
  ASSUME NEW r, NEW n
  PROVE  Data(<<>>, r, n)
<1> DEFINE e == <<>>
<1>1. e \in Seq(ToSet(e)) /\ DOMAIN e = {}
  OBVIOUS
<1> HIDE DEF e
<1>2. Data(e, r, n)
  BY <1>1 DEF Data, Plain
<1>3. QED
  BY <1>2 DEF e

LEMMA DataOne ==
  ASSUME NEW x, NEW r, NEW n, Fits(x, r, n)
  PROVE  Data(<<x>>, r, n)
<1> DEFINE e == <<x>>
<1>1. e \in Seq({x}) /\ DOMAIN e = {1} /\ e[1] = x
  OBVIOUS
<1> HIDE DEF e
<1>2. ToSet(e) = {x}
  BY <1>1 DEF ToSet
<1>3. Data(e, r, n)
  BY <1>1, <1>2 DEF Data, Plain
<1>4. QED
  BY <1>3 DEF e

LEMMA DataFrom ==
  ASSUME NEW n \in Nat, NEW T, NEW f \in [1..n -> T], NEW r, NEW m,
         \A i \in 1..n : Fits(f[i], r, m)
  PROVE  Data(f, r, m)
<1>1. Plain(f) /\ DOMAIN f = 1..n
  BY PlainFrom
<1>2. QED
  BY <1>1 DEF Data

\* The numbers of the numbering are finitely many.
LEMMA NumbersFinite ==
  ASSUME Numbered, NEW S \in SUBSET DOMAIN told
  PROVE  IsFiniteSet(S) /\ S \in SUBSET Nat
<1>1. DOMAIN told = 1..Len(told) /\ Len(told) \in Nat
  BY ToldFacts
<1>2. IsFiniteSet(1..Len(told))
  BY <1>1, FS_Interval
<1>3. QED
  BY <1>1, <1>2, FS_Subset

\* The responses to a FETCH or a STORE are about messages that are numbered.
LEMMA FetchData ==
  ASSUME Numbered, NEW S \in SUBSET DOMAIN told, NEW f, f = [i \in 1..Cardinality(S) |-> f[i]],
         \A i \in 1..Cardinality(S) : f[i].type = "Fetch" /\ f[i].seq = Ordered(S)[i],
         NEW r, NEW n
  PROVE  Data(f, r, n)
<1> DEFINE k == Cardinality(S)
           o == Ordered(S)
<1>1. S \in SUBSET Nat /\ IsFiniteSet(S)
  BY NumbersFinite
<1>2. k \in Nat /\ o \in [1..k -> S]
  BY <1>1, OrderedFacts
<1>3. DOMAIN told \subseteq Uids
  BY NumbersBounded
<1> HIDE DEF k, o
<1>4. \A i \in 1..k : Fits(f[i], r, n)
  BY <1>2, <1>3 DEF Fits, k, o
<1>5. f \in [1..k -> {f[i] : i \in 1..k}]
  BY DEF k
<1>6. QED
  BY <1>2, <1>4, <1>5, DataFrom

\* Responses of other types.
LEMMA OtherData ==
  ASSUME NEW n \in Nat, NEW f, f = [i \in 1..n |-> f[i]],
         \A i \in 1..n : f[i].type \notin {"Fetch", "Search"}, NEW r, NEW m
  PROVE  Data(f, r, m)
<1>1. f \in [1..n -> {f[i] : i \in 1..n}]
  OBVIOUS
<1>2. \A i \in 1..n : Fits(f[i], r, m)
  BY DEF Fits
<1>3. QED
  BY <1>1, <1>2, DataFrom

\* The command is executed,
LEMMA ExecutesData ==
  ASSUME OInv, Answered, Numbered, Numbered', NEW op, NEW data, NEW untagged, NEW code,
         Executes(op, data, untagged, code), op # "RAW", Data(data, req, Len(told')),
         op # "SEARCH" \/ told' = told
  PROVE  Answered'
<1>1. /\ phase = "sent" /\ req.op = op /\ out'.data = out.data \o data
      /\ UNCHANGED <<cmd, req>>
  BY DEF Executes, OInv, Statuses, NoOutput
<1>2. cmd.op # "Raw"
  BY <1>1 DEF OInv, Batched, Exchanging
<1>3. Data(out.data, req, Len(told))
  BY <1>1, <1>2 DEF Answered, Exchanging
<1>4. Len(told) \in Nat /\ Len(told') \in Nat
  BY LenProperties DEF Numbered
<1>5. Data(out.data, req, Len(told'))
  BY <1>1, <1>3, <1>4, DataGrows
<1>6. Data(out.data \o data, req, Len(told'))
  BY <1>5, DataConcat
<1>7. QED
  BY <1>1, <1>6 DEF Answered

\* or something is announced.
LEMMA AnnouncesData ==
  ASSUME OInv, Answered, Numbered, Numbered', NEW data, Announces(data),
         Data(data, req, Len(told')),
         Len(told') >= Len(told) \/ req.op # "SEARCH" \/ req.uid
  PROVE  Answered'
<1>1. /\ phase \in Exchanging /\ req.op # "RAW" /\ out'.data = out.data \o data
      /\ UNCHANGED <<cmd, req, phase>>
  BY DEF Announces, OInv, Statuses, NoOutput, Exchanging
<1>2. cmd.op # "Raw"
  BY <1>1 DEF OInv, Batched
<1>3. Data(out.data, req, Len(told))
  BY <1>1, <1>2 DEF Answered
<1>4. Len(told) \in Nat /\ Len(told') \in Nat
  BY LenProperties DEF Numbered
<1>5. Data(out.data, req, Len(told'))
  BY <1>3, <1>4, DataGrows
<1>6. Data(out.data \o data, req, Len(told'))
  BY <1>5, DataConcat
<1>7. QED
  BY <1>1, <1>6 DEF Answered

LEMMA SameData ==
  ASSUME Answered, UNCHANGED <<cmd, req, phase>>, out'.data = out.data, told' = told
  PROVE  Answered'
BY DEF Answered
\* One response of another type, and two.
LEMMA OneData ==
  ASSUME NEW x, x.type \notin {"Fetch", "Search"}, NEW r, NEW n
  PROVE  Data(<<x>>, r, n)
BY DataOne DEF Fits

LEMMA AnswersData ==
  ASSUME OInv, Answered, Numbered, Numbered', NEW op, NEW data, Answers(op, data), op # "RAW",
         Data(data, req, Len(told')), op # "SEARCH" \/ told' = told
  PROVE  Answered'
BY ExecutesData DEF Answers

\* What a command leaves unanswered.
LEMMA SilentData ==
  ASSUME OInv, Answered, Numbered, Numbered', NEW op, Answers(op, <<>>), op \notin {"RAW", "SEARCH"}
  PROVE  Answered'
BY AnswersData, DataNone

\* The lists of names.
LEMMA ListsData ==
  ASSUME NEW S, IsFiniteSet(S), NEW type, type \notin {"Fetch", "Search"}, NEW v, NEW r, NEW n
  PROVE  Data([i \in 1..Cardinality(S) |-> D(type, 0, v[i])], r, n)
<1> DEFINE k == Cardinality(S)
           f == [i \in 1..k |-> D(type, 0, v[i])]
<1>1. k \in Nat
  BY FS_CardinalityType
<1> HIDE DEF k
<1>2. \A i \in 1..k : f[i].type \notin {"Fetch", "Search"}
  BY DEF D
<1>3. f = [i \in 1..k |-> f[i]]
  OBVIOUS
<1> HIDE DEF f
<1>4. Data(f, r, n)
  BY <1>1, <1>2, <1>3, OtherData
<1>5. QED
  BY <1>4 DEF f, k

\* The EXPUNGEs of some messages.
LEMMA ExpungesData ==
  ASSUME NEW S, IsFiniteSet(S), NEW r, NEW n
  PROVE  Data(Expunges(S), r, n)
<1> DEFINE k == Cardinality(S)
           o == Ordered(S)
           f == [i \in 1..k |-> D("Expunge", o[i] - (i - 1), 0)]
<1>1. k \in Nat
  BY FS_CardinalityType
<1> HIDE DEF k, o
<1>2. \A i \in 1..k : f[i].type \notin {"Fetch", "Search"}
  BY DEF D
<1>3. f = [i \in 1..k |-> f[i]]
  OBVIOUS
<1> HIDE DEF f
<1>4. Data(f, r, n)
  BY <1>1, <1>2, <1>3, OtherData
<1>5. QED
  BY <1>4 DEF f, k, o, Expunges

\* What a search finds: messages that are there, by UID or by number.
Found ==
  LET there == Ordered({k \in DOMAIN told : ~Gone(k)})
  IN [i \in DOMAIN there |-> IF req.uid THEN told[there[i]].uid ELSE there[i]]

LEMMA FoundFacts ==
  ASSUME Numbered
  PROVE  Found \in Seq(Uids) /\ (~req.uid => \A i \in DOMAIN Found : Found[i] \in 1..Len(told))
<1> DEFINE S == {k \in DOMAIN told : ~Gone(k)}
           o == Ordered(S)
           n == Cardinality(S)
           v == [i \in DOMAIN o |-> IF req.uid THEN told[o[i]].uid ELSE o[i]]
<1>1. S \in SUBSET DOMAIN told
  OBVIOUS
<1>2. v = Found
  BY DEF Found
<1> HIDE DEF S
<1>3. n \in Nat /\ o \in [1..n -> S]
  BY <1>1, NumbersFinite, OrderedFacts
<1>4. /\ DOMAIN told = 1..Len(told) /\ DOMAIN told \subseteq Uids
      /\ \A k \in DOMAIN told : told[k].uid \in Uids
  BY ToldFacts, NumbersBounded
<1> HIDE DEF o, n
<1>5. v \in [1..n -> Uids] /\ (~req.uid => \A i \in 1..n : v[i] \in 1..Len(told))
  BY <1>1, <1>3, <1>4
<1>6. v \in Seq(Uids) /\ DOMAIN v = 1..n
  BY <1>3, <1>5, SeqFrom
<1> HIDE DEF v
<1>7. QED
  BY <1>2, <1>5, <1>6

\* The steps of the server: commands that read the mailbox,
LEMMA ReadingData ==
  ASSUME OInv, Answered, Stays, Stays',
         SrvLeave \/ SrvLogout \/ SrvNames \/ SrvSearch \/ SrvFetch \/ SrvStore
  PROVE  Answered'
<1> USE DEF Stays
<1>1. Targets \in SUBSET DOMAIN told
  BY DEF Targets
<1>2. CASE SrvLeave
  BY <1>2, SilentData DEF SrvLeave
<1>3. CASE SrvLogout
  <2>1. /\ phase = "sent" /\ req.op = "LOGOUT" /\ out'.data = out.data
        /\ UNCHANGED <<cmd, req, told>>
    BY <1>3 DEF SrvLogout, srvVars, sesVars, NoOutput
  <2>2. cmd.op # "Raw"
    BY <2>1 DEF OInv, Batched, Exchanging
  <2>3. QED
    BY <2>1, <2>2 DEF Answered, Exchanging
<1>4. CASE SrvNames
  BY <1>4, SilentData DEF SrvNames
<1>5. CASE SrvSearch
  <2>1. told' = told
    BY <1>5 DEF SrvSearch, srvVars, sesVars
  <2>2. CASE Answers("SEARCH", <<D("Search", 0, Found)>>)
    <3>1. req.op = "SEARCH"
      BY <2>2 DEF Answers, Executes
    <3>2. Fits(D("Search", 0, Found), req, Len(told))
      <4> DEFINE x == D("Search", 0, Found)
      <4>1. x.type = "Search" /\ x.value = Found
        BY DEF D
      <4> HIDE DEF x
      <4>2. Fits(x, req, Len(told))
        BY <3>1, <4>1, FoundFacts DEF Fits
      <4>3. QED
        BY <4>2 DEF x
    <3>3. Data(<<D("Search", 0, Found)>>, req, Len(told))
      BY <3>2, DataOne
    <3>4. QED
      BY <2>1, <2>2, <3>3, AnswersData
  <2>3. ASSUME NEW type \in {"Sort", "Thread"}
        PROVE  Data(<<D(type, 0, Found)>>, req, Len(told'))
    BY OneData DEF D
  <2>4. CASE Answers("SORT", <<D("Sort", 0, Found)>>)
    BY <2>3, <2>4, AnswersData
  <2>5. CASE Answers("THREAD", <<D("Thread", 0, Found)>>)
    BY <2>3, <2>5, AnswersData
  <2>6. CASE Answers("THREAD", <<>>)
    BY <2>6, SilentData
  <2>7. QED
    BY <1>5, <2>2, <2>4, <2>5, <2>6 DEF SrvSearch, Found
<1>6. CASE SrvFetch
  <2> DEFINE names == req.names \cup IF req.uid THEN {"Uid"} ELSE {}
             f == Fetched(Targets, names)
  <2>1. f = [i \in 1..Cardinality(Targets) |-> f[i]]
    BY DEF Fetched
  <2>2. \A i \in 1..Cardinality(Targets) : f[i].type = "Fetch" /\ f[i].seq = Ordered(Targets)[i]
    BY DEF Fetched, D
  <2>3. Answers("FETCH", f)
    BY <1>6 DEF SrvFetch
  <2> HIDE DEF f
  <2>4. Data(f, req, Len(told'))
    BY <1>1, <2>1, <2>2, FetchData
  <2>5. QED
    BY <2>3, <2>4, AnswersData
<1>7. CASE SrvStore
  <2> DEFINE names == {"Flags"} \cup IF req.uid THEN {"Uid"} ELSE {}
             f == [i \in 1..Cardinality(Targets) |->
                     D("Fetch", Ordered(Targets)[i],
                       [Item(Ordered(Targets)[i], names) EXCEPT !.deleted = req.flag])]
  <2>1. f = [i \in 1..Cardinality(Targets) |-> f[i]]
    OBVIOUS
  <2>2. \A i \in 1..Cardinality(Targets) : f[i].type = "Fetch" /\ f[i].seq = Ordered(Targets)[i]
    BY DEF D
  <2>3. Answers("STORE", IF req.silent THEN <<>> ELSE f)
    BY <1>7 DEF SrvStore
  <2> HIDE DEF f
  <2>4. Data(f, req, Len(told'))
    BY <1>1, <2>1, <2>2, FetchData
  <2>5. CASE Answers("STORE", f)
    BY <2>4, <2>5, AnswersData
  <2>6. CASE Answers("STORE", <<>>)
    BY <2>6, SilentData
  <2>7. QED
    BY <2>3, <2>5, <2>6
<1>8. QED
  BY <1>2, <1>3, <1>4, <1>5, <1>6, <1>7
\* The sets of names are finite.
Listable == IsFiniteSet(wires) /\ IsFiniteSet(subscribed)

LEMMA ListableInit == Init => Listable
<1> SUFFICES ASSUME Init
             PROVE  Listable
  OBVIOUS
<1> DEFINE T == {EncodeInplace(n) : n \in mine}
           f == [n \in mine |-> EncodeInplace(n)]
<1>1. IsFiniteSet(mine)
  <2>1. mine \in SUBSET Names
    BY NamesAssumption DEF Init
  <2>2. QED
    BY <2>1, NamesAssumption, FS_Subset
<1>2. f \in Surjection(mine, T)
  BY DEF Surjection
<1> HIDE DEF f, T
<1>3. IsFiniteSet(T)
  BY <1>1, <1>2, FS_Surjection
<1>4. IsFiniteSet(T \cup Strays)
  BY <1>3, NamesAssumption, FS_Union
<1>5. wires = T \cup Strays /\ subscribed = {}
  BY DEF Init, T
<1>6. QED
  BY <1>4, <1>5, FS_EmptySet DEF Listable

LEMMA ListableSteps ==
  ASSUME Listable, OInv, Next
  PROVE  Listable'
<1>1. CASE UNCHANGED <<wires, subscribed>>
  BY <1>1 DEF Listable
<1>2. CASE SrvNames
  <2>1. IsFiniteSet(wires) /\ IsFiniteSet(subscribed)
    BY DEF Listable
  <2>2. IsFiniteSet(wires \cup {req.mailbox}) /\ IsFiniteSet(wires \ {req.mailbox})
    BY <2>1, FS_AddElement, FS_RemoveElement
  <2>3. IsFiniteSet((wires \ {req.mailbox}) \cup {req.to})
    BY <2>2, FS_AddElement
  <2>4. IsFiniteSet(subscribed \cup {req.mailbox}) /\ IsFiniteSet(subscribed \ {req.mailbox})
    BY <2>1, FS_AddElement, FS_RemoveElement
  <2>5. \/ wires' = wires \cup {req.mailbox} /\ UNCHANGED subscribed
        \/ wires' = wires \ {req.mailbox} /\ UNCHANGED subscribed
        \/ wires' = (wires \ {req.mailbox}) \cup {req.to} /\ UNCHANGED subscribed
        \/ subscribed' = subscribed \cup {req.mailbox} /\ UNCHANGED wires
        \/ subscribed' = subscribed \ {req.mailbox} /\ UNCHANGED wires
    BY <1>2 DEF SrvNames
  <2>6. IsFiniteSet(wires') /\ IsFiniteSet(subscribed')
    BY <2>1, <2>2, <2>3, <2>4, <2>5, Zenon
  <2>7. QED
    BY <2>6 DEF Listable
<1>3. CASE SessionCommands \/ MailboxCommands \/ MessageCommands \/ ReadEof
  BY <1>1, <1>3, ClientSteps, ClientKeeps DEF srvVars, nameVars
<1>4. CASE Server
  <2>1. CASE SrvPlain \/ SrvLeave \/ SrvLogout \/ SrvSelect \/ SrvSearch \/ SrvFetch \/ SrvStore
    BY <1>1, <2>1 DEF SrvPlain, SrvLeave, SrvLogout, SrvSelect, SrvSearch, SrvFetch, SrvStore,
                      srvVars, nameVars
  <2>2. CASE SrvExpunge \/ SrvCopy \/ SrvMove \/ SrvAppend
    BY <1>1, <2>2 DEF SrvExpunge, SrvCopy, SrvMove, SrvAppend, nameVars
  <2>3. CASE SrvContinue \/ SrvOk \/ SrvRefuse \/ SrvBye \/ SrvRaw
    BY <1>1, <2>3 DEF SrvContinue, SrvOk, SrvRefuse, SrvBye, SrvRaw, SrvTagged, srvVars, nameVars
  <2>4. CASE TellExpunge \/ TellExists \/ TellFlags
    BY <1>1, <2>4 DEF TellExpunge, TellExists, TellFlags, Announces, nameVars
  <2>5. QED
    BY <1>2, <1>4, <2>1, <2>2, <2>3, <2>4 DEF Server
<1>5. CASE OtherExpunge \/ OtherStore \/ OtherDeliver
  BY <1>1, <1>5 DEF OtherExpunge, OtherStore, OtherDeliver, Changes, nameVars
<1>6. QED
  BY <1>3, <1>4, <1>5 DEF Next

\* the names, or the mailbox whole,
LEMMA ListingData ==
  ASSUME OInv, Answered, Stays, Stays', Listable, SrvPlain \/ SrvSelect
  PROVE  Answered'
<1> USE DEF Stays
<1>1. CASE SrvPlain
  <2>1. CASE Answers("ENABLE", <<D("Enabled", 0, "QRESYNC")>>)
    <3>1. Data(<<D("Enabled", 0, "QRESYNC")>>, req, Len(told'))
      BY OneData DEF D
    <3>2. QED
      BY <2>1, <3>1, AnswersData
  <2>2. CASE Answers("LIST", [i \in 1..Cardinality(wires) |-> D("List", 0, SetToSeq(wires)[i])])
    <3> DEFINE v == SetToSeq(wires)
               f == [i \in 1..Cardinality(wires) |-> D("List", 0, v[i])]
    <3>1. Data(f, req, Len(told'))
      <4> HIDE DEF v
      <4>1. QED
        BY ListsData DEF Listable
    <3>2. Answers("LIST", f)
      BY <2>2
    <3> HIDE DEF f
    <3>3. QED
      BY <3>1, <3>2, AnswersData
  <2>3. CASE Answers("LSUB", [i \in 1..Cardinality(subscribed) |->
                                D("Lsub", 0, SetToSeq(subscribed)[i])])
    <3> DEFINE v == SetToSeq(subscribed)
               f == [i \in 1..Cardinality(subscribed) |-> D("Lsub", 0, v[i])]
    <3>1. Data(f, req, Len(told'))
      <4> HIDE DEF v
      <4>1. QED
        BY ListsData DEF Listable
    <3>2. Answers("LSUB", f)
      BY <2>3
    <3> HIDE DEF f
    <3>3. QED
      BY <3>1, <3>2, AnswersData
  <2>4. CASE Answers("STATUS", <<D("Status", 0,
                                   <<IF req.mailbox = Inbox THEN Len(box) ELSE 0>>)>>)
    <3> DEFINE x == D("Status", 0, <<IF req.mailbox = Inbox THEN Len(box) ELSE 0>>)
    <3>1. x.type \notin {"Fetch", "Search"}
      BY DEF D
    <3>2. Answers("STATUS", <<x>>)
      BY <2>4
    <3> HIDE DEF x
    <3>3. QED
      BY <3>1, <3>2, OneData, AnswersData
  <2>5. CASE Answers("NOOP", <<>>) \/ Answers("CHECK", <<>>)
    BY <2>5, SilentData
  <2>6. QED
    BY <1>1, <2>1, <2>2, <2>3, <2>4, <2>5 DEF SrvPlain
<1>2. CASE SrvSelect
  <2> DEFINE x == D("Exists", 0, Len(box))
             V(w) == D("Vanished", 0, w)
             item(i) == [msg |-> box[i], names |-> {"Uid", "Flags"}, deleted |-> deleted[box[i]]]
             changed == [i \in DOMAIN box |-> D("Fetch", i, item(i))]
             n == Len(told')
  <2>1. PICK op \in {"SELECT", "EXAMINE"} :
          \/ \E w : Answers(op, <<x>> \o <<V(w)>> \o changed)
          \/ Answers(op, <<x>> \o changed)
          \/ Answers(op, <<x>> \o <<>>)
    BY <1>2 DEF SrvSelect
  <2>2. Data(<<x>>, req, n)
    BY OneData DEF D
  <2>3. ASSUME NEW w
        PROVE  Data(<<V(w)>>, req, n)
    BY OneData DEF D
  <2>4. Data(changed, req, n)
    <3>1. /\ Len(box) \in Nat /\ DOMAIN box = 1..Len(box) /\ DOMAIN box \subseteq Uids
      BY BoxBounded
    <3>2. \A i \in DOMAIN box : changed[i].type = "Fetch" /\ changed[i].seq = i
      BY DEF D
    <3>3. changed \in [1..Len(box) -> {changed[i] : i \in 1..Len(box)}]
      BY <3>1
    <3> HIDE DEF changed
    <3>4. \A i \in 1..Len(box) : Fits(changed[i], req, n)
      BY <3>1, <3>2 DEF Fits
    <3>5. QED
      BY <3>1, <3>3, <3>4, DataFrom
  <2>5. Data(<<>>, req, n)
    BY DataNone
  <2> HIDE DEF x, V, changed, n
  <2>6. ASSUME NEW d, Data(d, req, n), Answers(op, d)
        PROVE  Answered'
    BY <2>6, AnswersData DEF n
  <2>7. CASE Answers(op, <<x>> \o changed)
    BY <2>2, <2>4, <2>6, <2>7, DataConcat
  <2>8. ASSUME NEW w, Answers(op, <<x>> \o <<V(w)>> \o changed)
        PROVE  Answered'
    <3>1. Data(<<x>> \o <<V(w)>>, req, n)
      BY <2>2, <2>3, DataConcat
    <3>2. Data(<<x>> \o <<V(w)>> \o changed, req, n)
      BY <2>4, <3>1, DataConcat
    <3>3. QED
      BY <2>6, <2>8, <3>2
  <2>9. CASE Answers(op, <<x>> \o <<>>)
    <3>1. Data(<<x>> \o <<>>, req, n)
      BY <2>2, <2>5, DataConcat
    <3>2. QED
      BY <2>6, <2>9, <3>1
  <2>10. QED
    BY <2>1, <2>7, <2>8, <2>9
<1>3. QED
  BY <1>1, <1>2

\* take messages away or put them in,
LEMMA ChangingData ==
  ASSUME OInv, Answered, Stays, Stays', SrvExpunge \/ SrvCopy \/ SrvMove \/ SrvAppend
  PROVE  Answered'
<1> USE DEF Stays
<1>1. CASE SrvExpunge
  <2>1. PICK S \in SUBSET DOMAIN told : Answers("EXPUNGE", Expunges(S))
    <3> DEFINE S == {k \in DOMAIN told : ~Gone(k) /\ deleted[told[k].uid] /\ told[k].uid \in req.set}
               lost == {k \in DOMAIN told : Gone(k)}
    <3>1. Answers("EXPUNGE", Expunges(S \cup lost))
      BY <1>1 DEF SrvExpunge
    <3>2. S \cup lost \in SUBSET DOMAIN told
      OBVIOUS
    <3> HIDE DEF S, lost
    <3>3. QED
      BY <3>1, <3>2
  <2>2. Data(Expunges(S), req, Len(told'))
    BY NumbersFinite, ExpungesData
  <2>3. QED
    BY <2>1, <2>2, AnswersData
<1>2. Targets \in SUBSET DOMAIN told
  BY DEF Targets
<1>3. Data(Expunges(Targets), req, Len(told')) /\ Data(<<>>, req, Len(told'))
  BY <1>2, NumbersFinite, ExpungesData, DataNone
<1>4. CASE SrvCopy
  BY <1>3, <1>4, ExecutesData DEF SrvCopy
<1>5. CASE SrvMove
  BY <1>3, <1>5, ExecutesData DEF SrvMove
<1>6. CASE SrvAppend
  BY <1>3, <1>6, ExecutesData DEF SrvAppend
<1>7. QED
  BY <1>1, <1>4, <1>5, <1>6

\* complete a command, and announce what others did.
LEMMA TellingData ==
  ASSUME OInv, Answered, Stays, Stays',
         \/ SrvContinue \/ SrvOk \/ SrvRefuse \/ SrvBye \/ SrvRaw
         \/ TellExpunge \/ TellExists \/ TellFlags
  PROVE  Answered'
<1> USE DEF Stays
<1>1. DOMAIN out = DOMAIN NoOutput
  BY DEF OInv, Statuses
<1>2. CASE SrvContinue \/ SrvBye
  BY <1>1, <1>2, SameData DEF SrvContinue, SrvBye, srvVars, sesVars, NoOutput
<1>3. CASE SrvOk
  BY <1>1, <1>3, SameData DEF SrvOk, SrvTagged, sesVars, NoOutput
<1>4. CASE SrvRefuse
  <2>1. out'.data = out.data /\ UNCHANGED <<cmd, req, phase>> /\ phase \in {"header", "sent"}
    BY <1>1, <1>4 DEF SrvRefuse, SrvTagged, NoOutput
  <2>2. CASE told' = told
    BY <2>1, <2>2, SameData
  <2>3. CASE req.op # "SEARCH" /\ req.op # "RAW"
    <3>1. cmd.op # "Raw"
      BY <2>1, <2>3 DEF OInv, Batched, Exchanging
    <3>2. Data(out.data, req, Len(told))
      BY <2>1, <3>1 DEF Answered, Exchanging
    <3>3. Len(told) \in Nat /\ Len(told') \in Nat
      BY LenProperties DEF Numbered
    <3>4. Data(out.data, req, Len(told'))
      BY <2>3, <3>2, <3>3, DataGrows
    <3>5. QED
      BY <2>1, <3>4 DEF Answered
  <2>4. QED
    BY <1>4, <2>2, <2>3 DEF SrvRefuse, sesVars
<1>5. CASE SrvRaw
  <2>1. cmd.op = "Raw" /\ cmd' = cmd
    BY <1>5 DEF SrvRaw, OInv, Batched, Exchanging
  <2>2. QED
    BY <2>1 DEF Answered
<1>6. CASE TellExpunge
  <2>1. PICK k \in DOMAIN told : MayExpunge /\ Announces(Expunges({k}))
    BY <1>6 DEF TellExpunge
  <2>2. Data(Expunges({k}), req, Len(told'))
    BY FS_Singleton, ExpungesData
  <2>3. QED
    BY <2>1, <2>2, AnnouncesData DEF MayExpunge
<1>7. CASE TellExists
  <2> DEFINE x == D("Exists", 0, Len(told) + Len(Fresh))
  <2>1. Announces(<<x>>) /\ told' = told \o News
    BY <1>7 DEF TellExists, News, Fresh
  <2>2. x.type \notin {"Fetch", "Search"}
    BY DEF D
  <2> HIDE DEF x
  <2>3. Data(<<x>>, req, Len(told'))
    BY <2>2, OneData
  <2>4. Len(told') >= Len(told)
    <3>1. view' = view /\ view # "none"
      BY <2>1 DEF Announces
    <3>2. Len(told') = Len(told) + Len(Fresh) /\ Len(Fresh) \in Nat /\ Len(told) \in Nat
      BY <2>1, <3>1, FreshNumbered, NewsFacts, ToldFacts
    <3>3. QED
      BY <3>2
  <2>5. QED
    BY <2>1, <2>3, <2>4, AnnouncesData
<1>8. CASE TellFlags
  <2>1. PICK k \in DOMAIN told, names \in {{"Flags"}, {"Flags", "Uid"}} :
          Announces(Fetched({k}, names)) /\ told' = Sync({k})
    BY <1>8 DEF TellFlags
  <2> DEFINE f == Fetched({k}, names)
  <2>2. f = [i \in 1..Cardinality({k}) |-> f[i]]
    BY DEF Fetched
  <2>3. \A i \in 1..Cardinality({k}) : f[i].type = "Fetch" /\ f[i].seq = Ordered({k})[i]
    BY DEF Fetched, D
  <2>4. Announces(f)
    BY <2>1
  <2> HIDE DEF f
  <2>5. Data(f, req, Len(told'))
    BY <2>2, <2>3, FetchData
  <2>6. Len(told') >= Len(told)
    <3>1. DOMAIN told' = DOMAIN told
      BY <2>1, SyncFacts
    <3>2. told' \in Seq(Entry) /\ told \in Seq(Entry)
      BY DEF Numbered
    <3>3. QED
      BY <3>1, <3>2, LenProperties
  <2>7. QED
    BY <2>4, <2>5, <2>6, AnnouncesData
<1>9. QED
  BY <1>2, <1>3, <1>4, <1>5, <1>6, <1>7, <1>8
-----------------------------------------------------------------------------
(* What the client makes of it.                                            *)

\* Every step leaves the call with an output of its own command.
LEMMA AnsweredSteps ==
  ASSUME OInv, Answered, Stays, Stays', Listable, Next
  PROVE  Answered'
<1>1. CASE out' = NoOutput
  <2>1. out'.data = <<>>
    BY <1>1 DEF NoOutput
  <2>2. Data(<<>>, req', Len(told'))
    BY DataNone
  <2>3. QED
    BY <2>1, <2>2 DEF Answered
<1>2. CASE SessionCommands \/ MailboxCommands \/ MessageCommands \/ ReadEof
  <2>1. CASE Starts \/ FetchesNext
    BY <1>1, <2>1 DEF Starts, FetchesNext
  <2>2. CASE Reads
    BY <2>2 DEF Reads, Answered, Exchanging
  <2>3. CASE Advances
    <3>1. told' = told /\ req' = req /\ cmd' = cmd /\ phase \in Exchanging
      BY <2>3 DEF Advances, srvVars, sesVars, Exchanging
    <3>2. CASE out' = out
      BY <3>1, <3>2 DEF Answered
    <3>3. QED
      BY <1>1, <2>3, <3>2 DEF Advances
  <2>4. CASE Raw
    BY <1>1, <2>4 DEF Raw, RawRefused, RawStart, RawRead, RawEof, Kept, Answered
  <2>5. QED
    BY <1>2, <2>1, <2>2, <2>3, <2>4, ClientSteps
<1>3. CASE Server
  BY <1>3, ReadingData, ListingData, ChangingData, TellingData DEF Server
<1>4. CASE OtherExpunge \/ OtherStore \/ OtherDeliver
  <2>1. UNCHANGED <<cmd, req, phase, out, told>>
    BY <1>4 DEF OtherExpunge, OtherStore, OtherDeliver, Changes, callVars, sesVars
  <2>2. QED
    BY <2>1, SameData
<1>5. QED
  BY <1>2, <1>3, <1>4 DEF Next

\* Responses of one type are among those read.
LEMMA OfTypeFacts ==
  ASSUME NEW o, Plain(o.data), NEW type
  PROVE  /\ Plain(OfType(o, type)) /\ Len(OfType(o, type)) \in Nat
         /\ DOMAIN OfType(o, type) = 1..Len(OfType(o, type))
         /\ \A i \in DOMAIN OfType(o, type) :
              \E k \in DOMAIN o.data : o.data[k].type = type /\ OfType(o, type)[i] = o.data[k]
<1> DEFINE T == ToSet(o.data)
           S == {i \in DOMAIN o.data : o.data[i].type = type}
           s == o.data
           a == At(s, S)
           n == Cardinality(S)
           q == Ordered(S)
<1>1. s \in Seq(T) /\ S \in SUBSET DOMAIN s
  BY DEF Plain
<1> HIDE DEF T
<1>2. /\ n \in Nat /\ DOMAIN a = 1..n /\ a \in Seq(T) /\ Len(a) = n
      /\ \A i \in 1..n : q[i] \in S /\ a[i] = s[q[i]]
  <2> HIDE DEF s, S
  <2>1. QED
    BY <1>1, AtFacts
<1>3. OfType(o, type) = a
  BY DEF OfType
<1> HIDE DEF a, n, q
<1>4. \A i \in DOMAIN a : \E k \in DOMAIN s : s[k].type = type /\ a[i] = s[k]
  BY <1>2
<1>5. Plain(a)
  <2>1. a \in [1..n -> T]
    BY <1>2, LenProperties
  <2>2. QED
    BY <1>2, <2>1, PlainFrom
<1>6. QED
  BY <1>2, <1>3, <1>4, <1>5

\* The ids a search found.
LEMMA SearchFacts ==
  ASSUME NEW o, NEW r, NEW n, Data(o.data, r, n)
  PROVE  /\ SearchIds(o) \in Seq(Uids)
         /\ ~r.uid => \A i \in DOMAIN SearchIds(o) : SearchIds(o)[i] \in 1..n
<1> DEFINE e == OfType(o, "Search")
           v == Values(e)
           none == <<>>
<1>1. /\ Len(e) \in Nat /\ DOMAIN e = 1..Len(e)
      /\ \A i \in DOMAIN e : \E k \in DOMAIN o.data : o.data[k].type = "Search" /\ e[i] = o.data[k]
  BY OfTypeFacts DEF Data
<1>2. \A i \in DOMAIN e : /\ e[i].value \in Seq(Uids)
                          /\ ~r.uid => \A j \in DOMAIN e[i].value : e[i].value[j] \in 1..n
  BY <1>1 DEF Data, Fits
<1>3. none \in Seq(Uids) /\ DOMAIN none = {}
  OBVIOUS
<1> HIDE DEF e, none
<1>4. v = [i \in DOMAIN e |-> e[i].value]
  BY DEF Values
<1>5. DOMAIN v = 1..Len(e) /\ \A i \in 1..Len(e) : v[i] = e[i].value
  BY <1>1, <1>4
<1>6. CASE v = none
  <2>1. LastOf(o, "Search") = {}
    BY <1>6 DEF LastOf, e, none
  <2>2. SearchIds(o) = none
    BY <2>1 DEF SearchIds, none
  <2>3. QED
    BY <1>3, <2>2
<1>7. CASE v # none
  <2>1. LastOf(o, "Search") = {Last(v)}
    BY <1>7 DEF LastOf, e, none
  <2>2. SearchIds(o) = Last(v)
    BY <2>1 DEF SearchIds
  <2>3. v \in [1..Len(e) -> {v[i] : i \in 1..Len(e)}]
    BY <1>1, <1>4
  <2>4. Len(v) = Len(e) /\ v \in Seq({v[i] : i \in 1..Len(e)})
    <3> HIDE DEF v
    <3>1. QED
      BY <1>1, <2>3, SeqFrom
  <2>5. Len(e) # 0
    <3>1. Len(v) = 0 => v = none
      <4> HIDE DEF v
      <4>1. QED
        BY <2>4, EmptySeq DEF none
    <3>2. QED
      BY <1>7, <2>4, <3>1
  <2>6. Last(v) = v[Len(e)] /\ Len(e) \in 1..Len(e)
    BY <1>1, <2>4, <2>5 DEF Last
  <2>7. Last(v) = e[Len(e)].value /\ Len(e) \in DOMAIN e
    BY <1>1, <1>5, <2>6
  <2> HIDE DEF v
  <2>8. QED
    BY <1>2, <2>2, <2>7
<1>8. QED
  BY <1>6, <1>7

\* What is left to fetch is a tail of what was found.
LEMMA NextFetchTail ==
  ASSUME NEW ids \in Seq(Uids), NextFetch(ids)
  PROVE  remaining' \in Seq(Uids)
<1>1. Len(ids) \in Nat /\ MaxChunk \in Nat
  BY LenProperties, ChunkAssumption
<1> DEFINE take == IF Len(ids) < MaxChunk THEN Len(ids) ELSE MaxChunk
<1>2. remaining' = SubSeq(ids, take + 1, Len(ids)) /\ take \in 0..Len(ids)
  BY <1>1 DEF NextFetch
<1> HIDE DEF take
<1>3. /\ take + 1 \in 1..Len(ids) + 1
      /\ Len(ids) \in 0..Len(ids)
  BY <1>1, <1>2
<1>4. \A i \in (take + 1)..Len(ids) : ids[i] \in Uids
  BY <1>1, <1>2, ElementOfSeq
<1>5. SubSeq(ids, take + 1, Len(ids)) \in Seq(Uids)
  BY <1>1, <1>3, <1>4, SubSeqProperties
<1>6. QED
  BY <1>2, <1>5

\* The messages fetched are numbered.
LEMMA FetchMapFacts ==
  ASSUME NEW o, NEW r, NEW n, Data(o.data, r, n)
  PROVE  DOMAIN FetchMap(o) \subseteq Uids
<1> DEFINE all == OfType(o, "Fetch")
<1>1. \A i \in DOMAIN all : all[i].seq \in Uids
  BY OfTypeFacts DEF Data, Fits
<1>2. DOMAIN FetchMap(o) = {all[i].seq : i \in DOMAIN all}
  BY DEF FetchMap
<1>3. QED
  BY <1>1, <1>2

\* The fallback of SORT remembers what the search and the chunks returned.
LEMMA FetchesSorting ==
  ASSUME OInv, Requests, Answered, Stays, Sorting, FetchesNext
  PROVE  Sorting'
<1>1. phase \in Exchanging /\ cmd.op = "Sort"
  BY DEF FetchesNext
<1>2. Data(out.data, req, Len(told)) /\ Asked(cmd, req)
  BY <1>1 DEF Answered, Requests
<1>3. CASE UNCHANGED sortVars
  BY <1>3 DEF sortVars, Sorting
<1>4. CASE SortSearched
  <2> DEFINE ids == SearchIds(out)
             S == {IF cmd.uid THEN id ELSE told[id].uid : id \in ToSet(ids)}
  <2>1. ids \in Seq(Uids) /\ (~req.uid => \A i \in DOMAIN ids : ids[i] \in 1..Len(told))
    BY <1>2, SearchFacts
  <2>2. req.op = "SEARCH" => req.uid = cmd.uid
    BY <1>1, <1>2 DEF Asked
  <2>3. req.op = "SEARCH"
    BY <1>4 DEF SortSearched
  <2>4. /\ DOMAIN told = 1..Len(told) /\ \A k \in DOMAIN told : told[k].uid \in Uids
        /\ DOMAIN ids = 1..Len(ids) /\ \A i \in DOMAIN ids : ids[i] \in Uids
    BY <2>1, ToldFacts, LenProperties, ElementOfSeq DEF Stays
  <2>5. UNCHANGED sortVars \/ (NextFetch(ids) /\ searched' = S /\ UNCHANGED fetched)
    BY <1>4 DEF SortSearched, Kept
  <2> HIDE DEF ids
  <2>6. S \subseteq Uids
    BY <2>1, <2>2, <2>3, <2>4 DEF ToSet
  <2>7. CASE NextFetch(ids) /\ searched' = S /\ UNCHANGED fetched
    BY <2>1, <2>6, <2>7, NextFetchTail DEF Sorting
  <2>8. QED
    BY <1>3, <2>5, <2>7
<1>5. CASE SortFetched
  <2> DEFINE map == FetchMap(out)
             merged == [k \in DOMAIN fetched \cup DOMAIN map |->
                          IF k \in DOMAIN map THEN map[k] ELSE fetched[k]]
  <2>1. DOMAIN map \subseteq Uids
    BY <1>2, FetchMapFacts
  <2>2. UNCHANGED sortVars \/ (NextFetch(remaining) /\ fetched' = merged /\ UNCHANGED searched)
    BY <1>5 DEF SortFetched, Kept
  <2> HIDE DEF map
  <2>3. DOMAIN merged = DOMAIN fetched \cup DOMAIN map
    OBVIOUS
  <2>4. CASE NextFetch(remaining) /\ fetched' = merged /\ UNCHANGED searched
    <3>1. remaining' \in Seq(Uids)
      BY <2>4, NextFetchTail DEF Sorting
    <3>2. DOMAIN fetched' \subseteq Uids
      BY <2>1, <2>3, <2>4 DEF Sorting
    <3>3. QED
      BY <2>4, <3>1, <3>2 DEF Sorting
  <2>5. QED
    BY <1>3, <2>2, <2>4
<1>6. QED
  BY <1>4, <1>5 DEF FetchesNext

LEMMA SortingSteps ==
  ASSUME OInv, Requests, Answered, Stays, Sorting, Next
  PROVE  Sorting'
<1>1. CASE UNCHANGED sortVars
  BY <1>1 DEF sortVars, Sorting
<1>2. CASE Starts
  <2> DEFINE e == <<>>
  <2>1. e \in Seq(Uids) /\ DOMAIN e = {}
    OBVIOUS
  <2>2. remaining' = e /\ fetched' = e /\ searched' = {}
    BY <1>2 DEF Starts
  <2> HIDE DEF e
  <2>3. QED
    BY <2>1, <2>2 DEF Sorting
<1>3. CASE Raw \/ SrvRaw
  BY <1>1, <1>3 DEF Raw, RawRefused, RawStart, RawRead, RawEof, Kept, SrvRaw
<1>4. CASE Reads \/ Advances \/ Serves \/ Concludes \/ Keeps
  BY <1>1, <1>4 DEF Reads, Advances, Serves, Concludes, Keeps, Kept
<1>5. QED
  BY <1>2, <1>3, <1>4, FetchesSorting, EveryStep DEF Shape

-----------------------------------------------------------------------------
(* The types.                                                              *)

TInv ==
  OInv /\ CallState /\ Stays /\ Listable /\ Answered /\ Sorting

\* INBOX as it is at the start.
LEMMA BoxInit == Init => Boxed
<1> SUFFICES ASSUME Init
             PROVE  Boxed
  OBVIOUS
<1> DEFINE o == Ordered(Known)
           n == Cardinality(Known)
<1>1. IsFiniteSet(Known) /\ Known \in SUBSET Nat
  <2>1. IsFiniteSet(1..MaxUid)
    BY BoundNat, FS_Interval
  <2>2. QED
    BY <2>1, BoundNat, FS_Subset
<1>2. /\ n \in Nat /\ o \in [1..n -> Known]
      /\ \A i, j \in 1..n : i < j => o[i] < o[j]
      /\ \A x \in Known : \E i \in 1..n : o[i] = x
  BY <1>1, OrderedFacts
<1> HIDE DEF o, n
<1>3. o \in Seq(Uids) /\ Len(o) = n /\ DOMAIN o = 1..n
  <2>1. o \in [1..n -> Uids]
    BY <1>2, BoundNat
  <2>2. QED
    BY <1>2, <2>1, SeqFrom
<1>4. ASSUME NEW i \in 1..n, NEW j \in 1..n, o[i] = o[j]
      PROVE  i = j
  <2>1. i \in Nat /\ j \in Nat /\ o[i] \in Nat
    <3>1. o[i] \in Known
      BY <1>2
    <3>2. n \in Nat
      BY <1>2
    <3>3. i \in Nat /\ j \in Nat
      BY <3>2
    <3>4. o[i] \in Nat
      BY <1>1, <3>1, Zenon
    <3>5. QED
      BY <3>3, <3>4
  <2>2. i < j => o[i] < o[j]
    BY <1>2
  <2>3. j < i => o[j] < o[i]
    BY <1>2
  <2>4. QED
    BY <1>4, <2>1, <2>2, <2>3
<1>5. IsInjective(o)
  BY <1>3, <1>4 DEF IsInjective
<1>6. ToSet(o) \subseteq Known
  BY <1>2, <1>3 DEF ToSet
<1> DEFINE m == Max({0} \cup Known)
<1>7. m \in 0..MaxUid /\ \A u \in Known : u <= m
  <2>1. \E x \in {0} \cup Known : \A y \in {0} \cup Known : x >= y
    <3>1. CASE Known = {}
      BY <3>1
    <3>2. CASE Known # {}
      <4>1. n # 0
        BY <1>2, <3>2
      <4>2. n \in 1..n /\ \A x \in Known : x <= o[n]
        <5>1. n \in 1..n
          BY <1>2, <4>1
        <5>2. ASSUME NEW x \in Known
              PROVE  x <= o[n]
          <6>1. PICK i \in 1..n : o[i] = x
            BY <1>2
          <6>2. i = n \/ i < n
            BY <1>2
          <6>3. o[n] \in Nat /\ x \in Nat
            BY <1>1, <1>2, <5>1
          <6>4. QED
            BY <1>2, <5>1, <6>1, <6>2, <6>3
        <5>3. QED
          BY <5>1, <5>2
      <4>3. o[n] \in Known /\ o[n] \in Nat
        BY <1>1, <1>2, <4>2
      <4>4. QED
        BY <4>2, <4>3, <1>1
    <3>3. QED
      BY <3>1, <3>2
  <2>2. /\ m \in {0} \cup Known /\ \A y \in {0} \cup Known : m >= y
    BY <2>1, Zenon DEF Max
  <2> HIDE DEF m
  <2>3. QED
    BY <2>2, BoundNat
<1>8. box = o /\ nextUid = m + 1 /\ deleted = [u \in Uids |-> FALSE]
  BY DEF Init, o
<1> HIDE DEF m
<1>9. nextUid \in 1..(MaxUid + 1) /\ \A u \in Known : u < nextUid
  BY <1>1, <1>7, <1>8, BoundNat
<1>10. deleted \in [Uids -> BOOLEAN]
  BY <1>8
<1>11. \A u \in Known \cup ToSet(box) : u < nextUid
  BY <1>6, <1>8, <1>9
<1>12. QED
  BY <1>3, <1>5, <1>8, <1>9, <1>10, <1>11 DEF Boxed

\* So is the rest of the state.
LEMMA TypesInit == Init => TInv
<1> SUFFICES ASSUME Init
             PROVE  TInv
  OBVIOUS
<1>1. OInv /\ Boxed /\ Listable
  BY InitInv, BoxInit, ListableInit
<1>2. Numbered
  <2>1. told = Listed /\ view = "rw"
    BY DEF Init
  <2>2. ASSUME NEW j \in DOMAIN Listed, NEW k \in DOMAIN Listed, Listed[j].uid = Listed[k].uid
        PROVE  j = k
    BY <1>1, <2>2, ListedFacts DEF Boxed, IsInjective
  <2>3. Listed \in Seq(Entry)
    BY <1>1, ListedFacts
  <2>4. QED
    BY <2>1, <2>2, <2>3 DEF Numbered
<1> DEFINE e == <<>>
<1>3. e \in Seq(Copied1) /\ e \in Seq(Fragment) /\ e \in Seq(Uids) /\ DOMAIN e = {} /\ Len(e) = 0
  OBVIOUS
<1>4. copies = e /\ lines = e /\ remaining = e /\ fetched = e
  BY DEF Init
<1> HIDE DEF e
<1>5. Owned
  BY <1>3, <1>4, NamesAssumption DEF Init, Owned
<1>6. CallState
  <2>1. phase = "idle" /\ cmd = NoCommand /\ result.status = "none"
    BY DEF Init, NoResult
  <2>2. Requests /\ Called
    BY <2>1 DEF Requests, Called, Exchanging
  <2>3. Counted
    <3>1. ran = FALSE /\ heard = FALSE /\ commands = 0 /\ changes = 0
      BY DEF Init
    <3>2. 0 \in 0..MaxCommands /\ 0 \in 0..MaxChanges
      BY MaxAssumption
    <3>3. ran \in BOOLEAN /\ heard \in BOOLEAN
      BY <3>1
    <3>4. commands \in 0..MaxCommands /\ changes \in 0..MaxChanges
      BY <3>1, <3>2
    <3>5. QED
      BY <3>3, <3>4 DEF Counted
  <2>4. Captures
    BY <1>3, <1>4 DEF Init, Captures
  <2>5. QED
    BY <2>2, <2>3, <2>4 DEF CallState
<1>7. Answered
  BY DEF Init, Answered, Exchanging
<1>8. Sorting
  BY <1>3, <1>4 DEF Init, Sorting
<1>9. QED
  BY <1>1, <1>2, <1>5, <1>6, <1>7, <1>8 DEF TInv, Stays

\* The invariant is inductive.
LEMMA TypesStep == TInv /\ [Next]_vars => TInv'
<1> SUFFICES ASSUME TInv, [Next]_vars
             PROVE  TInv'
  OBVIOUS
<1>1. OInv'
  BY StepInv DEF TInv
<1>2. CASE Next
  <2>1. CallState' /\ Stays' /\ Listable' /\ Sorting'
    BY <1>1, <1>2, CallSteps, ServerStays, ListableSteps, SortingSteps DEF TInv, CallState
  <2>2. Answered'
    BY <1>2, <2>1, AnsweredSteps DEF TInv
  <2>3. QED
    BY <1>1, <2>1, <2>2 DEF TInv
<1>3. CASE UNCHANGED vars
  <2>1. UNCHANGED <<cmd, req, phase, out, result, ran, heard, commands, changes>>
    BY <1>3 DEF vars, callVars
  <2>2. UNCHANGED <<pending, lines, taken, remaining, fetched, searched>>
    BY <1>3 DEF vars, callVars, rawVars, sortVars
  <2>3. /\ UNCHANGED <<box, deleted, nextUid, wires, subscribed, mine, mySubs>>
        /\ UNCHANGED <<view, told, copies, stored>>
    BY <1>3 DEF vars, srvVars, boxVars, nameVars, sesVars
  <2>4. CallState'
    BY <2>1, <2>2 DEF TInv, CallState, Requests, Counted, Called, Captures
  <2>5. Stays' /\ Listable'
    BY <2>3 DEF TInv, Stays, Boxed, Numbered, Owned, Listable
  <2>6. Answered' /\ Sorting'
    BY <2>1, <2>2, <2>3 DEF TInv, Answered, Sorting
  <2>7. QED
    BY <1>1, <2>4, <2>5, <2>6 DEF TInv
<1>4. QED
  BY <1>2, <1>3

LEMMA InvTypes == TInv => TypeOK
<1> SUFFICES ASSUME TInv
             PROVE  TypeOK
  OBVIOUS
<1> USE DEF TInv
<1>1. phase \in Exchanging \cup {"idle", "closed"}
  BY DEF OInv, Staged
<1>2. out.tagged \subseteq {"Ok", "No", "Bad"} /\ Cardinality(out.tagged) <= 1
  <2>1. Cardinality({}) = 0 /\ Cardinality({"Ok"}) = 1 /\ Cardinality({"No"}) = 1
        /\ Cardinality({"Bad"}) = 1
    BY FS_EmptySet, FS_Singleton
  <2>2. out.tagged \in {{}, {"Ok"}, {"No"}, {"Bad"}}
    BY DEF OInv, Statuses
  <2>3. QED
    BY <2>1, <2>2
<1>3. (result.status = "none") <=> (phase \in Exchanging \/ cmd = NoCommand)
  BY DEF CallState, Called
<1>4. remaining \in Seq(Uids) /\ searched \subseteq Uids /\ DOMAIN fetched \subseteq Uids
  BY DEF Sorting
<1>5. /\ lines \in Seq(Fragment) /\ taken \in 0..Len(lines)
      /\ pending \subseteq Nat \ {0} /\ (pending # {} => Len(out.data) <= taken)
  BY DEF CallState, Captures
<1>6. /\ box \in Seq(Uids) /\ IsInjective(box) /\ deleted \in [Uids -> BOOLEAN]
      /\ nextUid \in 1..(MaxUid + 1)
  BY DEF Stays, Boxed
<1>7. /\ view \in {"rw", "ro", "none"} /\ (view = "none" => told = <<>>)
      /\ told \in Seq([uid : Uids, deleted : BOOLEAN])
  BY DEF Stays, Numbered, Entry
<1>8. /\ mine \subseteq Names /\ mySubs \subseteq Names
      /\ copies \in Seq([uid : Nat, source : Uids]) /\ stored \in Nat
  BY DEF Stays, Owned, Copied1
<1>9. /\ ran \in BOOLEAN /\ heard \in BOOLEAN
      /\ commands \in 0..MaxCommands /\ changes \in 0..MaxChanges
  BY DEF CallState, Counted
<1>10. QED
  BY <1>1, <1>2, <1>3, <1>4, <1>5, <1>6, <1>7, <1>8, <1>9 DEF TypeOK

LEMMA TInvAlways == Spec => []TInv
BY TypesInit, TypesStep, PTL DEF Spec

(* The state of the commands keeps its types: INBOX holds each UID once,   *)
(* no message has two numbers in the numbering announced, what the         *)
(* fallback of SORT has left to fetch or has fetched are numbers of        *)
(* messages, and a raw call never captures more than it has read; for any  *)
(* number of messages, mailboxes, commands and changes by others           *)
(* (src/rfc5256/sort.rs:202-261, src/rfc3501/raw.rs:186-243).              *)
THEOREM CommandsTyped == Spec => []TypeOK
BY TInvAlways, InvTypes, PTL
=============================================================================
