------------------------------ MODULE Commands ------------------------------
(***************************************************************************)
(* The commands of an open session (src/rfc3501, src/rfc3691, src/rfc4315, *)
(* src/rfc5161, src/rfc5256, src/rfc6851): what each coroutine sends, and  *)
(* what it makes of the output of its exchange.  One client calls them     *)
(* through ImapClientStd, one at a time; the server keeps the mailbox      *)
(* INBOX, which other clients change meanwhile, a set of mailbox names,    *)
(* and announces what happened in the responses it sends.                  *)
(*                                                                         *)
(* The exchange itself is that of ImapSend.tla, seen here as its output:   *)
(* data, untagged codes, tagged status, BYE, continuation request.         *)
(***************************************************************************)
EXTENDS Naturals, FiniteSets, MailboxNames, UidSets, MessageSort, RawLines

CONSTANTS
  Known,        \* the UIDs of INBOX at the start
  MaxUid,       \* bound: the UIDs of INBOX
  Names,        \* the other mailboxes the caller names
  Created,      \* those there at the start, in one case or another
  Strays,       \* wire names there of other mailboxes, well formed or not
  IdSets,       \* the sequence sets the caller gives
  Criteria,     \* the sort criteria the caller gives
  Batches,      \* the input the caller gives to a raw command
  Replies,      \* the untagged responses to one
  Lengths,      \* the lengths of the messages it streams
  LiteralWidth, \* literals announce their length modulo this (2^32)
  MaxChunk,     \* MAX_CHUNK
  MaxCommands,  \* bound: commands called
  MaxChanges    \* bound: changes by other clients

Uids == 1..MaxUid
ASSUME UidAssumption == MaxUid \in Nat /\ Known \subseteq Uids /\ IdSets \subseteq SUBSET Uids
ASSUME NamesAssumption ==
  /\ IsFiniteSet(Names) /\ Names \subseteq Seq(Characters) /\ Created \subseteq SUBSET Names
  /\ IsFiniteSet(Strays) /\ \A w \in Strays : DecodeInplace(w) \notin Names
ASSUME CriteriaAssumption ==
  /\ Criteria \subseteq Seq([key : SortKeys, reverse : BOOLEAN])
  /\ \A m \in Uids : Attributes[m]["Date"] \in Nat
  /\ \A c \in Criteria : \A i \in DOMAIN c : \A m \in Uids : Attributes[m][c[i].key] \in Nat
ASSUME RawAssumption ==
  /\ Batches \subseteq Seq(Fragment) /\ Replies \subseteq Seq(Fragment)
  /\ \A r \in Replies : Tags(r, 1, Len(r)) \subseteq {0}
ASSUME MaxAssumption == MaxCommands \in Nat /\ MaxChanges \in Nat
ASSUME LengthAssumption == Lengths \subseteq Nat
ASSUME ChunkAssumption == MaxChunk \in Nat \ {0} /\ LiteralWidth \in Nat \ {0}

VARIABLES
  cmd,        \* the call under way, or the last one
  req,        \* the command on the wire, as the server reads it
  phase,      \* "idle", "header", "stream", "sent", "served", "closed"
  out,        \* what the exchange has read
  result,     \* what the last call returned
  remaining,  \* ImapMessageSort
  fetched,    \* ImapMessageSort
  pending,    \* ImapRaw: the tags not completed yet
  taken       \* the fragments read in answer to a raw command

VARIABLES
  box,        \* INBOX: the UIDs of its messages, in order
  deleted,    \* per UID: the \Deleted flag
  nextUid,
  view,       \* INBOX is selected: "rw", "ro", or "none"
  told,       \* the numbering announced to this session, with the flags announced
  wires,      \* the other mailboxes, by wire name
  subscribed, \* by wire name
  copies,     \* the copies made by this session
  stored,     \* the octets of the last message appended
  lines       \* the fragments sent in answer to a raw command

VARIABLES
  mine,       \* history: the names the caller created and has not deleted
  mySubs,     \* history: the names it subscribed to
  ran,        \* history: the server executed the command on the wire
  heard,      \* history: something unasked was announced during the call
  searched,   \* history: the messages the search of a sort found
  commands, changes

rawVars == <<pending, lines, taken>>
sortVars == <<remaining, fetched, searched>>
boxVars == <<box, deleted, nextUid>>
nameVars == <<wires, subscribed, mine, mySubs>>
sesVars == <<view, told>>
srvVars == <<boxVars, nameVars, sesVars, copies, stored>>
callVars == <<cmd, req, phase, out, result, rawVars, ran, heard, commands>>
vars == <<callVars, sortVars, srvVars, changes>>

D(type, seq, value) == [type |-> type, seq |-> seq, value |-> value]
NoCode == [name |-> "none"]
NoOutput == [data |-> <<>>, untagged |-> <<>>, tagged |-> {}, code |-> NoCode,
             bye |-> FALSE, cr |-> FALSE]
NoCommand == [op |-> "none"]
NoResult == [status |-> "none", value |-> <<>>]
Exchanging == {"header", "stream", "sent", "served"}

TypeOK ==
  /\ phase \in Exchanging \cup {"idle", "closed"}
  /\ out.tagged \subseteq {"Ok", "No", "Bad"} /\ Cardinality(out.tagged) <= 1
  /\ (result.status = "none") <=> (phase \in Exchanging \/ cmd = NoCommand)
  /\ remaining \in Seq(Uids) /\ searched \subseteq Uids /\ DOMAIN fetched \subseteq Uids
  /\ lines \in Seq(Fragment) /\ taken \in 0..Len(lines)
  /\ pending \subseteq Nat \ {0} /\ (pending # {} => Len(out.data) <= taken)
  /\ box \in Seq(Uids) /\ IsInjective(box) /\ deleted \in [Uids -> BOOLEAN]
  /\ nextUid \in 1..(MaxUid + 1) /\ view \in {"rw", "ro", "none"}
  /\ told \in Seq([uid : Uids, deleted : BOOLEAN]) /\ (view = "none" => told = <<>>)
  /\ mine \subseteq Names /\ mySubs \subseteq Names
  /\ copies \in Seq([uid : Nat, source : Uids]) /\ stored \in Nat
  /\ ran \in BOOLEAN /\ heard \in BOOLEAN
  /\ commands \in 0..MaxCommands /\ changes \in 0..MaxChanges

\* The numbers of S in ascending order, and the elements of s at the positions S.
Ordered(S) ==
  [i \in 1..Cardinality(S) |-> CHOOSE n \in S : Cardinality({m \in S : m < n}) = i - 1]
At(s, S) == [i \in 1..Cardinality(S) |-> s[Ordered(S)[i]]]

\* The messages of INBOX among U.
InBox(U) == At(box, {i \in DOMAIN box : box[i] \in U})

Told(u) == [uid |-> u, deleted |-> deleted[u]]
Listed == [i \in DOMAIN box |-> Told(box[i])]

Init ==
  /\ cmd = NoCommand /\ req = NoCommand /\ phase = "idle"
  /\ out = NoOutput /\ result = NoResult
  /\ remaining = <<>> /\ fetched = <<>> /\ pending = {} /\ lines = <<>> /\ taken = 0
  /\ box = Ordered(Known) /\ deleted = [u \in Uids |-> FALSE]
  /\ nextUid = Max({0} \cup Known) + 1
  /\ view = "rw" /\ told = Listed
  /\ mine \in Created /\ mySubs = {}
  /\ wires = {EncodeInplace(n) : n \in mine} \cup Strays /\ subscribed = {}
  /\ copies = <<>> /\ stored = 0
  /\ ran = FALSE /\ heard = FALSE /\ searched = {} /\ commands = 0 /\ changes = 0

-----------------------------------------------------------------------------
(* Calling a command and returning from it.                                *)

Call(c, request, first) ==
  /\ phase = "idle" /\ commands < MaxCommands
  /\ commands' = commands + 1
  /\ cmd' = c /\ req' = request /\ phase' = first
  /\ out' = NoOutput /\ result' = NoResult
  /\ remaining' = <<>> /\ fetched' = <<>> /\ searched' = {}
  /\ pending' = {} /\ lines' = <<>> /\ taken' = 0
  /\ ran' = FALSE /\ heard' = FALSE
  /\ UNCHANGED <<srvVars, changes>>
Sends(c, request) == Call(c, request, "sent")

ReturnHanging(status, value) ==   \* mutant: the call returns and stays under way
  /\ result' = [status |-> status, value |-> value]
  /\ phase' = IF status \in {"Bye", "Send", "Eof", "ShortMessage"} THEN "closed" ELSE phase
\* The caller gives the connection up after a BYE or an error of the exchange.
Return(status, value) ==
  /\ result' = [status |-> status, value |-> value]
  /\ phase' = IF status \in {"Bye", "Send", "Eof", "ShortMessage"} THEN "closed" ELSE "idle"

Kept == <<cmd, req, out, rawVars, ran, heard, commands, sortVars, srvVars, changes>>

\* The exchange has ended: its batch held the tagged status or a BYE.
Ended == phase \in {"sent", "served"} /\ (out.tagged # {} \/ out.bye)

StatusLenient(o) == IF o.tagged = {} THEN "Ok" ELSE CHOOSE k \in {"Ok", "No", "Bad"} : k \in o.tagged  \* mutant: a BYE is a clean end
Status(o) ==
  IF o.bye THEN "Bye"
  ELSE IF o.tagged = {} THEN "MissingTagged"
  ELSE CHOOSE k \in {"Ok", "No", "Bad"} : k \in o.tagged

Completes(op, Value(_)) ==
  /\ cmd.op = op /\ Ended
  /\ Return(Status(out), IF Status(out) = "Ok" THEN Value(out) ELSE <<>>)
  /\ UNCHANGED Kept

\* Of a command whose OK is an error when the data is missing.
Requires(op, Value(_)) ==
  /\ cmd.op = op /\ Ended
  /\ IF Status(out) = "Ok" /\ Value(out) # {}
     THEN \E v \in Value(out) : Return("Ok", v)
     ELSE Return(IF Status(out) = "Ok" THEN "MissingData" ELSE Status(out), <<>>)
  /\ UNCHANGED Kept

ReadEof ==
  /\ phase \in {"header", "sent", "served"}
  /\ ~out.cr /\ out.tagged = {} /\ ~out.bye /\ cmd.op # "Raw"
  /\ Return("Send", <<>>)
  /\ UNCHANGED Kept

Unit(o) == <<>>
OfType(o, type) == At(o.data, {i \in DOMAIN o.data : o.data[i].type = type})
Values(s) == [i \in DOMAIN s |-> s[i].value]
LastOf(o, type) ==
  LET s == Values(OfType(o, type)) IN IF s = <<>> THEN {} ELSE {Last(s)}
Seqs(o) == LET e == OfType(o, "Expunge") IN [i \in DOMAIN e |-> e[i].seq]

-----------------------------------------------------------------------------
(* Commands on mailboxes.                                                  *)

Noop == Sends([op |-> "Noop"], [op |-> "NOOP"]) \/ Completes("Noop", Unit)
Check == Sends([op |-> "Check"], [op |-> "CHECK"]) \/ Completes("Check", Unit)
Close == Sends([op |-> "Close"], [op |-> "CLOSE"]) \/ Completes("Close", Unit)
Unselect == Sends([op |-> "Unselect"], [op |-> "UNSELECT"]) \/ Completes("Unselect", Unit)

\* LOGOUT alone wants the BYE, and looks for it first.
LogoutStatus(o) ==
  IF ~o.bye THEN "MissingBye" ELSE Status([o EXCEPT !.bye = FALSE])
Logout ==
  \/ Sends([op |-> "Logout"], [op |-> "LOGOUT"])
  \/ /\ cmd.op = "Logout" /\ Ended
     /\ result' = [status |-> LogoutStatus(out), value |-> <<>>] /\ phase' = "closed"
     /\ UNCHANGED Kept

Enable == Sends([op |-> "Enable"], [op |-> "ENABLE"])
            \/ Completes("Enable", LAMBDA o : LastOf(o, "Enabled"))

Named(op, wire) ==
  \E m \in Names : Sends([op |-> op, mailbox |-> m], [op |-> wire, mailbox |-> EncodeInplace(m)])

Create == Named("Create", "CREATE") \/ Completes("Create", Unit)
Delete == Named("Delete", "DELETE") \/ Completes("Delete", Unit)
Subscribe == Named("Subscribe", "SUBSCRIBE") \/ Completes("Subscribe", Unit)
Unsubscribe == Named("Unsubscribe", "UNSUBSCRIBE") \/ Completes("Unsubscribe", Unit)
Rename ==
  \/ \E m, n \in Names :
       Sends([op |-> "Rename", mailbox |-> m, to |-> n],
             [op |-> "RENAME", mailbox |-> EncodeInplace(m), to |-> EncodeInplace(n)])
  \/ Completes("Rename", Unit)

Decoded(s) == [i \in DOMAIN s |-> DecodeInplace(s[i])]
List == Sends([op |-> "List"], [op |-> "LIST"])
          \/ Completes("List", LAMBDA o : Decoded(Values(OfType(o, "List"))))
Lsub == Sends([op |-> "Lsub"], [op |-> "LSUB"])
          \/ Completes("Lsub", LAMBDA o : Decoded(Values(OfType(o, "Lsub"))))
MailboxStatus ==
  \/ \E m \in Names \cup {Inbox} :
       Sends([op |-> "Status", mailbox |-> m], [op |-> "STATUS", mailbox |-> EncodeInplace(m)])
  \/ Completes("Status", LAMBDA o : FlattenSeq(Values(OfType(o, "Status"))))

\* The fields kept of a SELECT: the last of each, and every change and range.
\* The code reads the `*` of a range as the largest UID there may be; RFC 7162
\* forbids it in VANISHED, and the server of this module never sends it.
SelectData(o) ==
  [exists |-> LastOf(o, "Exists"),
   changed |-> OfType(o, "Fetch"),
   vanished |-> FlattenSeq([i \in DOMAIN OfType(o, "Vanished")
                              |-> UidRanges(OfType(o, "Vanished")[i].value)])]

Select ==
  \/ \E q \in BOOLEAN :
       Sends([op |-> "Select", qresync |-> q],
             [op |-> "SELECT", mailbox |-> EncodeInplace(Inbox), qresync |-> q])
  \/ Completes("Select", SelectData)
Examine ==
  \/ \E q \in BOOLEAN :
       Sends([op |-> "Examine", qresync |-> q],
             [op |-> "EXAMINE", mailbox |-> EncodeInplace(Inbox), qresync |-> q])
  \/ Completes("Examine", SelectData)

-----------------------------------------------------------------------------
(* Commands on messages.                                                   *)

Expunge == Sends([op |-> "Expunge"], [op |-> "EXPUNGE", set |-> Uids])
             \/ Completes("Expunge", Seqs)
ExpungeUid ==
  \/ \E s \in IdSets : Sends([op |-> "ExpungeUid", set |-> s], [op |-> "EXPUNGE", set |-> s])
  \/ Completes("ExpungeUid", Seqs)

FetchRequest(s, names, uid) == [op |-> "FETCH", uid |-> uid, set |-> s, names |-> names]

\* The responses for one message are put one after the other.
FetchMap(o) ==
  LET all == OfType(o, "Fetch")
  IN [k \in {all[i].seq : i \in DOMAIN all}
        |-> Values(At(all, {i \in DOMAIN all : all[i].seq = k}))]
\* The last response for a message takes the place of the others.
StoreMapFirst(o) ==   \* mutant: the first one stays
  [k \in DOMAIN FetchMap(o) |-> <<Head(FetchMap(o)[k])>>]
StoreMap(o) == [k \in DOMAIN FetchMap(o) |-> <<Last(FetchMap(o)[k])>>]

Fetch ==
  \/ \E s \in IdSets, uid \in BOOLEAN :
       Sends([op |-> "Fetch", uid |-> uid, set |-> s], FetchRequest(s, {"Flags"}, uid))
  \/ Completes("Fetch", FetchMap)
FetchFirst ==
  \/ \E id \in Known, uid \in BOOLEAN :
       Sends([op |-> "FetchFirst", uid |-> uid, id |-> id], FetchRequest({id}, {"Flags"}, uid))
  \/ Requires("FetchFirst", LAMBDA o : LastOf(o, "Fetch"))

StoreRequest(s, uid, flag, silent) ==
  [op |-> "STORE", uid |-> uid, set |-> s, flag |-> flag, silent |-> silent]
Store ==
  \/ \E s \in IdSets, uid, flag \in BOOLEAN :
       Sends([op |-> "Store", uid |-> uid, set |-> s], StoreRequest(s, uid, flag, FALSE))
  \/ Completes("Store", StoreMap)
StoreSilent ==
  \/ \E s \in IdSets, uid, flag \in BOOLEAN :
       Sends([op |-> "StoreSilent", uid |-> uid, set |-> s], StoreRequest(s, uid, flag, TRUE))
  \/ Completes("StoreSilent", Unit)

Copy ==
  \/ \E s \in IdSets, uid \in BOOLEAN, m \in Names :
       Sends([op |-> "Copy", uid |-> uid, set |-> s],
             [op |-> "COPY", uid |-> uid, mailbox |-> EncodeInplace(m), set |-> s])
  \/ Completes("Copy", LAMBDA o : CopyUidFromCode(o.code))

\* The COPYUID of a MOVE: that of the tagged OK, or the first that can be read
\* in an untagged one.
MoveUids(o) ==
  LET codes == <<o.code>> \o o.untagged
      I == {i \in DOMAIN codes : CopyUidFromCode(codes[i]) # {}}
  IN UNION {CopyUidFromCode(codes[i]) : i \in {j \in I : \A k \in I : j <= k}}
Move ==
  \/ \E s \in IdSets, uid \in BOOLEAN, m \in Names :
       Sends([op |-> "Move", uid |-> uid, set |-> s],
             [op |-> "MOVE", uid |-> uid, mailbox |-> EncodeInplace(m), set |-> s])
  \/ Completes("Move", MoveUids)

SearchIds(o) == LET s == LastOf(o, "Search") IN IF s = {} THEN <<>> ELSE CHOOSE x \in s : TRUE
Search ==
  \/ \E uid \in BOOLEAN : Sends([op |-> "Search", uid |-> uid], [op |-> "SEARCH", uid |-> uid])
  \/ Completes("Search", SearchIds)
Thread ==
  \/ \E uid \in BOOLEAN : Sends([op |-> "Thread", uid |-> uid], [op |-> "THREAD", uid |-> uid])
  \/ Requires("Thread", LAMBDA o : LastOf(o, "Thread"))

AppendRequest(len) == [op |-> "APPEND", mailbox |-> EncodeInplace(Inbox), len |-> len]
AppendedUid(o) == IF o.code.name = "APPENDUID" THEN {o.code.uid} ELSE {}
AppendOutput(o) == <<LastOf(o, "Exists"), AppendedUid(o)>>

\* Two coroutines send the same APPEND, whole: one also returns the EXISTS.
AppendBuffered ==
  \/ Sends([op |-> "Append"], AppendRequest(1))
  \/ Completes("Append", AppendOutput)
AppendUid ==
  \/ Sends([op |-> "AppendUid"], AppendRequest(1))
  \/ Completes("AppendUid", AppendedUid)

-----------------------------------------------------------------------------
(* The streamed APPEND.                                                    *)

\* The header announces the length as a 32-bit number.
StreamHeader ==
  \E len \in Lengths, short, nonSync \in BOOLEAN :
    Call([op |-> "AppendStream", len |-> len, short |-> short],
         AppendRequest(len % LiteralWidth), IF nonSync THEN "stream" ELSE "header")

\* Anything but the continuation request ends it: a tagged status is a refusal.
StreamContinuation ==
  /\ phase = "header" /\ (out.cr \/ out.tagged # {} \/ out.bye)
  /\ IF out.bye \/ out.tagged # {}
     THEN /\ Return(IF out.bye THEN "Bye" ELSE IF "No" \in out.tagged THEN "No" ELSE "Bad", <<>>)
          /\ UNCHANGED out
     ELSE phase' = "stream" /\ out' = NoOutput /\ UNCHANGED result
  /\ UNCHANGED <<cmd, req, rawVars, ran, heard, commands, sortVars, srvVars, changes>>

\* The caller pumps the body; the CRLF follows unless the source ran short.
StreamBody ==
  /\ phase = "stream"
  /\ IF cmd.short THEN Return("ShortMessage", <<>>) ELSE phase' = "sent" /\ UNCHANGED result
  /\ UNCHANGED Kept

AppendStream ==
  StreamHeader \/ StreamContinuation \/ StreamBody \/ Completes("AppendStream", AppendOutput)

-----------------------------------------------------------------------------
(* SORT, by the server or by SEARCH, FETCH and a local sort.               *)

SortStart ==
  \E c \in Criteria, uid, fallback \in BOOLEAN :
    Sends([op |-> "Sort", uid |-> uid, fallback |-> fallback, criteria |-> c],
          [op |-> IF fallback THEN "SEARCH" ELSE "SORT", uid |-> uid, criteria |-> c])

SortReplied == req.op = "SORT" /\ Requires("Sort", LAMBDA o : LastOf(o, "Sort"))

NextFetchLosing(ids) ==   \* mutant: the first id kept for later is dropped
  LET take == IF Len(ids) < MaxChunk THEN Len(ids) ELSE MaxChunk
  IN /\ remaining' = SubSeq(ids, take + 2, Len(ids))
     /\ req' = FetchRequest(ToSet(SubSeq(ids, 1, take)),
                            FetchItems(cmd.criteria, cmd.uid), cmd.uid)
     /\ phase' = "sent" /\ out' = NoOutput /\ ran' = FALSE
     /\ UNCHANGED <<cmd, result, rawVars, heard, commands, srvVars, changes>>

\* Fetches the next chunk of ids.
NextFetch(ids) ==
  LET take == IF Len(ids) < MaxChunk THEN Len(ids) ELSE MaxChunk
  IN /\ remaining' = SubSeq(ids, take + 1, Len(ids))
     /\ req' = FetchRequest(ToSet(SubSeq(ids, 1, take)),
                            FetchItems(cmd.criteria, cmd.uid), cmd.uid)
     /\ phase' = "sent" /\ out' = NoOutput /\ ran' = FALSE
     /\ UNCHANGED <<cmd, result, rawVars, heard, commands, srvVars, changes>>

SortFails ==
  /\ cmd.op = "Sort" /\ cmd.fallback /\ Ended /\ Status(out) # "Ok"
  /\ Return(Status(out), <<>>) /\ UNCHANGED Kept

SortSearched ==
  /\ cmd.op = "Sort" /\ req.op = "SEARCH" /\ Ended /\ Status(out) = "Ok"
  /\ IF SearchIds(out) = <<>> THEN Return("Ok", <<>>) /\ UNCHANGED Kept
     ELSE /\ NextFetch(SearchIds(out))
          /\ searched' = {IF cmd.uid THEN id ELSE told[id].uid : id \in ToSet(SearchIds(out))}
          /\ UNCHANGED fetched

\* What this chunk returned takes the place of what the ones before had
\* under the same sequence number.
SortFetched ==
  /\ cmd.op = "Sort" /\ req.op = "FETCH" /\ Ended /\ Status(out) = "Ok"
  /\ LET map == FetchMap(out)
         merged == [k \in DOMAIN fetched \cup DOMAIN map |->
                      IF k \in DOMAIN map THEN map[k] ELSE fetched[k]]
     IN IF remaining = <<>>
        THEN /\ Return("Ok", LocalSort(cmd.criteria, merged, cmd.uid))
             /\ UNCHANGED Kept
        ELSE NextFetch(remaining) /\ fetched' = merged /\ UNCHANGED searched

Sort == SortStart \/ SortReplied \/ SortFails \/ SortSearched \/ SortFetched

-----------------------------------------------------------------------------
(* The raw passthrough: the input is looked through for its tags and sent  *)
(* as it is; every message is returned, until each tag was completed.      *)

RawRefused ==
  /\ phase = "idle" /\ commands < MaxCommands /\ commands' = commands + 1
  /\ \E f \in Batches : Refusal(f) # "none" /\ Return(Refusal(f), <<>>)
  /\ cmd' = [op |-> "Raw"] /\ req' = NoCommand /\ out' = NoOutput
  /\ ran' = FALSE /\ heard' = FALSE
  /\ UNCHANGED <<rawVars, sortVars, srvVars, changes>>

RawStart ==
  \E f \in Batches :
    /\ phase = "idle" /\ commands < MaxCommands /\ commands' = commands + 1
    /\ Refusal(f) = "none"
    /\ cmd' = [op |-> "Raw"] /\ req' = [op |-> "RAW", tags |-> Tags(f, 1, Len(f))]
    /\ phase' = "sent" /\ pending' = Tags(f, 1, Len(f)) /\ lines' = <<>> /\ taken' = 0
    /\ out' = NoOutput /\ result' = NoResult /\ ran' = FALSE /\ heard' = FALSE
    /\ UNCHANGED <<sortVars, srvVars, changes>>

\* The tags of the messages captured.
CapturedAnywhere(i, j) == {lines[k].tag : k \in i..j}   \* mutant: of any line or literal
Captured(i, j) == Tags(lines, i, j)

\* A read of some fragments: the messages that are whole are captured, and the
\* call ends when they are all looked at and no tag is left.
RawRead ==
  \E n \in 1..(Len(lines) - taken) :
    LET from == Len(out.data) + 1
        whole == Whole(SubSeq(lines, 1, taken + n))
    IN /\ cmd.op = "Raw" /\ phase = "sent"
       /\ taken' = taken + n
       /\ out' = [out EXCEPT !.data = @ \o SubSeq(lines, from, whole)]
       /\ pending' = pending \ Captured(from, whole)
       /\ IF pending' = {} THEN Return("Ok", out'.data) ELSE UNCHANGED <<phase, result>>
       /\ UNCHANGED <<cmd, req, lines, ran, heard, commands, sortVars, srvVars, changes>>

RawEof ==
  /\ cmd.op = "Raw" /\ phase = "sent" /\ taken = Len(lines)
  /\ Return("Eof", <<>>) /\ UNCHANGED Kept

Raw == RawRefused \/ RawStart \/ RawRead \/ RawEof

-----------------------------------------------------------------------------
(* The server.  It executes the command on the wire at one instant, and    *)
(* completes it later; in between it may announce what others did.         *)

\* The positions in the numbering of the messages the command names; those that
\* are gone are passed over.
Gone(k) == told[k].uid \notin ToSet(box)
InSet(k) == IF req.uid THEN told[k].uid \in req.set ELSE k \in req.set
Targets == {k \in DOMAIN told : InSet(k) /\ ~Gone(k)}
UidsOf(S) == [i \in 1..Cardinality(S) |-> At(told, S)[i].uid]

Executes(op, data, untagged, code) ==
  /\ phase = "sent" /\ req.op = op /\ out.tagged = {} /\ ~out.bye
  /\ phase' = "served" /\ ran' = TRUE
  /\ out' = [out EXCEPT !.data = @ \o data, !.untagged = @ \o untagged, !.code = code]
  /\ UNCHANGED <<cmd, req, result, rawVars, heard, commands, sortVars, changes>>
Answers(op, data) == Executes(op, data, <<>>, NoCode)

InView(op) == phase = "sent" /\ req.op = op /\ view # "none"
ReadWrite(op) == phase = "sent" /\ req.op = op /\ view = "rw"

SrvPlain ==
  /\ \/ Answers("NOOP", <<>>) \/ Answers("ENABLE", <<D("Enabled", 0, "QRESYNC")>>)
     \/ InView("CHECK") /\ Answers("CHECK", <<>>)
     \/ Answers("LIST", [i \in 1..Cardinality(wires) |-> D("List", 0, SetToSeq(wires)[i])])
     \/ Answers("LSUB", [i \in 1..Cardinality(subscribed) |-> D("Lsub", 0, SetToSeq(subscribed)[i])])
     \/ /\ phase = "sent" /\ req.op = "STATUS" /\ req.mailbox \in wires \cup {Inbox}
        /\ Answers("STATUS", <<D("Status", 0, <<IF req.mailbox = Inbox THEN Len(box) ELSE 0>>)>>)
  /\ UNCHANGED srvVars

SrvLeave ==
  /\ view' = "none" /\ told' = <<>>
  /\ \/ InView("UNSELECT") /\ Answers("UNSELECT", <<>>) /\ UNCHANGED boxVars
     \/ /\ InView("CLOSE") /\ Answers("CLOSE", <<>>)
        /\ box' = IF view = "rw" THEN InBox({u \in Uids : ~deleted[u]}) ELSE box
        /\ UNCHANGED <<deleted, nextUid>>
  /\ UNCHANGED <<nameVars, copies, stored>>

SrvLogout ==
  /\ phase = "sent" /\ req.op = "LOGOUT" /\ out = NoOutput
  /\ phase' = "served" /\ ran' = TRUE /\ out' = [out EXCEPT !.bye = TRUE]
  /\ UNCHANGED <<cmd, req, result, rawVars, heard, commands, sortVars, changes, srvVars>>

SrvNames ==
  /\ phase = "sent" /\ UNCHANGED <<boxVars, sesVars, copies, stored>>
  /\ \/ /\ Answers("CREATE", <<>>) /\ req.mailbox \notin wires
        /\ wires' = wires \cup {req.mailbox} /\ mine' = mine \cup {cmd.mailbox}
        /\ UNCHANGED <<subscribed, mySubs>>
     \/ /\ Answers("DELETE", <<>>) /\ req.mailbox \in wires
        /\ wires' = wires \ {req.mailbox} /\ mine' = mine \ {cmd.mailbox}
        /\ UNCHANGED <<subscribed, mySubs>>
     \/ /\ Answers("RENAME", <<>>) /\ req.mailbox \in wires /\ req.to \notin wires
        /\ wires' = (wires \ {req.mailbox}) \cup {req.to}
        /\ mine' = (mine \ {cmd.mailbox}) \cup {cmd.to}
        /\ UNCHANGED <<subscribed, mySubs>>
     \/ /\ Answers("SUBSCRIBE", <<>>)
        /\ subscribed' = subscribed \cup {req.mailbox} /\ mySubs' = mySubs \cup {cmd.mailbox}
        /\ UNCHANGED <<wires, mine>>
     \/ /\ Answers("UNSUBSCRIBE", <<>>)
        /\ subscribed' = subscribed \ {req.mailbox} /\ mySubs' = mySubs \ {cmd.mailbox}
        /\ UNCHANGED <<wires, mine>>

\* The orders a set can be listed in, and the UID sets that list UIDs in the
\* order of s: one by one, or a range with its ends in either order.
Listings(S) == Bijection(1..Cardinality(S), S)
Listing(s) ==
  {[i \in DOMAIN s |-> <<s[i], s[i]>>]}
    \cup {<<e>> : e \in {p \in ToSet(s) \X ToSet(s) :
                          /\ Len(s) = Upper(p) - Lower(p) + 1
                          /\ \A i \in DOMAIN s : s[i] = Lower(p) + i - 1}}
Written(S) == UNION {Listing(s) : s \in Listings(S)}

Item(k, names) == [msg |-> told[k].uid, names |-> names,
                   deleted |-> deleted[told[k].uid] /\ "Flags" \in names]

SrvSelect ==
  LET vanished == {u \in Known : u \notin ToSet(box)}
      fresh == <<D("Exists", 0, Len(box))>>
      changed == [i \in DOMAIN box |->
                    D("Fetch", i, [msg |-> box[i], names |-> {"Uid", "Flags"},
                                   deleted |-> deleted[box[i]]])]
  IN /\ \E op \in {"SELECT", "EXAMINE"} :
          /\ phase = "sent" /\ req.op = op
          /\ IF req.qresync /\ vanished # {}
             THEN \E w \in Written(vanished) :
                    Answers(op, fresh \o <<D("Vanished", 0, w)>> \o changed)
             ELSE Answers(op, fresh \o IF req.qresync THEN changed ELSE <<>>)
          /\ view' = IF op = "SELECT" THEN "rw" ELSE "ro"
     /\ told' = Listed
     /\ UNCHANGED <<boxVars, nameVars, copies, stored>>

SrvSearch ==
  LET there == Ordered({k \in DOMAIN told : ~Gone(k)})
      found == [i \in DOMAIN there |-> IF req.uid THEN told[there[i]].uid ELSE there[i]]
  IN /\ \/ InView("SEARCH") /\ Answers("SEARCH", <<D("Search", 0, found)>>)
        \/ InView("SORT") /\ Answers("SORT", <<D("Sort", 0, found)>>)
        \/ InView("THREAD") /\ \E d \in {<<>>, <<D("Thread", 0, found)>>} : Answers("THREAD", d)
     /\ UNCHANGED srvVars

\* A sequence number beyond the numbering is refused; UIDs that are not there
\* are passed over.
Addressable == req.uid \/ req.set \subseteq DOMAIN told

Sync(S) == [k \in DOMAIN told |-> IF k \in S THEN Told(told[k].uid) ELSE told[k]]
Fetched(S, names) == [i \in 1..Cardinality(S) |-> D("Fetch", Ordered(S)[i], Item(Ordered(S)[i], names))]

SrvFetch ==
  /\ InView("FETCH") /\ Addressable
  /\ Answers("FETCH", Fetched(Targets, req.names \cup IF req.uid THEN {"Uid"} ELSE {}))
  /\ told' = IF "Flags" \in req.names THEN Sync(Targets) ELSE told
  /\ UNCHANGED <<boxVars, nameVars, copies, stored, view>>

SrvStore ==
  /\ ReadWrite("STORE") /\ Addressable
  /\ LET S == Targets
         to == [u \in Uids |-> IF \E k \in S : told[k].uid = u THEN req.flag ELSE deleted[u]]
     IN /\ deleted' = to
        /\ told' = [k \in DOMAIN told |-> IF k \in S THEN [told[k] EXCEPT !.deleted = req.flag] ELSE told[k]]
        /\ Answers("STORE", IF req.silent THEN <<>>
                            ELSE [i \in 1..Cardinality(S) |-> 
                                    D("Fetch", Ordered(S)[i],
                                      [Item(Ordered(S)[i], {"Flags"} \cup IF req.uid THEN {"Uid"} ELSE {})
                                         EXCEPT !.deleted = req.flag])])
  /\ UNCHANGED <<box, nextUid, nameVars, copies, stored, view>>

\* The numbers of the EXPUNGE responses for the positions S, the later ones
\* counted after the earlier ones are taken off.
Expunges(S) == [i \in 1..Cardinality(S) |-> D("Expunge", Ordered(S)[i] - (i - 1), 0)]
Without(S) == At(told, DOMAIN told \ S)

SrvExpunge ==
  LET S == {k \in DOMAIN told : ~Gone(k) /\ deleted[told[k].uid] /\ told[k].uid \in req.set}
      lost == {k \in DOMAIN told : Gone(k)}
  IN /\ ReadWrite("EXPUNGE")
     /\ Answers("EXPUNGE", Expunges(S \cup lost))
     /\ box' = InBox(Uids \ {told[k].uid : k \in S})
     /\ told' = Without(S \cup lost)
     /\ UNCHANGED <<deleted, nextUid, nameVars, copies, stored, view>>

\* COPY and MOVE copy the messages in any order, and give the copies the next
\* UIDs.  The COPYUID lists both in any order, but the same, or is left out, or
\* has a UIDVALIDITY of 0; MOVE puts it in an untagged OK before the EXPUNGEs, or
\* in the tagged one.
CopyCodes(sources) ==
  LET Coded(p) ==
        [name : {"COPYUID"}, readable : BOOLEAN, validity : {0, 1},
         source : Listing([i \in DOMAIN p |-> sources[p[i]]]),
         destination : Listing([i \in DOMAIN p |-> Len(copies) + p[i]])]
  IN {NoCode} \cup (IF sources = <<>> THEN {} ELSE
       {c \in UNION {Coded(p) : p \in Listings(DOMAIN sources)} : c.readable \/ c.validity = 1})
Copied(sources) ==
  copies \o [i \in DOMAIN sources |-> [uid |-> Len(copies) + i, source |-> sources[i]]]

CopyOrders == Listings(ToSet(UidsOf(Targets)))
SrvCopy ==
  /\ InView("COPY") /\ Addressable /\ req.mailbox \in wires
  /\ \E sources \in CopyOrders :
       /\ \E c \in CopyCodes(sources) : Executes("COPY", <<>>, <<>>, c)
       /\ copies' = Copied(sources)
  /\ UNCHANGED <<boxVars, nameVars, sesVars, stored>>
SrvMove ==
  /\ ReadWrite("MOVE") /\ Addressable /\ req.mailbox \in wires
  /\ \E sources \in CopyOrders :
       /\ \E c \in CopyCodes(sources) :
            \/ Executes("MOVE", Expunges(Targets), <<>>, c)
            \/ Executes("MOVE", Expunges(Targets), <<[name |-> "ALERT"], c>>, NoCode)
       /\ copies' = Copied(sources)
       /\ box' = InBox(Uids \ ToSet(sources))
  /\ told' = Without(Targets)
  /\ UNCHANGED <<deleted, nextUid, nameVars, stored, view>>

SrvAppend ==
  /\ phase = "sent" /\ req.op = "APPEND" /\ nextUid \in Uids
  /\ Executes("APPEND", <<>>, <<>>, [name |-> "APPENDUID", uid |-> nextUid])
  /\ box' = Append(box, nextUid) /\ nextUid' = nextUid + 1 /\ stored' = req.len
  /\ UNCHANGED <<deleted, nameVars, sesVars, copies>>

SrvContinue ==
  /\ phase = "header" /\ out = NoOutput
  /\ out' = [out EXCEPT !.cr = TRUE]
  /\ UNCHANGED <<cmd, req, phase, result, rawVars, ran, heard, commands, sortVars, srvVars, changes>>

SrvTagged(kind) ==
  /\ req.op # "RAW" /\ out.tagged = {}
  /\ out' = [out EXCEPT !.tagged = {kind}]
  /\ UNCHANGED <<cmd, req, phase, result, rawVars, ran, heard, commands, sortVars, changes,
                 boxVars, nameVars, copies, stored>>
SrvOk == phase = "served" /\ SrvTagged("Ok") /\ UNCHANGED sesVars
\* A refused SELECT leaves no mailbox selected.
SrvRefuse ==
  /\ phase \in {"header", "sent"} /\ ~out.bye /\ ~out.cr
  /\ \E kind \in {"No", "Bad"} : SrvTagged(kind)
  /\ IF req.op \in {"SELECT", "EXAMINE"} THEN view' = "none" /\ told' = <<>> ELSE UNCHANGED sesVars
SrvBye ==
  /\ phase \in {"header", "sent", "served"} /\ req.op # "RAW" /\ ~out.bye /\ ~out.cr
  /\ out' = [out EXCEPT !.bye = TRUE]
  /\ UNCHANGED <<cmd, req, phase, result, rawVars, ran, heard, commands, sortVars, srvVars, changes>>

\* An answer to a raw batch: perhaps one untagged response, and one completion
\* for each command, in any order.
SrvRaw ==
  /\ req.op = "RAW" /\ phase = "sent"
  /\ \/ \E r \in Replies : (\A k \in DOMAIN lines : lines[k].tag # 0) /\ lines' = lines \o r
     \/ \E t \in req.tags \ Completions(lines) : lines' = Append(lines, Line(t))
  /\ UNCHANGED <<cmd, req, phase, out, result, pending, taken, ran, heard, commands, sortVars,
                 srvVars, changes>>

-----------------------------------------------------------------------------
(* Announcements, and the other clients.                                   *)

Announces(data) ==
  /\ phase \in {"sent", "served"} /\ req.op # "RAW" /\ view # "none"
  /\ out.tagged = {} /\ ~out.bye
  /\ out' = [out EXCEPT !.data = @ \o data] /\ heard' = TRUE
  /\ UNCHANGED <<cmd, req, phase, result, rawVars, ran, commands, sortVars, changes,
                 boxVars, nameVars, copies, stored, view>>

\* No EXPUNGE is sent in the response to FETCH, STORE or SEARCH by sequence number.
MayExpunge ==
  /\ phase = "served" /\ req.op \notin {"SELECT", "EXAMINE"}
  /\ req.op \in {"FETCH", "STORE", "SEARCH", "SORT", "THREAD"} => req.uid
TellExpunge ==
  \E k \in DOMAIN told :
    MayExpunge /\ Gone(k) /\ Announces(Expunges({k})) /\ told' = Without({k})
TellExists ==
  LET fresh == InBox(Uids \ {told[k].uid : k \in DOMAIN told})
  IN /\ fresh # <<>>
     /\ told' = told \o [i \in DOMAIN fresh |-> Told(fresh[i])]
     /\ Announces(<<D("Exists", 0, Len(told) + Len(fresh))>>)
TellFlags ==
  \E k \in DOMAIN told, names \in {{"Flags"}, {"Flags", "Uid"}} :
    /\ ~Gone(k) /\ told[k] # Told(told[k].uid)
    /\ Announces(Fetched({k}, names)) /\ told' = Sync({k})

Changes ==
  /\ changes < MaxChanges /\ changes' = changes + 1
  /\ UNCHANGED <<callVars, sortVars, nameVars, sesVars, copies, stored>>
OtherExpunge ==
  /\ Changes /\ \E u \in ToSet(box) : box' = InBox(Uids \ {u})
  /\ UNCHANGED <<deleted, nextUid>>
OtherStore ==
  /\ Changes /\ \E u \in ToSet(box) : deleted' = [deleted EXCEPT ![u] = ~@]
  /\ UNCHANGED <<box, nextUid>>
OtherDeliver ==
  /\ Changes /\ nextUid \in Uids
  /\ box' = Append(box, nextUid) /\ nextUid' = nextUid + 1 /\ UNCHANGED deleted

-----------------------------------------------------------------------------

SessionCommands == Noop \/ Check \/ Close \/ Unselect \/ Logout \/ Enable \/ Raw
MailboxCommands ==
  \/ Create \/ Delete \/ Rename \/ Subscribe \/ Unsubscribe \/ List \/ Lsub
  \/ MailboxStatus \/ Select \/ Examine
MessageCommands ==
  \/ Expunge \/ ExpungeUid \/ Fetch \/ FetchFirst \/ Store \/ StoreSilent \/ Copy \/ Move
  \/ Search \/ Thread \/ Sort \/ AppendBuffered \/ AppendUid \/ AppendStream
Server ==
  \/ SrvPlain \/ SrvLeave \/ SrvLogout \/ SrvNames \/ SrvSelect \/ SrvSearch \/ SrvFetch
  \/ SrvStore \/ SrvExpunge \/ SrvCopy \/ SrvMove \/ SrvAppend \/ SrvContinue \/ SrvOk
  \/ SrvRefuse \/ SrvBye \/ SrvRaw \/ TellExpunge \/ TellExists \/ TellFlags

Next ==
  \/ SessionCommands \/ MailboxCommands \/ MessageCommands \/ ReadEof
  \/ Server \/ OtherExpunge \/ OtherStore \/ OtherDeliver
Spec == Init /\ [][Next]_vars

-----------------------------------------------------------------------------
(* Properties.                                                             *)

Returned(ops) == result.status = "Ok" /\ cmd.op \in ops

(* A call says what the server did: Ok only of a command the server        *)
(* executed, a refusal only of one it did not, whatever BYE, end of stream *)
(* or half of a streamed APPEND came in between (the reading of the output *)
(* at the end of every coroutine, src/rfc3501/noop.rs:121-145).  What a    *)
(* streamed APPEND stored is the message when its length fits the literal: *)
(* of a longer one the header announces `len as u32` (src/client.rs:1130)  *)
(* and an Ok may mean a part of it.                                        *)
OutcomeTrue ==
  /\ result.status = "Ok" /\ cmd.op # "Raw" => ran
  /\ result.status \in {"No", "Bad"} => ~ran
  /\ Returned({"AppendStream"}) /\ cmd.len < LiteralWidth => stored = cmd.len

(* A raw call returns what the server sent, whole messages from the first  *)
(* on, as they are (but for octets that are not UTF-8, which it replaces), *)
(* with the completion of every command of the batch among them, however   *)
(* lines and literals were split over reads and whatever the literals look *)
(* like; it fails at the end of the stream only when one is missing        *)
(* (src/rfc3501/raw.rs:186-243).                                           *)
RawVerbatim ==
  LET read == SubSeq(lines, 1, taken)
      Completed(f) == req.tags \subseteq Completions(f)
  IN /\ Returned({"Raw"}) =>
          Completed(result.value) /\ result.value = SubSeq(read, 1, Whole(read))
     /\ result.status = "Eof" => ~Completed(read)

(* What FETCH, STORE and SELECT return is the mailbox as it was announced  *)
(* to this session: every entry is about the one message its number stands *)
(* for and ends with the flags announced last, however many other changes  *)
(* were announced with it; a SELECT counts the messages it numbers, and    *)
(* its ranges hold exactly those known before that are gone                *)
(* (src/rfc3501/store.rs:203-212, fetch.rs:204-212, select.rs:191-224,     *)
(* 251-270).  Of a response that holds an EXPUNGE nothing is said.         *)
AsTold ==
  /\ Returned({"Fetch", "Store"}) /\ Seqs(out) = <<>> =>
       \A k \in DOMAIN result.value :
         LET items == result.value[k]
         IN /\ k \in DOMAIN told /\ \A i \in DOMAIN items : items[i].msg = told[k].uid
            /\ Last(items).deleted = told[k].deleted
  /\ Returned({"Select", "Examine"}) =>
       /\ result.value.exists = {Len(told)}
       /\ cmd.qresync =>
            LET v == result.value.vanished
                gone == UNION {v[i][1]..v[i][2] : i \in DOMAIN v}
            IN gone = Known \ {told[k].uid : k \in DOMAIN told}

\* The copies a COPYUID names, and that they were made in the order of the UIDs.
Made(v) == {c \in ToSet(copies) : c.uid \in ToSet(v[3])}
MadeInOrder(v) == \A c, d \in Made(v) : c.uid < d.uid => c.source < d.source
CopyPair(v, i) == [uid |-> v[3][i], source |-> v[2][i]]

(* However the server lists what a COPY or a MOVE copied, the two lists    *)
(* returned hold as many UIDs and the first holds those the second has     *)
(* copies of; when the server copied the messages in the order of their    *)
(* UIDs, the n-th of the one was copied to the n-th of the other           *)
(* (src/rfc3501/copy.rs:189-299, rfc6851/move.rs:151).  Copied in another  *)
(* order they are paired wrongly: the code sorts each list by itself.      *)
CopyPairs ==
  Returned({"Copy", "Move"}) =>
    \A v \in result.value :
      /\ Len(v[2]) = Len(v[3]) /\ ToSet(v[2]) = {c.source : c \in Made(v)}
      /\ MadeInOrder(v) => \A i \in DOMAIN v[2] : CopyPair(v, i) \in ToSet(copies)

(* The caller sees its mailboxes under the names it gave them: no name     *)
(* turns into another on its way to the server and back, so that what LIST *)
(* and LSUB return is what was created, renamed or subscribed and not      *)
(* deleted (src/rfc3501/mailbox.rs:17-56).                                 *)
NamesExact ==
  /\ Returned({"List"}) => ToSet(result.value) \cap Names = mine
  /\ Returned({"Lsub"}) => ToSet(result.value) \cap Names = mySubs

\* Message m is before n: by the criteria, reversed ones included, on what the
\* items of the messages carry, 0 when it is missing.
Puts(criteria, m, n) ==
  LET Same(c) == Attributes[m][c.key] = Attributes[n][c.key]
      Less(c) == IF c.reverse THEN Attributes[n][c.key] < Attributes[m][c.key]
                 ELSE Attributes[m][c.key] < Attributes[n][c.key]
  IN \E i \in DOMAIN criteria :
       Less(criteria[i]) /\ \A j \in 1..(i - 1) : Same(criteria[j])

\* What the local order does not look at is the same for all of them.
Alike(criteria, S) ==
  \A i \in DOMAIN criteria : criteria[i].key \notin Compared =>
    \A m, n \in S : Attributes[m][criteria[i].key] = Attributes[n][criteria[i].key]

(* The local fallback returns, chunk after chunk, the messages the search  *)
(* found and that are still there, each once and in the order of the       *)
(* criteria on what their items carry, when nothing was announced during   *)
(* the call and they agree on the addresses, which it does not compare     *)
(* (src/rfc5256/sort.rs:202-261, 311-339, 456-462).  A server's SORT       *)
(* compares other values (RFC 5256: base subjects, the arrival for a       *)
(* missing Date, numbers for ties): this is not its order.                 *)
FallbackSorts ==
  Returned({"Sort"}) /\ cmd.fallback /\ ~heard /\ Alike(cmd.criteria, searched) =>
    LET ids == result.value
        msgs == [i \in DOMAIN ids |-> IF cmd.uid THEN ids[i] ELSE told[ids[i]].uid]
    IN /\ ToSet(msgs) \subseteq searched /\ searched \cap ToSet(box) \subseteq ToSet(msgs)
       /\ IsInjective(msgs)
       /\ \A i, j \in DOMAIN msgs : i < j => ~Puts(cmd.criteria, msgs[j], msgs[i])

(* "FETCH restricted to a single message." (src/rfc3501/fetch.rs:241): the *)
(* items returned are those of the message asked for, and an answer with   *)
(* "no FETCH data for the requested message" (fetch.rs:140-141) is an      *)
(* error.  The code returns the last FETCH response of any message.        *)
FirstIsOwn ==
  Returned({"FetchFirst"}) =>
    result.value.msg = IF cmd.uid THEN cmd.id ELSE told[cmd.id].uid
=============================================================================
