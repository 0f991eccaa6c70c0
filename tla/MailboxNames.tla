---------------------------- MODULE MailboxNames ----------------------------
(***************************************************************************)
(* Mailbox names and their modified UTF-7 wire form                        *)
(* (src/rfc3501/mailbox.rs).  A name is a sequence of characters of five   *)
(* sorts: "amp" and "dash", which the wire form gives a meaning, "u" for   *)
(* any character outside printable ASCII, "b" for an ASCII character that, *)
(* between "&" and "-", is the canonical base64 of one "u", and "x" for    *)
(* one that is not.  The wire form has no "u".                             *)
(***************************************************************************)
EXTENDS Naturals, Sequences, SequencesExt

Characters == {"amp", "dash", "u", "b", "x"}
Inbox == <<"inbox">>   \* Mailbox::Inbox, never rewritten

\* Writes out the run of characters held back, as one shifted sequence.
Flush(s) ==
  IF s.shifted = 0 THEN s
  ELSE [out |-> s.out \o <<"amp">> \o [i \in 1..s.shifted |-> "b"] \o <<"dash">>,
        shifted |-> 0]

EscapedNever(c) == <<c>>   \* mutant: "&" is written as it is
Escaped(c) == IF c = "amp" THEN <<"amp", "dash">> ELSE <<c>>

Encode(name) ==
  LET Push(s, c) == IF c = "u" THEN [s EXCEPT !.shifted = @ + 1]
                    ELSE [Flush(s) EXCEPT !.out = @ \o Escaped(c)]
  IN Flush(FoldLeft(Push, [out |-> <<>>, shifted |-> 0], name)).out

\* What a payload between "&" and "-" (or the end) stands for: a payload that is
\* not the canonical base64 of something is kept as it was.
Unshifted(payload, closed) ==
  IF payload = <<>> THEN <<"amp">>
  ELSE IF ToSet(payload) = {"b"} THEN [i \in 1..Len(payload) |-> "u"]
  ELSE <<"amp">> \o payload \o (IF closed THEN <<"dash">> ELSE <<>>)

Decode(wire) ==
  LET Pull(s, c) ==
        CASE ~s.shift /\ c = "amp"  -> [s EXCEPT !.shift = TRUE]
          [] ~s.shift /\ c # "amp"  -> [s EXCEPT !.out = Append(@, c)]
          [] s.shift /\ c = "dash"  -> [out |-> s.out \o Unshifted(s.payload, TRUE),
                                        shift |-> FALSE, payload |-> <<>>]
          [] s.shift /\ c # "dash"  -> [s EXCEPT !.payload = Append(@, c)]
      end == FoldLeft(Pull, [out |-> <<>>, shift |-> FALSE, payload |-> <<>>], wire)
  IN IF end.shift THEN end.out \o Unshifted(end.payload, FALSE) ELSE end.out

EncodeInplace(mbox) == IF mbox = Inbox THEN mbox ELSE Encode(mbox)
DecodeInplace(mbox) == IF mbox = Inbox THEN mbox ELSE Decode(mbox)
=============================================================================
