--------------------------- MODULE MCMailboxWatch ---------------------------
(* Small instances of MailboxWatch.                                        *)
EXTENDS MailboxWatch

CONSTANTS seen, flagged

TwoFlags == {seen, flagged}
=============================================================================
