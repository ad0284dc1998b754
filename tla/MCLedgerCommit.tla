--------------------------- MODULE MCLedgerCommit ---------------------------
(* LedgerCommit on small instances.                                        *)
EXTENDS LedgerCommit
=============================================================================
