---------------------------- MODULE MCLedgerFile ----------------------------
(* LedgerFile on a small instance: two appIds, a serial of one digit and   *)
(* one of two, typed as they stand in the ledger or with a leading 0.      *)
EXTENDS LedgerFile, TLC

TwoApps == {<<97, 98, 99>>, <<97, 98, 100>>}

TwoSerials == {10, 16}

SomeTexts ==
    {FormatSerial(n) : n \in TwoSerials}
    \cup {[prefix |-> "0x", digits |-> <<0>> \o HexDigits(n)] : n \in TwoSerials}
=============================================================================
