--------------------------- MODULE TransparencyLog ---------------------------
(***************************************************************************)
(* What the ledger promises its readers (design 6): an append-only record  *)
(* of every certificate.  A certificate is entered once, as active; it may *)
(* be revoked, and it stays in the record and stays revoked for ever.  One *)
(* commit changes the standing of one certificate of one appId at most.    *)
(***************************************************************************)
CONSTANTS Apps, Certs

VARIABLE status     \* status[a][c]: "missing", "active" or "revoked"

Init == status = [a \in Apps |-> [c \in Certs |-> "missing"]]

Enter(a, c) ==
    /\ status[a][c] = "missing"
    /\ status' = [status EXCEPT ![a][c] = "active"]

Revoke(a, c) ==
    /\ status[a][c] = "active"
    /\ status' = [status EXCEPT ![a][c] = "revoked"]

Next == \E a \in Apps, c \in Certs : Enter(a, c) \/ Revoke(a, c)

Spec == Init /\ [][Next]_status
=============================================================================
