------------------------------- MODULE MCCrl -------------------------------
(* Crl on a small instance.                                                *)
EXTENDS Crl, TLC

(* As crl.yml sets them: Vault, or the raw key; the key of another issuer, *)
(* or nothing.  And a developer's dry run.                                 *)
SomeConfigs ==
    LET none == [vault |-> "unset", pem |-> "unset", cert |-> TRUE,
                 local |-> FALSE, token |-> TRUE]
    IN  {[none EXCEPT !.vault = "set"], [none EXCEPT !.pem = "match"],
         [none EXCEPT !.pem = "other"], none,
         [none EXCEPT !.local = TRUE, !.token = FALSE]}
=============================================================================
