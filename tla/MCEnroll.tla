------------------------------ MODULE MCEnroll ------------------------------
(* Enroll on small instances.                                              *)
EXTENDS Enroll, TLC

(* No ledger file exists yet; that one is reserved or belongs to another   *)
(* repository comes with an override or with the other request.            *)
NoFiles == \A a \in Apps : ledger[a] = NoLedger

(* One request is there when the first poll starts.                        *)
OneInit == Init /\ NoFiles /\ filed = 1

OneSpec == OneInit /\ [][Next]_vars /\ WF_vars(BotStep)

(* Every request is filed and well filled, for a repository of its own     *)
(* choice, and every repository declares an appId.                         *)
WellFilled ==
    /\ filed = MaxIssues
    /\ \A i \in Issues : body[i] \in Forms
    /\ \A r \in Repos : declared[r] \in Apps

ContentionInit == Init /\ NoFiles /\ WellFilled

ContentionSpec == ContentionInit /\ [][Next]_vars /\ WF_vars(BotStep)

Symmetry == Permutations(Certs) \cup Permutations(Repos)
            \cup Permutations(Nonces)
=============================================================================
