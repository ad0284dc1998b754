---------------------------- MODULE MCWriteGroup ----------------------------
(* WriteGroup on a small instance.                                         *)
EXTENDS WriteGroup, TLC

(* A key of the intermediate; that a CRL run fails is covered by a mishap. *)
OneConfig ==
    {[vault |-> "set", pem |-> "unset", cert |-> TRUE, local |-> FALSE,
      token |-> TRUE]}

(* SomeOwner is one repository for all states, so that exchanging the      *)
(* repositories changes no value of Bare.                                  *)
Symmetry == Permutations(Repos)
=============================================================================
