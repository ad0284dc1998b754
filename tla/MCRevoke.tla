------------------------------ MODULE MCRevoke ------------------------------
(* Revoke on a small instance, and the functions of AppId and Profile on   *)
(* bounded inputs.                                                         *)
EXTENDS Revoke, Profile, TLC

CONSTANTS c1, c2

(* "abc", and "ABC", which folds to it: two certificates of one ledger.    *)
Abc == <<97, 98, 99>>

OneApp == {Abc}

Names == [c \in {c1, c2} |-> IF c = c1 THEN Abc ELSE <<65, 66, 67>>]

NoName == Invalid

(* Signed by a holder, alone or with a foreign certificate in the bundle;  *)
(* signed by both; with a signature that does not verify.                  *)
SomeRequests ==
    {[signers |-> {c1}, bundled |-> {c1}],
     [signers |-> {c2}, bundled |-> {c1, c2}],
     [signers |-> {}, bundled |-> {c1}]}

-----------------------------------------------------------------------------
(* "A", "b", "1", "_", "/" and a byte that is not ASCII.                   *)
Letters == {65, 98, 49, 95, 47, 195}

Strings == UNION {[1..n -> Letters] : n \in 0..4}

(* Reading an appId a second time changes nothing, a strict reading is a   *)
(* folding one, and names that differ in case have one ledger (appid.go).  *)
ASSUME
    \A s \in Strings :
        /\ Fold(Fold(s)) = Fold(s)
        /\ Canonicalize(Canonicalize(s)) = Canonicalize(s)
        /\ ValidateStrict(s) # Invalid => Canonicalize(s) = s
        /\ Canonicalize(s) # Invalid => ~\E i \in 1..Len(s) : s[i] \in {47, 195}

(* parseSerial reads what FormatSerial wrote.                              *)
ASSUME \A n \in 0..600 : ParseSerial(FormatSerial(n)) = n

(* A leaf lasts two years or to the issuer's end; its serial is positive;  *)
(* it has the appId of the request.                                        *)
ASSUME
    \A notBefore, end \in 0..6, draws \in [1..2 -> 0..2] :
        draws[2] > 0 =>
            LET leaf == Leaf(Abc, draws, notBefore, end) IN
            /\ leaf.notAfter \in {notBefore + LeafValidity, end}
            /\ leaf.notAfter <= end
            /\ leaf.serial > 0 /\ leaf.cn = Abc

(* What is stored of an accepted revokedFrom is not before the notBefore   *)
(* that the ledger has, in whole seconds.                                  *)
ASSUME
    \A from, issued \in 0..12 :
        FromAccepted(from, Stored(issued)) => Stored(from) >= Stored(issued)

(* Only P-384 and long RSA keys get a leaf, and only for a strict appId.   *)
Keys == [kind : {"EC"}, curve : {"P-256", "P-384"}]
        \cup [kind : {"RSA"}, bits : {MinRSABits - 1, MinRSABits}]

CSRs == [pem : BOOLEAN, parses : BOOLEAN, key : Keys, selfSigned : BOOLEAN,
         cn : {Names[c] : c \in {c1, c2}} \cup {Invalid}]

ASSUME
    \A req \in CSRs : AppIdOf(req) # Invalid =>
        /\ req.selfSigned /\ AppIdOf(req) = req.cn
        /\ req.key.kind = "EC" => req.key.curve = "P-384"
        /\ req.key.kind = "RSA" => req.key.bits = MinRSABits

(* info.xml may have blanks around the id.                                 *)
ASSUME InfoID([parses |-> TRUE, id |-> <<32>> \o Abc \o <<10>>]) = Abc

(* A ledger file with a revoked entry has its revokedFrom.                 *)
ASSUME
    \A st \in {"active", "revoked", "gone"}, h, d \in BOOLEAN :
        Parses([decodes |-> d, appId |-> Abc,
                certificates |-> {[status |-> st, hasFrom |-> h]}])
        <=> d /\ st # "gone" /\ (st = "revoked" => h)
=============================================================================
