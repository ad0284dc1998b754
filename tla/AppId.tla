------------------------------- MODULE AppId -------------------------------
(***************************************************************************)
(* The appId grammar and the two ways of reading one (internal/appid,      *)
(* internal/appinfo).  A string is a sequence of bytes.  An appId that     *)
(* comes from a certificate is taken as it stands (ValidateStrict); one    *)
(* that comes from info.xml or a CommonName to be looked up is folded      *)
(* first (Canonicalize).  Both answer Invalid for anything else.           *)
(***************************************************************************)
EXTENDS Integers, Sequences

Byte == 0..255

Upper == 65..90             \* A-Z
Lower == 97..122            \* a-z
Digit == 48..57             \* 0-9
Space == {9, 10, 11, 12, 13, 32}

(* Pattern: ^[a-z][a-z0-9_.-]{2,63}$, without a character of another line. *)
Tail3 == Lower \cup Digit \cup {95, 46, 45}

Invalid == <<>>

(* The bytes A-Z to a-z and no other byte.                                 *)
Fold(s) == [i \in 1..Len(s) |-> IF s[i] \in Upper THEN s[i] + 32 ELSE s[i]]

Valid(s) ==
    /\ Len(s) \in 3..64
    /\ s[1] \in Lower
    /\ \A i \in 2..Len(s) : s[i] \in Tail3

ValidateStrict(cn) == IF Valid(cn) THEN cn ELSE Invalid

Canonicalize(raw) == IF Valid(Fold(raw)) THEN Fold(raw) ELSE Invalid

(* strings.TrimSpace, as far as single bytes go.                           *)
TrimSpace(s) ==
    LET ink == {i \in 1..Len(s) : s[i] \notin Space} IN
    IF ink = {} THEN <<>>
    ELSE SubSeq(s, CHOOSE i \in ink : \A j \in ink : i <= j,
                   CHOOSE i \in ink : \A j \in ink : j <= i)

(* info.xml either does not parse or has an <id>, which may be blank; the  *)
(* error of ExtractID and of Canonicalize have the same consequence.       *)
InfoID(doc) == IF doc.parses THEN Canonicalize(TrimSpace(doc.id)) ELSE Invalid
=============================================================================
