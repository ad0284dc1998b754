------------------------------ MODULE Profile ------------------------------
(***************************************************************************)
(* What a certificate request must be, what the leaf made from it is, and  *)
(* the text forms the ledger keeps (internal/csr, internal/certtmpl,       *)
(* internal/signer, internal/ledger).  Times are counted in nanoseconds,   *)
(* Second of them to the second; X.509 extensions and key material are     *)
(* left out.                                                               *)
(***************************************************************************)
EXTENDS AppId

CONSTANTS
    Second,         \* 10^9 in the code
    LeafValidity,   \* two years
    MinRSABits      \* 3072

ASSUME ProfileAssumption ==
    /\ Second \in Nat \ {0}
    /\ LeafValidity \in Nat
    /\ MinRSABits \in Nat

-----------------------------------------------------------------------------
(* checkKey: EC on P-384, or RSA of at least MinRSABits.                   *)
KeyAllowed(key) ==
    \/ key.kind = "EC" /\ key.curve = "P-384"
    \/ key.kind = "RSA" /\ key.bits >= MinRSABits

(* csr.Parse: a PEM block that parses, an allowed key, and a signature by  *)
(* it.  The CommonName is validated after that, strictly.                  *)
ParseCSR(req) ==
    CASE ~req.pem               -> "ErrNotPEM"
      [] req.pem /\ ~req.parses -> "parse"
      [] req.pem /\ req.parses /\ ~KeyAllowed(req.key) -> "ErrUnsupportedKey"
      [] req.pem /\ req.parses /\ KeyAllowed(req.key) /\ ~req.selfSigned
                                -> "ErrBadSignature"
      [] OTHER                  -> "ok"

AppIdOf(req) == IF ParseCSR(req) = "ok" THEN ValidateStrict(req.cn) ELSE Invalid

-----------------------------------------------------------------------------
(* Mutation: a leaf may outlive its issuer.                                *)
NotAfterFree(notBefore, issuerEnd) == notBefore + LeafValidity

(* The window of a leaf: two years, but never beyond the issuer.           *)
NotAfter(notBefore, issuerEnd) ==
    IF notBefore + LeafValidity > issuerEnd THEN issuerEnd
                                            ELSE notBefore + LeafValidity

(* randomSerial: draws repeat until one is positive.                       *)
SerialOf(draws) ==
    draws[CHOOSE i \in 1..Len(draws) :
             draws[i] > 0 /\ \A j \in 1..(i - 1) : draws[j] = 0]

NoLeaf == [cn |-> Invalid]

(* certtmpl.Leaf refuses a CommonName that is not canonical.               *)
Leaf(cn, draws, notBefore, issuerEnd) ==
    IF ValidateStrict(cn) = Invalid THEN NoLeaf
    ELSE [cn |-> cn, serial |-> SerialOf(draws), notBefore |-> notBefore,
          notAfter |-> NotAfter(notBefore, issuerEnd)]

-----------------------------------------------------------------------------
(* Timestamp: RFC 3339 in UTC with whole seconds, whatever was given.      *)
Stored(time) == (time \div Second) * Second

(* PrivilegedProcess: an operator's revokedFrom must not be before the     *)
(* certificate's notBefore; it is compared before it is stored.            *)
FromAccepted(from, notBefore) == from >= notBefore

(* FormatSerial: 0x and the hexadecimal digits, the first not 0 unless the *)
(* serial is.                                                              *)
HexDigits(n) ==
    LET text[m \in 0..n] ==
            Append(IF m < 16 THEN <<>> ELSE text[m \div 16], m % 16)
    IN  text[n]

FormatSerial(n) == [prefix |-> "0x", digits |-> HexDigits(n)]

(* Mutation: the digits are read as decimal ones.                          *)
ValueDecimal(digits) ==
    LET value[k \in 0..Len(digits)] ==
            IF k = 0 THEN 0 ELSE 10 * value[k - 1] + digits[k]
    IN  value[Len(digits)]

(* parseSerial: -1 for an error; a text without digits is one.             *)
Value(digits) ==
    LET value[k \in 0..Len(digits)] ==
            IF k = 0 THEN 0 ELSE 16 * value[k - 1] + digits[k]
    IN  value[Len(digits)]

ParseSerial(text) ==
    IF text.prefix = "0x" /\ text.digits # <<>> THEN Value(text.digits) ELSE -1

(* ledger.Parse: no unknown field, a canonical appId, a known status, and  *)
(* a revokedFrom with every revoked entry.                                 *)
Parses(file) ==
    /\ file.decodes
    /\ ValidateStrict(file.appId) # Invalid
    /\ \A c \in file.certificates :
          c.status = "active" \/ (c.status = "revoked" /\ c.hasFrom)
=============================================================================
