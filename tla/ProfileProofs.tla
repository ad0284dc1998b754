--------------------------- MODULE ProfileProofs ---------------------------
(***************************************************************************)
(* What the canonical form of an appId, the window of a leaf and the text  *)
(* of a serial are worth, for strings of any length, times and serials of  *)
(* any size; MCRevoke compares the same operators over bounded inputs.     *)
(***************************************************************************)
EXTENDS Profile, SequenceTheorems, WellFoundedInduction, TLAPS

Strings == Seq(Byte)

(* One byte: what the fold makes of it, and what the grammar lets in.      *)
FoldByte(b) == IF b \in Upper THEN b + 32 ELSE b

LEMMA FoldedByte ==
    ASSUME NEW b \in Byte
    PROVE  /\ FoldByte(b) \in Byte /\ FoldByte(b) \notin Upper
           /\ b \notin Upper => FoldByte(b) = b
           /\ b > 127 => FoldByte(b) = b
BY DEF FoldByte, Byte, Upper

LEMMA GrammarByte ==
    ASSUME NEW b, b \in Lower \/ b \in Tail3
    PROVE  b \in Byte /\ b \notin Upper /\ ~(b > 127)
BY DEF Lower, Tail3, Digit, Upper, Byte

LEMMA ValidBytes ==
    ASSUME NEW s, Valid(s), NEW i \in 1..Len(s)
    PROVE  s[i] \in Byte /\ s[i] \notin Upper /\ ~(s[i] > 127)
<1>1. s[i] \in Lower \/ s[i] \in Tail3
  BY DEF Valid
<1> QED
  BY <1>1, GrammarByte

(* A folded string has the length of the original, and no upper case.      *)
LEMMA FoldShape ==
    ASSUME NEW s \in Strings
    PROVE  /\ Fold(s) \in Strings
           /\ Len(Fold(s)) = Len(s)
           /\ \A i \in 1..Len(s) : /\ s[i] \in Byte
                                   /\ Fold(s)[i] = FoldByte(s[i])
<1>1. Len(s) \in Nat /\ \A i \in 1..Len(s) : s[i] \in Byte
  BY DEF Strings
<1>2. \A i \in 1..Len(s) : FoldByte(s[i]) \in Byte
  BY <1>1, FoldedByte
<1>3. Fold(s) = [i \in 1..Len(s) |-> FoldByte(s[i])]
  BY DEF Fold, FoldByte
<1>4. Fold(s) \in [1..Len(s) -> Byte]
  BY <1>2, <1>3
<1>5. Fold(s) \in Strings
  BY <1>1, <1>4, SeqDef DEF Strings
<1>6. Len(Fold(s)) = Len(s)
  <2>1. DOMAIN Fold(s) = 1..Len(s) /\ DOMAIN Fold(s) = 1..Len(Fold(s))
    BY <1>4, <1>5, LenProperties DEF Strings
  <2>2. Len(Fold(s)) \in Nat
    BY <1>5, LenProperties DEF Strings
  <2> QED
    BY <2>1, <2>2, <1>1
<1> QED
  BY <1>1, <1>3, <1>5, <1>6

(* What is valid has no upper case in it, so that folding it is no change. *)
LEMMA FoldOfValid ==
    ASSUME NEW s \in Strings, Valid(s)
    PROVE  Fold(s) = s
<1>1. \A i \in 1..Len(s) : Fold(s)[i] = s[i]
  BY ValidBytes, FoldShape, FoldedByte
<1> QED
  BY <1>1, FoldShape, SeqEqual DEF Strings

(* Folding twice is folding once.                                          *)
LEMMA FoldTwice ==
    ASSUME NEW s \in Strings
    PROVE  Fold(Fold(s)) = Fold(s)
<1>1. /\ Fold(s) \in Strings /\ Fold(Fold(s)) \in Strings
      /\ Len(Fold(Fold(s))) = Len(Fold(s)) /\ Len(Fold(s)) = Len(s)
  BY FoldShape
<1>2. ASSUME NEW i \in 1..Len(Fold(s))
      PROVE  Fold(Fold(s))[i] = Fold(s)[i]
  <2>1. s[i] \in Byte /\ Fold(s)[i] = FoldByte(s[i])
    BY <1>1, FoldShape
  <2>2. Fold(Fold(s))[i] = FoldByte(Fold(s)[i])
    BY <1>1, FoldShape
  <2> QED
    BY <2>1, <2>2, FoldedByte
<1> QED
  BY <1>1, <1>2, SeqEqual DEF Strings

(* No string is both valid and the error value.                            *)
LEMMA ValidIsNotInvalid ==
    ASSUME NEW s \in Strings, Valid(s)
    PROVE  s # Invalid
BY DEF Valid, Invalid

(* The id of info.xml and the CommonName of a certificate name one ledger  *)
(* file: what Canonicalize answers is what ValidateStrict takes as it      *)
(* stands, and to canonicalize it again changes nothing (appid.go).        *)
THEOREM CanonicalIsStrict ==
    ASSUME NEW raw \in Strings
    PROVE  LET id == Canonicalize(raw) IN
           id # Invalid => /\ ValidateStrict(id) = id
                           /\ Canonicalize(id) = id
<1> SUFFICES ASSUME Canonicalize(raw) # Invalid
             PROVE  /\ ValidateStrict(Canonicalize(raw)) = Canonicalize(raw)
                    /\ Canonicalize(Canonicalize(raw)) = Canonicalize(raw)
  OBVIOUS
<1>1. Valid(Fold(raw)) /\ Canonicalize(raw) = Fold(raw)
  BY DEF Canonicalize
<1>2. Fold(Fold(raw)) = Fold(raw)
  BY FoldTwice
<1> QED
  BY <1>1, <1>2 DEF Canonicalize, ValidateStrict

(* The two readings agree on every string that the strict one takes, so    *)
(* that a leaf issued for a CommonName is found again under it.            *)
THEOREM StrictIsCanonical ==
    ASSUME NEW cn \in Strings, ValidateStrict(cn) # Invalid
    PROVE  Canonicalize(cn) = cn
<1>1. Valid(cn)
  BY DEF ValidateStrict
<1>2. Fold(cn) = cn
  BY <1>1, FoldOfValid
<1> QED
  BY <1>1, <1>2 DEF Canonicalize

(* No byte outside ASCII is folded into the grammar: the Kelvin sign and   *)
(* its like, which strings.ToLower would turn into a letter, are refused   *)
(* (appid_test.go).                                                        *)
THEOREM NonAsciiRefused ==
    ASSUME NEW raw \in Strings, NEW i \in 1..Len(raw), raw[i] > 127
    PROVE  Canonicalize(raw) = Invalid /\ ValidateStrict(raw) = Invalid
<1>1. ~Valid(raw)
  BY ValidBytes
<1>2. Len(Fold(raw)) = Len(raw) /\ Fold(raw)[i] = raw[i]
  BY FoldShape, FoldedByte
<1>3. ~Valid(Fold(raw))
  BY <1>2, ValidBytes
<1> QED
  BY <1>1, <1>3 DEF Canonicalize, ValidateStrict

(* A leaf never outlives its issuer, and what it gets is empty exactly     *)
(* when the issuer has expired by then (certtmpl.go clamps the end and     *)
(* does not look at the start).                                            *)
THEOREM WindowWithinIssuer ==
    ASSUME NEW notBefore \in Nat, NEW issuerEnd \in Nat, ProfileAssumption
    PROVE  /\ NotAfter(notBefore, issuerEnd) <= issuerEnd
           /\ NotAfter(notBefore, issuerEnd) <= notBefore + LeafValidity
           /\ NotAfter(notBefore, issuerEnd) < notBefore <=> issuerEnd < notBefore
BY DEF NotAfter, ProfileAssumption

(* An accepted revokedFrom is still not before the certificate once it is  *)
(* cut to whole seconds for the ledger, because the notBefore of an X.509  *)
(* certificate has whole seconds (steps.go compares, ledger.go stores).    *)
THEOREM StoredFromInWindow ==
    ASSUME NEW from \in Nat, NEW seconds \in Nat, ProfileAssumption,
           FromAccepted(from, seconds * Second)
    PROVE  /\ Stored(from) >= seconds * Second
           /\ Stored(from) <= from
<1> DEFINE q == from \div Second
<1>1. Second \in Nat /\ Second > 0 /\ from >= seconds * Second
  BY DEF ProfileAssumption, FromAccepted
<1>2. q \in Nat /\ q * Second <= from /\ from < (q + 1) * Second
  BY <1>1
<1>3. seconds <= q
  <2> SUFFICES ASSUME q + 1 <= seconds PROVE FALSE
    BY <1>2
  <2>1. (q + 1) * Second <= seconds * Second
    BY <1>1, <1>2
  <2> QED
    BY <2>1, <1>1, <1>2
<1>4. seconds * Second <= q * Second
  BY <1>1, <1>2, <1>3
<1> QED
  BY <1>1, <1>2, <1>4 DEF Stored
-----------------------------------------------------------------------------
(* A serial as text and back.  The prover has no induction over data, but  *)
(* every set of numbers has a least one: enough to show that the recursive *)
(* functions of Profile exist, and what their values are.                  *)
Hex == 0..15

LEMMA LeastNat ==
    ASSUME NEW T, T \subseteq Nat, T # {}
    PROVE  \E x \in T : \A y \in T : x <= y
<1>1. PICK x \in T : \A y \in T : <<y, x>> \notin OpToRel(<, Nat)
  <2> DEFINE R == OpToRel(<, Nat)
  <2> HIDE DEF R
  <2>1. IsWellFoundedOn(R, Nat)
    BY NatLessThanWellFounded DEF R
  <2>2. \E x \in T : \A y \in T : <<y, x>> \notin R
    BY <2>1, WFMin
  <2> QED
    BY <2>2 DEF R
<1>2. ASSUME NEW y \in T
      PROVE  x <= y
  <2>1. <<y, x>> \notin {ss \in Nat \X Nat : ss[1] < ss[2]}
    BY <1>1, Zenon DEF OpToRel
  <2> HIDE <1>1
  <2> QED
    BY <2>1
<1> QED
  BY <1>2

LEMMA InductionOnSets ==
    ASSUME NEW S, 0 \in S, \A n \in Nat : n \in S => n + 1 \in S
    PROVE  Nat \subseteq S
<1> SUFFICES ASSUME Nat \ S # {} PROVE FALSE
  OBVIOUS
<1>1. PICK x \in Nat \ S : \A y \in Nat \ S : x <= y
  BY LeastNat
<1>2. x # 0 /\ x - 1 \in Nat
  BY <1>1
<1>3. x - 1 \in S
  BY <1>1, <1>2
<1> QED
  BY <1>1, <1>2, <1>3

(* f[k] is what the first k digits are worth.                              *)
IsValue(f, digits) ==
    f = [k \in 0..Len(digits) |->
            IF k = 0 THEN 0 ELSE 16 * f[k - 1] + digits[k]]

LEMMA ValueExists ==
    ASSUME NEW digits \in Seq(Hex)
    PROVE  \E f : IsValue(f, digits)
<1> DEFINE Prefix(f, n) ==
             \A k \in 0..n :
                f[k] = IF k = 0 THEN 0 ELSE 16 * f[k - 1] + digits[k]
           Long(n) == n <= Len(digits) => \E f \in [0..n -> Nat] : Prefix(f, n)
           S == {n \in Nat : Long(n)}
<1>0. Len(digits) \in Nat /\ \A k \in 1..Len(digits) : digits[k] \in Hex
  OBVIOUS
<1>1. Long(0)
  <2>1. /\ Prefix([k \in 0..0 |-> 0], 0)
        /\ [k \in 0..0 |-> 0] \in [0..0 -> Nat]
    OBVIOUS
  <2> QED
    BY <2>1
<1>2. ASSUME NEW n \in Nat, Long(n), n + 1 <= Len(digits)
      PROVE  \E f \in [0..(n + 1) -> Nat] : Prefix(f, n + 1)
  <2>0. n <= Len(digits)
    BY <1>0, <1>2
  <2>1. PICK f \in [0..n -> Nat] : Prefix(f, n)
    BY <2>0, <1>2
  <2> DEFINE g == [k \in 0..(n + 1) |->
                      IF k = n + 1 THEN 16 * f[n] + digits[n + 1] ELSE f[k]]
  <2>2. digits[n + 1] \in Nat
    <3>1. n + 1 \in 1..Len(digits)
      BY <1>0, <1>2
    <3>2. digits[n + 1] \in 0..15
      BY <1>0, <3>1 DEF Hex
    <3> QED
      BY <3>2
  <2>3. g \in [0..(n + 1) -> Nat]
    BY <2>1, <2>2
  <2>4. Prefix(g, n + 1)
    BY <2>1
  <2> QED
    BY <2>3, <2>4
<1>3. \A n \in Nat : Long(n) => Long(n + 1)
  BY <1>2
<1> HIDE DEF Long
<1>4. Long(Len(digits))
  <2>1. 0 \in S /\ \A n \in Nat : n \in S => n + 1 \in S
    BY <1>1, <1>3
  <2>2. Nat \subseteq S
    <3> HIDE DEF S
    <3> QED
      BY <2>1, InductionOnSets
  <2> QED
    BY <1>0, <2>2
<1>5. PICK f \in [0..Len(digits) -> Nat] : Prefix(f, Len(digits))
  BY <1>0, <1>4 DEF Long
<1>6. f = [k \in 0..Len(digits) |->
              IF k = 0 THEN 0 ELSE 16 * f[k - 1] + digits[k]]
  BY <1>5
<1> QED
  BY <1>6 DEF IsValue

LEMMA ValueUnfolds ==
    ASSUME NEW digits \in Seq(Hex)
    PROVE  \E f : IsValue(f, digits) /\ Value(digits) = f[Len(digits)]
<1> DEFINE f == CHOOSE f : IsValue(f, digits)
<1>1. IsValue(f, digits)
  BY ValueExists
<1>2. Value(digits) = f[Len(digits)]
  BY DEF Value, IsValue
<1> QED
  BY <1>1, <1>2

(* One more digit at the right end.                                        *)
LEMMA ValueOfAppend ==
    ASSUME NEW digits \in Seq(Hex), NEW d \in Hex
    PROVE  /\ Append(digits, d) \in Seq(Hex)
           /\ Value(Append(digits, d)) = 16 * Value(digits) + d
<1> DEFINE longer == Append(digits, d)
           n == Len(digits)
<1>1. /\ longer \in Seq(Hex) /\ n \in Nat /\ Len(longer) = n + 1
      /\ \A k \in 1..n : longer[k] = digits[k]
      /\ longer[n + 1] = d
  OBVIOUS
<1> HIDE DEF longer, n
<1>2. PICK f : IsValue(f, digits) /\ Value(digits) = f[n]
  BY ValueUnfolds DEF n
<1>3. PICK g : IsValue(g, longer) /\ Value(longer) = g[n + 1]
  BY <1>1, ValueUnfolds
<1>4. /\ \A k \in 0..n : f[k] = IF k = 0 THEN 0 ELSE 16 * f[k - 1] + digits[k]
      /\ \A k \in 0..(n + 1) :
            g[k] = IF k = 0 THEN 0 ELSE 16 * g[k - 1] + longer[k]
  BY <1>1, <1>2, <1>3 DEF IsValue, n
<1>5. \A k \in 0..n : g[k] = f[k]
  <2> DEFINE T == {k \in 0..n : g[k] # f[k]}
  <2> SUFFICES ASSUME T # {} PROVE FALSE
    OBVIOUS
  <2>0. T \subseteq Nat
    BY <1>1
  <2>1. PICK k \in T : \A j \in T : k <= j
    <3> HIDE DEF T
    <3> QED
      BY <2>0, LeastNat
  <2>2. k # 0 /\ k - 1 \in 0..n /\ k \in 1..n
    BY <1>1, <1>4, <2>1
  <2>3. g[k - 1] = f[k - 1]
    BY <1>1, <2>1, <2>2
  <2>4. g[k] = f[k]
    BY <1>1, <1>4, <2>2, <2>3
  <2> QED
    BY <2>1, <2>4
<1>6. g[n + 1] = 16 * g[n] + longer[n + 1]
  BY <1>1, <1>4
<1> QED
  BY <1>1, <1>2, <1>3, <1>5, <1>6 DEF longer

LEMMA ValueOfNothing == <<>> \in Seq(Hex) /\ Value(<<>>) = 0
<1>1. <<>> \in Seq(Hex) /\ Len(<<>>) = 0
  OBVIOUS
<1>2. PICK f : IsValue(f, <<>>) /\ Value(<<>>) = f[0]
  BY <1>1, ValueUnfolds
<1> QED
  BY <1>1, <1>2 DEF IsValue

(* The digits of m, given by f those of smaller numbers.                   *)
TextOf(f, m) == Append(IF m < 16 THEN <<>> ELSE f[m \div 16], m % 16)

IsText(f, n) == f = [m \in 0..n |-> TextOf(f, m)]

LEMMA TextExists ==
    ASSUME NEW n \in Nat
    PROVE  \E f : IsText(f, n)
<1> DEFINE Long(m) == \E f : IsText(f, m)
           S == {m \in Nat : Long(m)}
<1>0. ASSUME NEW f, NEW g, NEW m \in Nat,
             m >= 16 => f[m \div 16] = g[m \div 16]
      PROVE  TextOf(f, m) = TextOf(g, m)
  BY <1>0 DEF TextOf
<1>1. Long(0)
  <2> DEFINE f == [k \in 0..0 |-> TextOf(<<>>, 0)]
  <2>1. TextOf(<<>>, 0) = TextOf(f, 0)
    BY <1>0
  <2>2. f = [k \in 0..0 |-> TextOf(f, k)]
    BY <2>1
  <2> QED
    BY <2>2 DEF IsText
<1>2. ASSUME NEW m \in Nat, Long(m)
      PROVE  Long(m + 1)
  <2>1. PICK f : f = [k \in 0..m |-> TextOf(f, k)]
    BY <1>2 DEF IsText
  <2> DEFINE g == [k \in 0..(m + 1) |-> TextOf(f, k)]
  <2>2. ASSUME NEW k \in 0..(m + 1)
        PROVE  TextOf(f, k) = TextOf(g, k)
    <3>1. k >= 16 => k \div 16 \in 0..m
      OBVIOUS
    <3>2. \A j \in 0..m : g[j] = f[j]
      BY <2>1
    <3> HIDE DEF g
    <3> QED
      BY <1>0, <3>1, <3>2
  <2>3. g = [k \in 0..(m + 1) |-> TextOf(g, k)]
    BY <2>2
  <2> QED
    BY <2>3 DEF IsText
<1>3. Long(n)
  <2>1. 0 \in S /\ \A m \in Nat : m \in S => m + 1 \in S
    BY <1>1, <1>2
  <2>2. Nat \subseteq S
    <3> HIDE DEF S
    <3> QED
      BY <2>1, InductionOnSets
  <2> QED
    BY <2>2
<1> QED
  BY <1>3

LEMMA TextUnfolds ==
    ASSUME NEW n \in Nat
    PROVE  \E f : IsText(f, n) /\ HexDigits(n) = f[n]
<1> DEFINE f == CHOOSE f : IsText(f, n)
<1>1. IsText(f, n)
  BY TextExists
<1>2. HexDigits(n) = f[n]
  BY DEF HexDigits, IsText, TextOf
<1> QED
  BY <1>1, <1>2

(* The digits of n are worth n, and only those of 0 begin with a 0.        *)
LEMMA DigitsReadBack ==
    ASSUME NEW n \in Nat
    PROVE  /\ HexDigits(n) \in Seq(Hex) /\ HexDigits(n) # <<>>
           /\ Value(HexDigits(n)) = n
           /\ HexDigits(n)[1] = 0 => n = 0
<1>1. PICK f : IsText(f, n) /\ HexDigits(n) = f[n]
  BY TextUnfolds
<1> DEFINE Good(m) == /\ f[m] \in Seq(Hex) /\ f[m] # <<>>
                      /\ Value(f[m]) = m
                      /\ f[m][1] = 0 => m = 0
           T == {m \in 0..n : ~Good(m)}
<1>2. \A m \in 0..n : f[m] = TextOf(f, m)
  BY <1>1 DEF IsText
<1>3. ASSUME NEW m \in 0..n, \A k \in 0..n : k < m => Good(k)
      PROVE  Good(m)
  <2> DEFINE q == m \div 16
             d == m % 16
             high == IF m < 16 THEN <<>> ELSE f[q]
  <2>1. /\ d \in Hex /\ 16 * q + d = m
        /\ m < 16 => q = 0
        /\ m >= 16 => q \in 0..n /\ q < m /\ q > 0
    BY DEF Hex
  <2>2. f[m] = Append(high, d)
    BY <1>2 DEF TextOf
  <2> HIDE DEF q, d
  <2>3. /\ high \in Seq(Hex) /\ Value(high) = q
        /\ high = <<>> \/ high[1] # 0
    <3>1. CASE m < 16
      BY <2>1, <3>1, ValueOfNothing
    <3>2. CASE m >= 16
      BY <1>3, <2>1, <3>2
    <3> QED
      BY <3>1, <3>2
  <2>4. high = <<>> => m < 16
    BY <1>3, <2>1
  <2> HIDE DEF high
  <2>5. f[m] \in Seq(Hex) /\ Value(f[m]) = m
    BY <2>1, <2>2, <2>3, ValueOfAppend
  <2>6. f[m] # <<>> /\ (f[m][1] = IF high = <<>> THEN d ELSE high[1])
    <3>1. Len(high) \in Nat /\ (high = <<>> <=> Len(high) = 0)
      BY <2>3, EmptySeq, LenProperties
    <3> QED
      BY <2>1, <2>2, <2>3, <3>1, AppendProperties DEF Hex
  <2>7. f[m][1] = 0 => m = 0
    <3>1. CASE high = <<>>
      <4>1. m < 16 /\ q = 0 /\ f[m][1] = d
        BY <2>1, <2>4, <2>6, <3>1
      <4> QED
        BY <2>1, <4>1 DEF Hex
    <3>2. CASE high # <<>>
      BY <2>3, <2>6, <3>2
    <3> QED
      BY <3>1, <3>2
  <2> QED
    BY <2>5, <2>6, <2>7
<1>4. T = {}
  <2> SUFFICES ASSUME T # {} PROVE FALSE
    OBVIOUS
  <2>0. T \subseteq Nat
    OBVIOUS
  <2>1. PICK m \in T : \A k \in T : m <= k
    <3> HIDE DEF T
    <3> QED
      BY <2>0, LeastNat
  <2>2. \A k \in 0..n : k < m => Good(k)
    <3> HIDE DEF Good
    <3> QED
      BY <2>1
  <2>3. m \in 0..n /\ ~Good(m)
    BY <2>1
  <2> HIDE DEF Good
  <2> QED
    BY <1>3, <2>2, <2>3
<1>5. Good(n)
  <2> HIDE DEF Good
  <2> QED
    BY <1>4
<1> QED
  BY <1>1, <1>5

(* The number that a CRL entry has is the one of the certificate that was  *)
(* signed, whatever its size: parseSerial reads back what FormatSerial     *)
(* wrote (crl.go:61-72, signer.go:43-48).                                  *)
THEOREM SerialRoundTrip ==
    ASSUME NEW n \in Nat
    PROVE  ParseSerial(FormatSerial(n)) = n
BY DigitsReadBack DEF ParseSerial, FormatSerial

(* Two certificates with one text in the ledger have one serial, so that   *)
(* findBySerial, which compares texts, finds no other certificate          *)
(* (privileged.go:92-103).                                                 *)
THEOREM SerialTextIsSerial ==
    ASSUME NEW m \in Nat, NEW n \in Nat, FormatSerial(m) = FormatSerial(n)
    PROVE  m = n
BY SerialRoundTrip
=============================================================================
