-------------------------- MODULE LedgerFileProofs --------------------------
(***************************************************************************)
(* The list of entries serves as the map from certificates to standings    *)
(* for any appIds, serials, texts an operator types and times.  What makes *)
(* it so is that the text of a serial reads back as the serial             *)
(* (ProfileProofs), that no leaf is recorded twice, and that the dates of  *)
(* entries are on the whole seconds on which leaves begin.                 *)
(***************************************************************************)
EXTENDS LedgerFile, ProfileProofs

Recording == {FormatSerial(n) : n \in Serials}

Entries == [serial : Recording, fingerprint : Leaves, notBefore : Dates,
            notAfter : Dates, status : {"active", "revoked"}, from : Int]

Typed ==
    /\ now \in Times
    /\ signed \subseteq Leaves
    /\ file \in [Apps -> Seq(Entries)]
    /\ crl \in [number : Nat, list : SUBSET (Nat \X Dates)]

(* What an entry says of its leaf is true.                                 *)
Describes(e, a) ==
    /\ e.fingerprint \in signed /\ e.fingerprint.cn = a
    /\ e.serial = FormatSerial(e.fingerprint.serial)
    /\ e.notBefore = e.fingerprint.notBefore
    /\ e.notAfter = e.fingerprint.notAfter
    /\ \/ e.status = "active" /\ e.from = NoDate
       \/ e.status = "revoked" /\ e.from \in Dates /\ e.from >= e.notBefore

Described == \A a \in Apps : \A i \in DOMAIN file[a] : Describes(file[a][i], a)

(* A serial is drawn once, and a leaf recorded once.                       *)
DrawnOnce == \A l, m \in signed : l.serial = m.serial => l = m

RecordedOnce ==
    \A a \in Apps : \A i, j \in DOMAIN file[a] :
        file[a][i].fingerprint = file[a][j].fingerprint => i = j

(* What a CRL lists has a revoked entry; the date may be an earlier one.   *)
ListedFromEntry ==
    \A p \in crl.list : \E a \in Apps : \E i \in DOMAIN file[a] :
        /\ file[a][i].status = "revoked"
        /\ file[a][i].fingerprint.serial = p[1]
        /\ p[2] >= file[a][i].notBefore

FileInv ==
    /\ Typed /\ Described /\ DrawnOnce /\ RecordedOnce
    /\ NeverOutlivesIssuer /\ ListedFromEntry
-----------------------------------------------------------------------------
(* Cutting a time to its second.                                           *)
LEMMA WholeSeconds ==
    ASSUME NEW t \in Nat
    PROVE  /\ Stored(t) \in Dates /\ Stored(t) <= t /\ t < Stored(t) + Second
           /\ \A s \in Dates : s <= t => s <= Stored(t)
<1>0. Second \in Nat /\ Second > 0
  BY ProfileAssumption
<1> DEFINE q == t \div Second
<1>1. q \in Nat /\ q * Second <= t /\ t < (q + 1) * Second
  BY <1>0
<1>2. Stored(t) = q * Second /\ Stored(t) \in Nat
  BY <1>0, <1>1 DEF Stored
<1>3. (q + 1) * Second = q * Second + Second
  BY <1>0, <1>1
<1>4. ASSUME NEW s \in Dates, s <= t
      PROVE  s <= Stored(t)
  <2>1. s \in Nat /\ s = (s \div Second) * Second /\ s \div Second \in Nat
    BY <1>0, <1>4 DEF Dates, Stored
  <2>2. FromAccepted(t, (s \div Second) * Second)
    BY <1>4, <2>1 DEF FromAccepted
  <2> QED
    BY <2>1, <2>2, StoredFromInWindow, ProfileAssumption
<1>5. Stored(Stored(t)) = Stored(t)
  <2>1. FromAccepted(q * Second, q * Second)
    BY <1>2 DEF FromAccepted
  <2>2. Stored(q * Second) >= q * Second /\ Stored(q * Second) <= q * Second
    BY <1>1, <1>2, <2>1, StoredFromInWindow, ProfileAssumption
  <2>3. Stored(q * Second) \in Int
    BY <1>0, <1>2 DEF Stored
  <2> QED
    BY <1>2, <2>2, <2>3
<1> QED
  BY <1>1, <1>2, <1>3, <1>4, <1>5 DEF Dates

LEMMA DatesAreTimes ==
    /\ Dates \subseteq Nat /\ IssuerEnd \in Dates
    /\ Times \subseteq Nat
BY FileAssumption DEF Dates, Times

(* The number that the draws give.                                         *)
LEMMA DrawnSerial ==
    ASSUME NEW draws \in Draws
    PROVE  SerialOf(draws) \in Serials
<1>0. Serials \subseteq Nat \ {0}
  BY FileAssumption
<1>1. CASE \E n \in Serials : draws = <<n>>
  <2>1. PICK n \in Serials : draws = <<n>>
    BY <1>1
  <2>2. Len(draws) = 1 /\ draws[1] = n /\ n > 0
    BY <1>0, <2>1
  <2>3. \A i \in 1..Len(draws) :
           draws[i] > 0 /\ (\A j \in 1..(i - 1) : draws[j] = 0) <=> i = 1
    BY <2>2
  <2>4. SerialOf(draws) = draws[1]
    BY <2>2, <2>3 DEF SerialOf
  <2> QED
    BY <2>2, <2>4
<1>2. CASE \E n \in Serials : draws = <<0, n>>
  <2>1. PICK n \in Serials : draws = <<0, n>>
    BY <1>2
  <2>2. Len(draws) = 2 /\ draws[1] = 0 /\ draws[2] = n /\ n > 0
    BY <1>0, <2>1
  <2>3. \A i \in 1..Len(draws) :
           draws[i] > 0 /\ (\A j \in 1..(i - 1) : draws[j] = 0) <=> i = 2
    BY <2>2
  <2>4. SerialOf(draws) = draws[2]
    BY <2>2, <2>3 DEF SerialOf
  <2> QED
    BY <2>2, <2>4
<1> QED
  BY <1>1, <1>2 DEF Draws

(* The leaf that a run signs.                                              *)
LEMMA SignedLeaf ==
    ASSUME NEW a \in Apps, NEW draws \in Draws, now \in Times
    PROVE  LET leaf == Encoded(Leaf(a, draws, now, IssuerEnd)) IN
           /\ leaf \in Leaves /\ leaf.cn = a
           /\ leaf.notAfter <= IssuerEnd
           /\ leaf.notAfter < leaf.notBefore + LeafValidity + Second
           /\ leaf.notAfter < leaf.notBefore => IssuerEnd < leaf.notBefore
<1> DEFINE end == NotAfter(now, IssuerEnd)
           leaf == Encoded(Leaf(a, draws, now, IssuerEnd))
<1>0. /\ now \in Nat /\ IssuerEnd \in Nat /\ LeafValidity \in Nat
      /\ Second \in Nat \ {0} /\ IssuerEnd \in Dates
  BY DatesAreTimes, FileAssumption, ProfileAssumption
<1>1. Leaf(a, draws, now, IssuerEnd) =
         [cn |-> a, serial |-> SerialOf(draws), notBefore |-> now, notAfter |-> end]
  BY FileAssumption DEF Leaf
<1>2. leaf = [cn |-> a, serial |-> SerialOf(draws),
              notBefore |-> Stored(now), notAfter |-> Stored(end)]
  <2> DEFINE n == SerialOf(draws)
             r == [cn |-> a, serial |-> n, notBefore |-> now, notAfter |-> end]
  <2>1. leaf = [r EXCEPT !.notBefore = Stored(r.notBefore),
                         !.notAfter = Stored(r.notAfter)]
    BY <1>1 DEF Encoded
  <2> HIDE DEF leaf, end, n
  <2> QED
    BY <2>1 DEF n
<1>3. /\ end \in Nat /\ end <= IssuerEnd /\ end <= now + LeafValidity
      /\ end = IssuerEnd \/ end >= now
  BY <1>0 DEF NotAfter
<1> HIDE DEF end, leaf
<1>4. /\ Stored(now) \in Dates /\ Stored(now) <= now /\ now < Stored(now) + Second
      /\ Stored(end) \in Dates /\ Stored(end) <= end
      /\ Stored(now) <= end => Stored(now) <= Stored(end)
      /\ Stored(IssuerEnd) = IssuerEnd
      /\ Stored(now) \in Nat /\ Stored(end) \in Nat
  BY <1>0, <1>3, WholeSeconds, FileAssumption DEF Dates
<1>5. leaf \in Leaves
  BY <1>2, <1>4, DrawnSerial DEF Leaves
<1>6. leaf.cn = a /\ leaf.notBefore = Stored(now) /\ leaf.notAfter = Stored(end)
  BY <1>2
<1>7. Stored(end) < Stored(now) => IssuerEnd < Stored(now)
  BY <1>0, <1>3, <1>4
<1>8. /\ Stored(end) <= IssuerEnd
      /\ Stored(end) < Stored(now) + LeafValidity + Second
  BY <1>0, <1>3, <1>4
<1> QED
  BY <1>5, <1>6, <1>7, <1>8 DEF leaf

-----------------------------------------------------------------------------
(* What a commit makes of a list of entries.                               *)
LEMMA FlippedShape ==
    ASSUME NEW es \in Seq(Entries), NEW i \in DOMAIN es, NEW t \in Nat
    PROVE  LET f == Flipped(es, i, t) IN
           /\ f \in Seq(Entries) /\ DOMAIN f = DOMAIN es
           /\ \A j \in DOMAIN es : j # i => f[j] = es[j]
           /\ f[i].serial = es[i].serial /\ f[i].fingerprint = es[i].fingerprint
           /\ f[i].notBefore = es[i].notBefore /\ f[i].notAfter = es[i].notAfter
           /\ f[i].status = "revoked" /\ f[i].from = Stored(t)
<1> DEFINE f == Flipped(es, i, t)
           e == [es[i] EXCEPT !.status = "revoked", !.from = Stored(t)]
<1>1. es[i] \in Entries /\ DOMAIN es = 1..Len(es)
  OBVIOUS
<1>2. Stored(t) \in Int
  BY WholeSeconds DEF Dates
<1>3. e \in Entries
  BY <1>1, <1>2 DEF Entries
<1>4. /\ e.serial = es[i].serial /\ e.fingerprint = es[i].fingerprint
      /\ e.notBefore = es[i].notBefore /\ e.notAfter = es[i].notAfter
      /\ e.status = "revoked" /\ e.from = Stored(t)
  BY <1>1, <1>2 DEF Entries
<1>5. f = [es EXCEPT ![i] = e]
  BY <1>1 DEF Flipped, Entries
<1> HIDE DEF e, f
<1>6. f \in Seq(Entries) /\ DOMAIN f = DOMAIN es /\ f[i] = e
      /\ \A j \in DOMAIN es : j # i => f[j] = es[j]
  BY <1>1, <1>3, <1>5
<1> QED
  BY <1>4, <1>6 DEF f

LEMMA RecordedShape ==
    ASSUME NEW es \in Seq(Entries), NEW leaf \in Leaves
    PROVE  LET r == Recorded(es, leaf)
               last == Len(es) + 1
           IN  /\ r \in Seq(Entries)
               /\ DOMAIN r = DOMAIN es \cup {last} /\ last \notin DOMAIN es
               /\ \A j \in DOMAIN es : r[j] = es[j]
               /\ r[last] = EntryOf(leaf)
<1>1. EntryOf(leaf) \in Entries
  BY DEF EntryOf, Entries, Leaves, Recording, NoDate
<1> DEFINE e == EntryOf(leaf)
<1> HIDE DEF e
<1>2. /\ Append(es, e) \in Seq(Entries) /\ Len(es) \in Nat
      /\ Len(Append(es, e)) = Len(es) + 1
      /\ \A j \in 1..Len(es) : Append(es, e)[j] = es[j]
      /\ Append(es, e)[Len(es) + 1] = e
  BY <1>1 DEF e
<1>3. DOMAIN es = 1..Len(es) /\ DOMAIN Append(es, e) = 1..(Len(es) + 1)
  BY <1>2
<1> QED
  BY <1>2, <1>3 DEF e, Recorded

LEMMA EntryFields ==
    ASSUME NEW leaf
    PROVE  LET e == EntryOf(leaf) IN
           /\ e.serial = FormatSerial(leaf.serial) /\ e.fingerprint = leaf
           /\ e.notBefore = leaf.notBefore /\ e.notAfter = leaf.notAfter
           /\ e.status = "active" /\ e.from = NoDate
BY DEF EntryOf

(* What a run finds is an entry of the file.                               *)
LEMMA FoundEntries ==
    ASSUME NEW es, NEW leaf, NEW text
    PROVE  /\ FindByFingerprint(es, leaf) \subseteq DOMAIN es
           /\ FindBySerial(es, text) \subseteq DOMAIN es
BY DEF FindByFingerprint, FindBySerial
-----------------------------------------------------------------------------
LEMMA FileInvInit == Init => FileInv
<1> SUFFICES ASSUME Init PROVE FileInv
  OBVIOUS
<1>1. /\ now = 0 /\ signed = {} /\ crl = [number |-> 0, list |-> {}]
      /\ \A a \in Apps : file[a] = <<>>
      /\ file = [a \in Apps |-> <<>>]
  BY DEF Init
<1>2. <<>> \in Seq(Entries) /\ DOMAIN <<>> = {}
  OBVIOUS
<1>3. Typed
  BY <1>1, <1>2, FileAssumption DEF Typed, Times
<1>4. \A a \in Apps : DOMAIN file[a] = {}
  BY <1>1, <1>2
<1>5. signed = {} /\ crl.list = {}
  BY <1>1
<1> QED
  BY <1>3, <1>4, <1>5
     DEF FileInv, Described, DrawnOnce, RecordedOnce, NeverOutlivesIssuer,
         ListedFromEntry

(* An entry is revoked, from a time not before its leaf.                   *)
Revoking(a, i, t) ==
    /\ t >= file[a][i].notBefore
    /\ file' = [file EXCEPT ![a] = Flipped(@, i, t)]
    /\ UNCHANGED <<now, signed, crl>>

LEMMA Revoked ==
    ASSUME FileInv, NEW a \in Apps, NEW i \in DOMAIN file[a], NEW t \in Nat,
           Revoking(a, i, t)
    PROVE  /\ file' \in [Apps -> Seq(Entries)]
           /\ \A b \in Apps :
                 /\ DOMAIN file'[b] = DOMAIN file[b]
                 /\ \A j \in DOMAIN file[b] :
                       /\ file'[b][j].serial = file[b][j].serial
                       /\ file'[b][j].fingerprint = file[b][j].fingerprint
                       /\ file'[b][j].notBefore = file[b][j].notBefore
                       /\ b # a \/ j # i => file'[b][j] = file[b][j]
           /\ file'[a][i].notAfter = file[a][i].notAfter
           /\ file'[a][i].status = "revoked" /\ file'[a][i].from \in Dates
           /\ file'[a][i].from >= file[a][i].notBefore
<1>1. file \in [Apps -> Seq(Entries)] /\ file[a] \in Seq(Entries)
  BY DEF FileInv, Typed
<1> DEFINE f == Flipped(file[a], i, t)
<1>2. /\ f \in Seq(Entries) /\ DOMAIN f = DOMAIN file[a]
      /\ \A j \in DOMAIN file[a] : j # i => f[j] = file[a][j]
      /\ f[i].serial = file[a][i].serial
      /\ f[i].fingerprint = file[a][i].fingerprint
      /\ f[i].notBefore = file[a][i].notBefore
      /\ f[i].notAfter = file[a][i].notAfter
      /\ f[i].status = "revoked" /\ f[i].from = Stored(t)
  BY <1>1, FlippedShape
<1>3. file' = [file EXCEPT ![a] = f] /\ t >= file[a][i].notBefore
  BY DEF Revoking
<1> HIDE DEF f
<1>4. file'[a] = f /\ \A b \in Apps : b # a => file'[b] = file[b]
  BY <1>1, <1>3
<1>5. file[a][i].notBefore \in Dates
  <2>1. file[a][i] \in Entries
    BY <1>1
  <2> QED
    BY <2>1 DEF Entries
<1>6. Stored(t) \in Dates /\ Stored(t) >= file[a][i].notBefore
  BY <1>3, <1>5, WholeSeconds DEF Dates
<1>7. file' \in [Apps -> Seq(Entries)]
  BY <1>1, <1>2, <1>3
<1> QED
  BY <1>2, <1>4, <1>6, <1>7

LEMMA RevokingStep ==
    ASSUME FileInv, NEW a \in Apps, NEW i \in DOMAIN file[a], NEW t \in Nat,
           Revoking(a, i, t)
    PROVE  FileInv'
<1>0. UNCHANGED <<now, signed, crl>>
  BY DEF Revoking
<1>1. Typed'
  BY <1>0, Revoked DEF FileInv, Typed
<1>2. Described'
  <2> SUFFICES ASSUME NEW b \in Apps, NEW j \in DOMAIN file[b]
               PROVE  Describes(file[b][j], b)'
    BY Revoked DEF Described
  <2>1. Describes(file[b][j], b)
    BY DEF FileInv, Described
  <2>2. CASE b # a \/ j # i
    BY <1>0, <2>1, <2>2, Revoked DEF Describes
  <2>3. CASE b = a /\ j = i
    BY <1>0, <2>1, <2>3, Revoked DEF Describes
  <2> QED
    BY <2>2, <2>3
<1>3. DrawnOnce' /\ NeverOutlivesIssuer'
  BY <1>0 DEF FileInv, DrawnOnce, NeverOutlivesIssuer
<1>4. RecordedOnce'
  BY Revoked DEF FileInv, RecordedOnce
<1>5. ListedFromEntry'
  <2> SUFFICES ASSUME NEW p \in crl.list
               PROVE  \E b \in Apps : \E j \in DOMAIN file'[b] :
                         /\ file'[b][j].status = "revoked"
                         /\ file'[b][j].fingerprint.serial = p[1]
                         /\ p[2] >= file'[b][j].notBefore
    BY <1>0 DEF ListedFromEntry
  <2>1. PICK b \in Apps : \E j \in DOMAIN file[b] :
                 /\ file[b][j].status = "revoked"
                 /\ file[b][j].fingerprint.serial = p[1]
                 /\ p[2] >= file[b][j].notBefore
    BY DEF FileInv, ListedFromEntry
  <2>2. PICK j \in DOMAIN file[b] :
                 /\ file[b][j].status = "revoked"
                 /\ file[b][j].fingerprint.serial = p[1]
                 /\ p[2] >= file[b][j].notBefore
    BY <2>1
  <2>3. /\ j \in DOMAIN file'[b] /\ file'[b][j].status = "revoked"
        /\ file'[b][j].fingerprint = file[b][j].fingerprint
        /\ file'[b][j].notBefore = file[b][j].notBefore
    BY <2>2, Revoked
  <2> QED
    BY <2>2, <2>3
<1> QED
  BY <1>1, <1>2, <1>3, <1>4, <1>5 DEF FileInv

(* Each of the two revocations does that to an entry.                      *)
LEMMA SelfRevokeRevokes ==
    ASSUME FileInv, NEW leaf \in signed, SelfRevoke(leaf)
    PROVE  \E a \in Apps : \E i \in DOMAIN file[a] : \E t \in Nat :
              Revoking(a, i, t)
<1> DEFINE a == Canonicalize(leaf.cn)
<1>1. leaf \in Leaves
  BY DEF FileInv, Typed
<1>2. leaf.cn \in Apps /\ leaf.cn \in Strings /\ ValidateStrict(leaf.cn) # Invalid
  BY <1>1, FileAssumption DEF Leaves, Strings
<1>3. a \in Apps
  BY <1>2, StrictIsCanonical
<1> HIDE DEF a
<1>4. file \in [Apps -> Seq(Entries)] /\ file[a] \in Seq(Entries)
  BY <1>3 DEF FileInv, Typed
<1>5. PICK i \in FindByFingerprint(file[a], leaf) :
         file' = [file EXCEPT ![a] = Flipped(@, i, @[i].notBefore)]
  BY DEF SelfRevoke, a
<1>6. i \in DOMAIN file[a]
  BY <1>5, FoundEntries
<1>7. file[a][i] \in Entries
  BY <1>4, <1>6
<1>8. file[a][i].notBefore \in Nat
  BY <1>7 DEF Entries, Dates
<1> DEFINE t == file[a][i].notBefore
<1>9. file' = [file EXCEPT ![a] = Flipped(@, i, t)]
  BY <1>5
<1>10. UNCHANGED <<now, signed, crl>>
  BY DEF SelfRevoke
<1>11. t >= file[a][i].notBefore
  BY <1>8
<1>12. Revoking(a, i, t)
  BY <1>9, <1>10, <1>11 DEF Revoking
<1> QED
  BY <1>3, <1>6, <1>8, <1>12

LEMMA PrivRevokeRevokes ==
    ASSUME FileInv, NEW a \in Apps, NEW text \in Texts,
           NEW from \in Times \cup {NoDate}, PrivRevoke(a, text, from)
    PROVE  \E i \in DOMAIN file[a] : \E t \in Nat : Revoking(a, i, t)
<1>1. file \in [Apps -> Seq(Entries)] /\ file[a] \in Seq(Entries)
  BY DEF FileInv, Typed
<1>2. PICK i \in FindBySerial(file[a], text) :
         /\ from # NoDate => FromAccepted(from, file[a][i].notBefore)
         /\ file' = [file EXCEPT ![a] =
                       Flipped(@, i, IF from = NoDate THEN file[a][i].notBefore
                                                      ELSE from)]
  BY DEF PrivRevoke
<1>3. i \in DOMAIN file[a]
  BY <1>2, FoundEntries
<1>4. file[a][i] \in Entries
  BY <1>1, <1>3
<1>5. file[a][i].notBefore \in Nat
  BY <1>4 DEF Entries, Dates
<1> DEFINE t == IF from = NoDate THEN file[a][i].notBefore ELSE from
<1>6. t \in Nat /\ t >= file[a][i].notBefore
  <2>1. CASE from = NoDate
    BY <1>5, <2>1
  <2>2. CASE from # NoDate
    <3>1. FromAccepted(from, file[a][i].notBefore)
      BY <1>2, <2>2
    <3>2. from \in Nat
      BY <2>2, DatesAreTimes
    <3> QED
      BY <2>2, <3>1, <3>2 DEF FromAccepted
  <2> QED
    BY <2>1, <2>2
<1>7. file' = [file EXCEPT ![a] = Flipped(@, i, t)]
  BY <1>2
<1>8. UNCHANGED <<now, signed, crl>>
  BY DEF PrivRevoke
<1> HIDE DEF t
<1>9. Revoking(a, i, t)
  BY <1>6, <1>7, <1>8 DEF Revoking
<1> QED
  BY <1>3, <1>6, <1>9
-----------------------------------------------------------------------------
(* A signature enters a new serial, in a window that the issuer covers.    *)
LEMMA Signed ==
    ASSUME FileInv, NEW a \in Apps, NEW draws \in Draws,
           Sign(Encoded(Leaf(a, draws, now, IssuerEnd)))
    PROVE  LET leaf == Encoded(Leaf(a, draws, now, IssuerEnd)) IN
           /\ leaf \in Leaves /\ leaf.cn = a /\ leaf \notin signed
           /\ signed' = signed \cup {leaf} /\ signed' \subseteq Leaves
           /\ now' = now /\ crl' = crl
           /\ DrawnOnce' /\ NeverOutlivesIssuer'
<1> DEFINE leaf == Encoded(Leaf(a, draws, now, IssuerEnd))
<1>1. now \in Times /\ signed \subseteq Leaves
  BY DEF FileInv, Typed
<1>2. /\ leaf \in Leaves /\ leaf.cn = a
      /\ leaf.notAfter <= IssuerEnd
      /\ leaf.notAfter < leaf.notBefore + LeafValidity + Second
      /\ leaf.notAfter < leaf.notBefore => IssuerEnd < leaf.notBefore
  BY <1>1, SignedLeaf
<1>3. /\ \A l \in signed : l.serial # leaf.serial
      /\ signed' = signed \cup {leaf} /\ now' = now /\ crl' = crl
  BY DEF Sign
<1> HIDE DEF leaf
<1>4. leaf \notin signed
  BY <1>3
<1>5. DrawnOnce'
  BY <1>3 DEF FileInv, DrawnOnce
<1>6. NeverOutlivesIssuer'
  BY <1>2, <1>3 DEF FileInv, NeverOutlivesIssuer
<1> QED
  BY <1>1, <1>2, <1>3, <1>4, <1>5, <1>6 DEF leaf

LEMMA IssueStep ==
    ASSUME FileInv, NEW a \in Apps, NEW draws \in Draws, Issue(a, draws)
    PROVE  FileInv'
<1> DEFINE leaf == Encoded(Leaf(a, draws, now, IssuerEnd))
           r == Recorded(file[a], leaf)
           last == Len(file[a]) + 1
<1>1. Sign(leaf) /\ file' = [file EXCEPT ![a] = r]
  BY DEF Issue
<1>2. /\ leaf \in Leaves /\ leaf.cn = a /\ leaf \notin signed
      /\ signed' = signed \cup {leaf} /\ signed' \subseteq Leaves
      /\ now' = now /\ crl' = crl
      /\ DrawnOnce' /\ NeverOutlivesIssuer'
  BY <1>1, Signed
<1> HIDE DEF leaf
<1>3. file \in [Apps -> Seq(Entries)] /\ file[a] \in Seq(Entries)
  BY DEF FileInv, Typed
<1>4. /\ r \in Seq(Entries)
      /\ DOMAIN r = DOMAIN file[a] \cup {last} /\ last \notin DOMAIN file[a]
      /\ \A j \in DOMAIN file[a] : r[j] = file[a][j]
      /\ r[last] = EntryOf(leaf)
  BY <1>2, <1>3, RecordedShape
<1> HIDE DEF r, last
<1>5. /\ r[last].serial = FormatSerial(leaf.serial)
      /\ r[last].fingerprint = leaf
      /\ r[last].notBefore = leaf.notBefore /\ r[last].notAfter = leaf.notAfter
      /\ r[last].status = "active" /\ r[last].from = NoDate
  BY <1>4, EntryFields
<1>6. file'[a] = r /\ \A b \in Apps : b # a => file'[b] = file[b]
  BY <1>1, <1>3
<1>7. Typed'
  <2>1. file' \in [Apps -> Seq(Entries)]
    BY <1>1, <1>3, <1>4
  <2> QED
    BY <1>2, <2>1 DEF FileInv, Typed
<1>8. \A b \in Apps : \A j \in DOMAIN file[b] :
         Describes(file[b][j], b) /\ file[b][j].fingerprint \in signed
  BY DEF FileInv, Described, Describes
<1>9. Described'
  <2> SUFFICES ASSUME NEW b \in Apps, NEW j \in DOMAIN file'[b]
               PROVE  Describes(file[b][j], b)'
    BY DEF Described
  <2>1. CASE b = a /\ j = last
    BY <1>2, <1>5, <1>6, <2>1 DEF Describes
  <2>2. CASE ~(b = a /\ j = last)
    <3>1. j \in DOMAIN file[b] /\ file'[b][j] = file[b][j]
      BY <1>4, <1>6, <2>2
    <3>2. Describes(file[b][j], b)
      BY <1>8, <3>1
    <3> QED
      BY <1>2, <3>1, <3>2 DEF Describes
  <2> QED
    BY <2>1, <2>2
<1>10. RecordedOnce'
  <2> SUFFICES ASSUME NEW b \in Apps, NEW i \in DOMAIN file'[b],
                      NEW j \in DOMAIN file'[b],
                      file'[b][i].fingerprint = file'[b][j].fingerprint
               PROVE  i = j
    BY DEF RecordedOnce
  <2>1. CASE b # a
    BY <1>6, <2>1 DEF FileInv, RecordedOnce
  <2>2. CASE b = a /\ i # last /\ j # last
    BY <1>4, <1>6, <2>2 DEF FileInv, RecordedOnce
  <2>3. CASE b = a /\ i = last /\ j # last
    BY <1>2, <1>4, <1>5, <1>6, <1>8, <2>3
  <2>4. CASE b = a /\ i # last /\ j = last
    BY <1>2, <1>4, <1>5, <1>6, <1>8, <2>4
  <2> QED
    BY <2>1, <2>2, <2>3, <2>4
<1>11. ListedFromEntry'
  <2>1. \A b \in Apps : \A j \in DOMAIN file[b] :
           j \in DOMAIN file'[b] /\ file'[b][j] = file[b][j]
    BY <1>4, <1>6
  <2> QED
    BY <1>2, <2>1 DEF FileInv, ListedFromEntry
<1> QED
  BY <1>2, <1>7, <1>9, <1>10, <1>11 DEF FileInv

LEMMA SignInVainStep ==
    ASSUME FileInv, NEW a \in Apps, NEW draws \in Draws, SignInVain(a, draws)
    PROVE  FileInv'
<1> DEFINE leaf == Encoded(Leaf(a, draws, now, IssuerEnd))
<1>1. Sign(leaf) /\ file' = file
  BY DEF SignInVain
<1>2. /\ signed' = signed \cup {leaf} /\ signed' \subseteq Leaves
      /\ now' = now /\ crl' = crl
      /\ DrawnOnce' /\ NeverOutlivesIssuer'
  BY <1>1, Signed
<1> HIDE DEF leaf
<1>3. Typed' /\ RecordedOnce' /\ ListedFromEntry'
  BY <1>1, <1>2 DEF FileInv, Typed, RecordedOnce, ListedFromEntry
<1>4. Described'
  BY <1>1, <1>2 DEF FileInv, Described, Describes
<1> QED
  BY <1>2, <1>3, <1>4 DEF FileInv

(* What a build lists is the serial and the date of a revoked entry.       *)
LEMMA BuildStep == ASSUME FileInv, Build PROVE FileInv'
<1> DEFINE revoked == UNION {{file[a][i] : i \in {j \in DOMAIN file[a] :
                          file[a][j].status = "revoked"}} : a \in Apps}
<1>1. /\ crl' = [number |-> now \div Second,
                 list |-> {<<ParseSerial(e.serial), e.from>> : e \in revoked}]
      /\ UNCHANGED <<now, signed, file>>
  BY DEF Build
<1>2. ASSUME NEW e \in revoked
      PROVE  \E a \in Apps : \E i \in DOMAIN file[a] :
                /\ e = file[a][i] /\ file[a][i].status = "revoked"
                /\ ParseSerial(e.serial) = file[a][i].fingerprint.serial
                /\ ParseSerial(e.serial) \in Nat
                /\ e.from \in Dates /\ e.from >= file[a][i].notBefore
  <2>1. PICK a \in Apps : \E i \in DOMAIN file[a] :
                e = file[a][i] /\ file[a][i].status = "revoked"
    OBVIOUS
  <2>2. PICK i \in DOMAIN file[a] :
                e = file[a][i] /\ file[a][i].status = "revoked"
    BY <2>1
  <2>3. Describes(file[a][i], a)
    BY DEF FileInv, Described
  <2>4. file[a][i].fingerprint \in Leaves
    BY <2>3 DEF FileInv, Typed, Describes
  <2>5. file[a][i].fingerprint.serial \in Nat
    BY <2>4, FileAssumption DEF Leaves
  <2>6. ParseSerial(e.serial) = file[a][i].fingerprint.serial
    BY <2>2, <2>3, <2>5, SerialRoundTrip DEF Describes
  <2> QED
    BY <2>2, <2>3, <2>5, <2>6 DEF Describes
<1> HIDE DEF revoked
<1>3. crl'.list = {<<ParseSerial(e.serial), e.from>> : e \in revoked}
  BY <1>1
<1>4. now \div Second \in Nat
  <2>1. now \in Nat
    BY DatesAreTimes DEF FileInv, Typed
  <2>2. Second \in Nat \ {0}
    BY ProfileAssumption
  <2> QED
    BY <2>1, <2>2
<1>5. Typed'
  <2>1. {<<ParseSerial(e.serial), e.from>> : e \in revoked} \subseteq Nat \X Dates
    <3>1. \A e \in revoked : ParseSerial(e.serial) \in Nat /\ e.from \in Dates
      BY <1>2
    <3> QED
      BY <3>1
  <2>2. crl' \in [number : Nat, list : SUBSET (Nat \X Dates)]
    BY <1>1, <1>4, <2>1
  <2> QED
    BY <1>1, <2>2 DEF FileInv, Typed
<1>6. ListedFromEntry'
  <2> SUFFICES ASSUME NEW p \in crl'.list
               PROVE  \E a \in Apps : \E i \in DOMAIN file[a] :
                         /\ file[a][i].status = "revoked"
                         /\ file[a][i].fingerprint.serial = p[1]
                         /\ p[2] >= file[a][i].notBefore
    BY <1>1 DEF ListedFromEntry
  <2>1. PICK e \in revoked : p = <<ParseSerial(e.serial), e.from>>
    BY <1>3
  <2>2. p[1] = ParseSerial(e.serial) /\ p[2] = e.from
    BY <2>1
  <2> QED
    BY <1>2, <2>2
<1>7. Described' /\ DrawnOnce' /\ RecordedOnce' /\ NeverOutlivesIssuer'
  BY <1>1 DEF FileInv, Described, Describes, DrawnOnce, RecordedOnce,
              NeverOutlivesIssuer
<1> QED
  BY <1>5, <1>6, <1>7 DEF FileInv

LEMMA FileInvNext == FileInv /\ [Next]_vars => FileInv'
<1> SUFFICES ASSUME FileInv, [Next]_vars PROVE FileInv'
  OBVIOUS
<1>1. CASE Tick
  <2>1. now' \in Times /\ UNCHANGED <<signed, file, crl>>
    BY <1>1, FileAssumption DEF Tick, FileInv, Typed, Times
  <2> QED
    BY <2>1 DEF FileInv, Typed, Described, Describes, DrawnOnce, RecordedOnce,
                NeverOutlivesIssuer, ListedFromEntry
<1>2. CASE Build
  BY <1>2, BuildStep
<1>3. CASE \E a \in Apps, draws \in Draws : Issue(a, draws) \/ SignInVain(a, draws)
  BY <1>3, IssueStep, SignInVainStep
<1>4. CASE \E leaf \in signed : SelfRevoke(leaf)
  BY <1>4, SelfRevokeRevokes, RevokingStep
<1>5. CASE \E a \in Apps, text \in Texts, from \in Times \cup {NoDate} :
              PrivRevoke(a, text, from)
  BY <1>5, PrivRevokeRevokes, RevokingStep
<1>6. CASE UNCHANGED vars
  BY <1>6 DEF vars, FileInv, Typed, Described, Describes, DrawnOnce, RecordedOnce,
              NeverOutlivesIssuer, ListedFromEntry
<1> QED
  BY <1>1, <1>2, <1>3, <1>4, <1>5, <1>6 DEF Next

LEMMA FileInvHolds == Spec => []FileInv
<1> QED
  BY FileInvInit, FileInvNext, PTL DEF Spec
-----------------------------------------------------------------------------
(* Every entry is of a leaf that was signed, for the appId whose file it   *)
(* is in, with the leaf's own dates; every time on record is one that the  *)
(* timestamp layout can hold; and an entry has a revokedFrom exactly if it *)
(* is revoked.                                                             *)
THEOREM FileTypeCorrect == Spec => []TypeOK
<1>1. FileInv => TypeOK
  BY DEF FileInv, Typed, Described, Describes, TypeOK
<1> QED
  BY <1>1, FileInvHolds, PTL

(* No leaf outlives the intermediate, whatever the clock shows when it is  *)
(* signed, and only an intermediate that has expired makes an empty window.*)
THEOREM NeverOutlivesIssuerCorrect == Spec => []NeverOutlivesIssuer
<1>1. FileInv => NeverOutlivesIssuer
  BY DEF FileInv
<1> QED
  BY <1>1, FileInvHolds, PTL

(* No CRL names a certificate that stands active: the number on the CRL is *)
(* that of a revoked entry, of which there is no second, active one.       *)
THEOREM ActiveIsNotListedCorrect == Spec => []ActiveIsNotListed
<1>1. ASSUME FileInv PROVE ActiveIsNotListed
  <2> SUFFICES ASSUME NEW a \in Apps, NEW i \in DOMAIN file[a],
                      file[a][i].status = "active",
                      NEW p \in crl.list,
                      p[1] = file[a][i].fingerprint.serial
               PROVE  FALSE
    BY DEF ActiveIsNotListed
  <2>1. PICK b \in Apps : \E j \in DOMAIN file[b] :
                /\ file[b][j].status = "revoked"
                /\ file[b][j].fingerprint.serial = p[1]
    BY <1>1 DEF FileInv, ListedFromEntry
  <2>2. PICK j \in DOMAIN file[b] :
                /\ file[b][j].status = "revoked"
                /\ file[b][j].fingerprint.serial = p[1]
    BY <2>1
  <2>3. Describes(file[a][i], a) /\ Describes(file[b][j], b)
    BY <1>1 DEF FileInv, Described
  <2>4. file[b][j].fingerprint = file[a][i].fingerprint
    BY <1>1, <2>2, <2>3 DEF FileInv, DrawnOnce, Describes
  <2>5. b = a
    BY <2>3, <2>4 DEF Describes
  <2>6. i = j
    BY <1>1, <2>4, <2>5 DEF FileInv, RecordedOnce
  <2> QED
    BY <2>2, <2>5, <2>6
<1> QED
  BY <1>1, FileInvHolds, PTL

(* A line of a CRL is about a signed leaf and does not reach back before   *)
(* the leaf was valid, although the revokedFrom of an operator is checked  *)
(* before it is cut to seconds.                                            *)
THEOREM ListedFromValidityCorrect == Spec => []ListedFromValidity
<1>1. ASSUME FileInv PROVE ListedFromValidity
  <2> SUFFICES ASSUME NEW p \in crl.list
               PROVE  \E l \in signed : l.serial = p[1] /\ p[2] >= l.notBefore
    BY DEF ListedFromValidity
  <2>1. PICK a \in Apps : \E i \in DOMAIN file[a] :
                /\ file[a][i].fingerprint.serial = p[1]
                /\ p[2] >= file[a][i].notBefore
    BY <1>1 DEF FileInv, ListedFromEntry
  <2>2. PICK i \in DOMAIN file[a] :
                /\ file[a][i].fingerprint.serial = p[1]
                /\ p[2] >= file[a][i].notBefore
    BY <2>1
  <2>3. Describes(file[a][i], a)
    BY <1>1 DEF FileInv, Described
  <2> QED
    BY <2>2, <2>3 DEF Describes
<1> QED
  BY <1>1, FileInvHolds, PTL
-----------------------------------------------------------------------------
(* How a serial stands in the list of entries of a file.                   *)
StandsAsEntered ==
    \A a \in Apps, n \in Serials :
        /\ (\A i \in DOMAIN file[a] : file[a][i].fingerprint.serial # n)
              => Standing[a][n] = "missing"
        /\ \A i \in DOMAIN file[a] :
              file[a][i].fingerprint.serial = n
                 => Standing[a][n] = file[a][i].status

LEMMA EachStandsAsEntered == FileInv => StandsAsEntered
<1> SUFFICES ASSUME FileInv, NEW a \in Apps, NEW n \in Serials
             PROVE  /\ (\A i \in DOMAIN file[a] : file[a][i].fingerprint.serial # n)
                          => Standing[a][n] = "missing"
                    /\ \A i \in DOMAIN file[a] :
                          file[a][i].fingerprint.serial = n
                             => Standing[a][n] = file[a][i].status
  BY DEF StandsAsEntered
<1> DEFINE about == {i \in DOMAIN file[a] : ParseSerial(file[a][i].serial) = n}
<1>1. ASSUME NEW i \in DOMAIN file[a]
      PROVE  /\ ParseSerial(file[a][i].serial) = file[a][i].fingerprint.serial
             /\ file[a][i].fingerprint \in signed
             /\ file[a][i].status \in {"active", "revoked"}
  <2>1. Describes(file[a][i], a)
    BY DEF FileInv, Described
  <2>2. file[a][i].fingerprint \in Leaves
    BY <2>1 DEF FileInv, Typed, Describes
  <2>3. file[a][i].fingerprint.serial \in Nat
    BY <2>2, FileAssumption DEF Leaves
  <2> QED
    BY <2>1, <2>3, SerialRoundTrip DEF Describes
<1>2. Standing[a][n] =
         CASE about = {} -> "missing"
           [] \E i \in about : file[a][i].status = "revoked" -> "revoked"
           [] OTHER -> "active"
  BY DEF Standing
<1>3. about = {i \in DOMAIN file[a] : file[a][i].fingerprint.serial = n}
  BY <1>1
<1> HIDE DEF about
<1>4. ASSUME \A i \in DOMAIN file[a] : file[a][i].fingerprint.serial # n
      PROVE  Standing[a][n] = "missing"
  <2>1. about = {}
    BY <1>3, <1>4
  <2>2. ~\E i \in about : file[a][i].status = "revoked"
    BY <2>1
  <2> QED
    BY <1>2, <2>1, <2>2
<1>5. ASSUME NEW i \in DOMAIN file[a], file[a][i].fingerprint.serial = n
      PROVE  Standing[a][n] = file[a][i].status
  <2>1. ASSUME NEW j \in about PROVE j = i
    BY <1>1, <1>3, <1>5 DEF FileInv, DrawnOnce, RecordedOnce
  <2>2. i \in about /\ about # {}
    BY <1>3, <1>5
  <2>3. (\E j \in about : file[a][j].status = "revoked")
           <=> file[a][i].status = "revoked"
    BY <2>1, <2>2
  <2>4. CASE file[a][i].status = "revoked"
    BY <1>2, <2>2, <2>3, <2>4
  <2>5. CASE file[a][i].status = "active"
    BY <1>2, <2>2, <2>3, <2>5
  <2> QED
    BY <1>1, <2>4, <2>5
<1> QED
  BY <1>4, <1>5

(* A step that moves one serial of one appId at most.                      *)
LEMMA OneStands ==
    ASSUME NEW a \in Apps, NEW n \in Serials, NEW v,
           Standing'[a][n] = v,
           \A b \in Apps, m \in Serials :
              b # a \/ m # n => Standing'[b][m] = Standing[b][m]
    PROVE  Standing' = [Standing EXCEPT ![a][n] = v]
<1> DEFINE S == Standing
           T == Standing'
<1>1. /\ S = [b \in Apps |-> [m \in Serials |-> S[b][m]]]
      /\ T = [b \in Apps |-> [m \in Serials |-> T[b][m]]]
  BY DEF Standing
<1> HIDE DEF S, T
<1>2. T[a][n] = v /\ \A b \in Apps, m \in Serials :
         b # a \/ m # n => T[b][m] = S[b][m]
  BY DEF S, T
<1>3. T[a] = [S[a] EXCEPT ![n] = v]
  BY <1>1, <1>2
<1>4. \A b \in Apps : b # a => T[b] = S[b]
  BY <1>1, <1>2
<1>5. T = [S EXCEPT ![a] = [S[a] EXCEPT ![n] = v]]
  BY <1>1, <1>3, <1>4
<1> QED
  BY <1>5 DEF S, T

LEMMA NothingStands == UNCHANGED file => UNCHANGED Standing
BY DEF Standing

(* Revoking an entry revokes its serial, or leaves it revoked.             *)
LEMMA RevokingImplements ==
    ASSUME FileInv, FileInv', NEW a \in Apps, NEW i \in DOMAIN file[a],
           NEW t \in Nat, Revoking(a, i, t)
    PROVE  [Log!Next]_Standing
<1> DEFINE n == file[a][i].fingerprint.serial
<1>1. StandsAsEntered /\ StandsAsEntered'
  BY EachStandsAsEntered, PTL
<1>2. Describes(file[a][i], a)
  BY DEF FileInv, Described
<1>3. n \in Serials
  <2>1. file[a][i].fingerprint \in Leaves
    BY <1>2 DEF FileInv, Typed, Describes
  <2> QED
    BY <2>1 DEF Leaves
<1>4. /\ i \in DOMAIN file'[a] /\ file'[a][i].fingerprint.serial = n
      /\ file'[a][i].status = "revoked"
  BY Revoked
<1>5. Standing[a][n] = file[a][i].status /\ Standing'[a][n] = "revoked"
  <2>1. Standing[a][n] = file[a][i].status
    BY <1>1, <1>3 DEF StandsAsEntered
  <2>2. Standing'[a][n] = file'[a][i].status
    BY <1>1, <1>3, <1>4 DEF StandsAsEntered
  <2> QED
    BY <1>4, <2>1, <2>2
<1>6. ASSUME NEW b \in Apps, NEW m \in Serials, b # a \/ m # n
      PROVE  Standing'[b][m] = Standing[b][m]
  <2>1. /\ DOMAIN file'[b] = DOMAIN file[b]
        /\ \A j \in DOMAIN file[b] : file'[b][j].fingerprint = file[b][j].fingerprint
    BY Revoked
  <2>2. CASE \A j \in DOMAIN file[b] : file[b][j].fingerprint.serial # m
    <3>1. \A j \in DOMAIN file'[b] : file'[b][j].fingerprint.serial # m
      BY <2>1, <2>2
    <3>2. Standing'[b][m] = "missing"
      BY <1>1, <3>1 DEF StandsAsEntered
    <3>3. Standing[b][m] = "missing"
      BY <1>1, <2>2 DEF StandsAsEntered
    <3> QED
      BY <3>2, <3>3
  <2>3. ASSUME NEW j \in DOMAIN file[b], file[b][j].fingerprint.serial = m
        PROVE  Standing'[b][m] = Standing[b][m]
    <3>1. b # a \/ j # i
      BY <1>6, <2>3
    <3>2. file'[b][j] = file[b][j]
      BY <3>1, Revoked
    <3>3. Standing'[b][m] = file'[b][j].status
      BY <1>1, <2>1, <2>3 DEF StandsAsEntered
    <3>4. Standing[b][m] = file[b][j].status
      BY <1>1, <2>3 DEF StandsAsEntered
    <3> QED
      BY <3>2, <3>3, <3>4
  <2> QED
    BY <2>2, <2>3
<1>7. Standing' = [Standing EXCEPT ![a][n] = "revoked"]
  BY <1>3, <1>5, <1>6, OneStands
<1>8. CASE file[a][i].status = "active"
  BY <1>3, <1>5, <1>7, <1>8 DEF Log!Next, Log!Revoke
<1>9. CASE file[a][i].status = "revoked"
  <2>1. \A b \in Apps, m \in Serials : Standing'[b][m] = Standing[b][m]
    BY <1>5, <1>6, <1>9
  <2> DEFINE S == Standing
             T == Standing'
  <2>2. /\ S = [b \in Apps |-> [m \in Serials |-> S[b][m]]]
        /\ T = [b \in Apps |-> [m \in Serials |-> T[b][m]]]
    BY DEF Standing
  <2>3. \A b \in Apps, m \in Serials : T[b][m] = S[b][m]
    BY <2>1
  <2> HIDE DEF S, T
  <2>4. T = S
    BY <2>2, <2>3
  <2> QED
    BY <2>4 DEF S, T
<1> QED
  BY <1>2, <1>8, <1>9 DEF Describes

(* Issuing enters a serial that was missing.                               *)
LEMMA IssueImplements ==
    ASSUME FileInv, FileInv', NEW a \in Apps, NEW draws \in Draws, Issue(a, draws)
    PROVE  Log!Next
<1> DEFINE leaf == Encoded(Leaf(a, draws, now, IssuerEnd))
           n == leaf.serial
           r == Recorded(file[a], leaf)
           last == Len(file[a]) + 1
<1>1. StandsAsEntered /\ StandsAsEntered'
  BY EachStandsAsEntered, PTL
<1>2. Sign(leaf) /\ file' = [file EXCEPT ![a] = r]
  BY DEF Issue
<1>3. leaf \in Leaves /\ \A l \in signed : l.serial # n
  BY <1>2, Signed DEF Sign
<1>4. n \in Serials
  BY <1>3 DEF Leaves
<1> HIDE DEF leaf, n
<1>5. file \in [Apps -> Seq(Entries)] /\ file[a] \in Seq(Entries)
  BY DEF FileInv, Typed
<1>6. /\ DOMAIN r = DOMAIN file[a] \cup {last}
      /\ \A j \in DOMAIN file[a] : r[j] = file[a][j]
      /\ r[last] = EntryOf(leaf)
  BY <1>3, <1>5, RecordedShape
<1>7. r[last].fingerprint = leaf /\ r[last].status = "active" /\ leaf.serial = n
  BY <1>6, EntryFields DEF n
<1> HIDE DEF r, last
<1>8. file'[a] = r /\ \A b \in Apps : b # a => file'[b] = file[b]
  BY <1>2, <1>5
<1>9. Standing[a][n] = "missing"
  <2>1. \A i \in DOMAIN file[a] : file[a][i].fingerprint.serial # n
    BY <1>3 DEF FileInv, Described, Describes
  <2> QED
    BY <1>1, <1>4, <2>1 DEF StandsAsEntered
<1>10. Standing'[a][n] = "active"
  <2>1. /\ last \in DOMAIN file'[a] /\ file'[a][last].fingerprint.serial = n
        /\ file'[a][last].status = "active"
    BY <1>6, <1>7, <1>8
  <2> QED
    BY <1>1, <1>4, <2>1 DEF StandsAsEntered
<1>11. ASSUME NEW b \in Apps, NEW m \in Serials, b # a \/ m # n
       PROVE  Standing'[b][m] = Standing[b][m]
  <2>1. \A j \in DOMAIN file[b] : j \in DOMAIN file'[b] /\ file'[b][j] = file[b][j]
    BY <1>6, <1>8
  <2>2. CASE \A j \in DOMAIN file[b] : file[b][j].fingerprint.serial # m
    <3>1. \A j \in DOMAIN file'[b] : file'[b][j].fingerprint.serial # m
      BY <1>6, <1>7, <1>8, <1>11, <2>2
    <3>2. Standing'[b][m] = "missing"
      BY <1>1, <3>1 DEF StandsAsEntered
    <3>3. Standing[b][m] = "missing"
      BY <1>1, <2>2 DEF StandsAsEntered
    <3> QED
      BY <3>2, <3>3
  <2>3. ASSUME NEW j \in DOMAIN file[b], file[b][j].fingerprint.serial = m
        PROVE  Standing'[b][m] = Standing[b][m]
    <3>1. Standing'[b][m] = file'[b][j].status
      BY <1>1, <2>1, <2>3 DEF StandsAsEntered
    <3>2. Standing[b][m] = file[b][j].status
      BY <1>1, <2>3 DEF StandsAsEntered
    <3> QED
      BY <2>1, <2>3, <3>1, <3>2
  <2> QED
    BY <2>2, <2>3
<1>12. Standing' = [Standing EXCEPT ![a][n] = "active"]
  BY <1>4, <1>10, <1>11, OneStands
<1> QED
  BY <1>4, <1>9, <1>12 DEF Log!Next, Log!Enter

LEMMA InitImplements == Init => Log!Init
<1> SUFFICES ASSUME Init PROVE Log!Init
  OBVIOUS
<1>1. StandsAsEntered
  BY FileInvInit, EachStandsAsEntered
<1>2. \A a \in Apps : DOMAIN file[a] = {}
  <2>1. \A a \in Apps : file[a] = <<>>
    BY DEF Init
  <2> QED
    BY <2>1
<1>3. \A a \in Apps, n \in Serials : Standing[a][n] = "missing"
  BY <1>1, <1>2 DEF StandsAsEntered
<1> DEFINE S == Standing
<1>4. S = [a \in Apps |-> [n \in Serials |-> S[a][n]]]
  BY DEF Standing
<1>5. \A a \in Apps, n \in Serials : S[a][n] = "missing"
  BY <1>3
<1> HIDE DEF S
<1>6. S = [a \in Apps |-> [n \in Serials |-> "missing"]]
  BY <1>4, <1>5
<1> QED
  BY <1>6 DEF S, Log!Init

(* Read through its text, a ledger file is the append-only log of          *)
(* TransparencyLog: issue enters a serial no file has, a revocation moves  *)
(* the one serial it found from active to revoked, and all else leaves the *)
(* list as it reads, killed runs and repeated revocations too.             *)
THEOREM FileImplementsLog == Spec => ImplementsLog
<1>1. ASSUME FileInv, FileInv', [Next]_vars
      PROVE  [Log!Next]_Standing
  <2>1. CASE Tick \/ Build \/ UNCHANGED vars
    BY <2>1, NothingStands DEF Tick, Build, vars
  <2>2. CASE \E a \in Apps, draws \in Draws : Issue(a, draws)
    BY <1>1, <2>2, IssueImplements
  <2>3. CASE \E a \in Apps, draws \in Draws : SignInVain(a, draws)
    BY <2>3, NothingStands DEF SignInVain
  <2>4. CASE \E leaf \in signed : SelfRevoke(leaf)
    BY <1>1, <2>4, SelfRevokeRevokes, RevokingImplements
  <2>5. CASE \E a \in Apps, text \in Texts, from \in Times \cup {NoDate} :
                PrivRevoke(a, text, from)
    BY <1>1, <2>5, PrivRevokeRevokes, RevokingImplements
  <2> QED
    BY <1>1, <2>1, <2>2, <2>3, <2>4, <2>5 DEF Next
<1>2. Spec => Log!Init /\ [][Log!Next]_Standing
  BY <1>1, FileInvHolds, InitImplements, PTL DEF Spec
<1> QED
  BY <1>2 DEF ImplementsLog, Log!Spec
=============================================================================
