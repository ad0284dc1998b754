----------------------------- MODULE LedgerFile -----------------------------
(***************************************************************************)
(* What the other modules take for granted of a ledger file: that its list *)
(* of entries, with serials as text and times in whole seconds, serves as  *)
(* the map from certificates to their standing that Ledger.tla makes of    *)
(* it.  Here a certificate is the leaf that was signed, its serial a       *)
(* number drawn at random, its entry found again by fingerprint or by the  *)
(* text of the serial, and the CRL is built from what the text reads as.   *)
(*                                                                         *)
(* Each commit is one step, as the conditional PUT makes it: what a run    *)
(* uses of the file it read first, an entry's notBefore, no later commit   *)
(* changes.  Edits by hand are left out (LedgerCommit has them).           *)
(***************************************************************************)
EXTENDS Profile

CONSTANTS
    Apps,       \* canonical appIds
    Serials,    \* the positive numbers of serialBits bits
    Texts,      \* the serials an operator may type
    IssuerEnd,  \* notAfter of the intermediate
    MaxTime     \* bound on the clock

ASSUME FileAssumption ==
    /\ Apps \subseteq Seq(Byte) /\ \A a \in Apps : ValidateStrict(a) # Invalid
    /\ Serials \subseteq Nat \ {0}
    /\ IssuerEnd \in Nat /\ Stored(IssuerEnd) = IssuerEnd
    /\ MaxTime \in Nat

VARIABLES
    now,        \* the clock
    signed,     \* the leaves that were signed
    file,       \* file[a]: the entries of ledger/<a>.json
    crl         \* the last CRL that was built

vars == <<now, signed, file, crl>>

NoDate == -1    \* a nil revokedFrom

Times == 0..MaxTime

(* What fits the canonical layout of a timestamp.                          *)
Dates == {t \in Nat : Stored(t) = t}

-----------------------------------------------------------------------------
(* Mutation: times keep their nanoseconds.                                 *)
EncodedExactly(leaf) == leaf

(* CreateCertificate: the times of an X.509 certificate have whole seconds.*)
Encoded(leaf) ==
    [leaf EXCEPT !.notBefore = Stored(@), !.notAfter = Stored(@)]

(* The entry that issue makes of a signed leaf; a fingerprint is a SHA-256 *)
(* of the whole certificate, which stands for it here.                     *)
EntryOf(leaf) ==
    [serial |-> FormatSerial(leaf.serial), fingerprint |-> leaf,
     notBefore |-> leaf.notBefore, notAfter |-> leaf.notAfter,
     status |-> "active", from |-> NoDate]

(* Mutation: the list is begun anew.                                       *)
RecordedAlone(entries, leaf) == <<EntryOf(leaf)>>

(* commitLedger                                                            *)
Recorded(entries, leaf) == Append(entries, EntryOf(leaf))

(* The index of the first entry that matches, if one does.                 *)
FindByFingerprint(entries, leaf) ==
    {i \in DOMAIN entries :
        /\ entries[i].fingerprint = leaf
        /\ \A j \in 1..(i - 1) : entries[j].fingerprint # leaf}

FindBySerial(entries, text) ==
    {i \in DOMAIN entries :
        /\ entries[i].serial = text
        /\ \A j \in 1..(i - 1) : entries[j].serial # text}

(* Mutation: revokedFrom is written as it was given.                       *)
FlippedExactly(entries, i, from) ==
    [entries EXCEPT ![i].status = "revoked", ![i].from = from]

(* applyRevocation, and Marshal's layout of the time.                      *)
Flipped(entries, i, from) ==
    [entries EXCEPT ![i].status = "revoked", ![i].from = Stored(from)]

-----------------------------------------------------------------------------
Tick ==
    /\ now < MaxTime
    /\ now' = now + 1
    /\ UNCHANGED <<signed, file, crl>>

(* randomSerial: 0 is drawn again, and no number comes twice.              *)
Draws == {<<n>> : n \in Serials} \cup {<<0, n>> : n \in Serials}

Sign(leaf) ==
    /\ \A l \in signed : l.serial # leaf.serial
    /\ signed' = signed \cup {leaf}
    /\ UNCHANGED <<now, crl>>

(* issue: template, signature, entry, commit.                              *)
Issue(a, draws) ==
    LET leaf == Encoded(Leaf(a, draws, now, IssuerEnd)) IN
    /\ Sign(leaf)
    /\ file' = [file EXCEPT ![a] = Recorded(@, leaf)]

(* The run fails or is killed before its commit: the leaf is not recorded. *)
SignInVain(a, draws) ==
    /\ Sign(Encoded(Leaf(a, draws, now, IssuerEnd)))
    /\ UNCHANGED file

(* revoke.Process for a request that leaf signed; a run that had to retry  *)
(* does not look at the status again.                                      *)
SelfRevoke(leaf) ==
    LET a == Canonicalize(leaf.cn) IN
    /\ \E i \in FindByFingerprint(file[a], leaf) :
          file' = [file EXCEPT ![a] = Flipped(@, i, @[i].notBefore)]
    /\ UNCHANGED <<now, signed, crl>>

(* PrivilegedProcess, with or without a revokedFrom.                       *)
PrivRevoke(a, text, from) ==
    /\ \E i \in FindBySerial(file[a], text) :
          LET notBefore == file[a][i].notBefore IN
          /\ from # NoDate => FromAccepted(from, notBefore)
          /\ file' = [file EXCEPT ![a] =
                         Flipped(@, i, IF from = NoDate THEN notBefore ELSE from)]
    /\ UNCHANGED <<now, signed, crl>>

(* Build: the revoked entries of all files, sorted by serial, so that a    *)
(* set stands for the list; a serial that does not parse is an error.      *)
Build ==
    LET revoked == UNION {{file[a][i] : i \in {j \in DOMAIN file[a] :
                              file[a][j].status = "revoked"}} : a \in Apps}
    IN  /\ \A e \in revoked : ParseSerial(e.serial) # -1 /\ e.from # NoDate
        /\ crl' = [number |-> now \div Second,
                   list |-> {<<ParseSerial(e.serial), e.from>> : e \in revoked}]
        /\ UNCHANGED <<now, signed, file>>

Init ==
    /\ now = 0 /\ signed = {}
    /\ file = [a \in Apps |-> <<>>]
    /\ crl = [number |-> 0, list |-> {}]

Next ==
    \/ Tick \/ Build
    \/ \E a \in Apps, draws \in Draws : Issue(a, draws) \/ SignInVain(a, draws)
    \/ \E leaf \in signed : SelfRevoke(leaf)
    \/ \E a \in Apps, text \in Texts, from \in Times \cup {NoDate} :
          PrivRevoke(a, text, from)

Spec == Init /\ [][Next]_vars

-----------------------------------------------------------------------------
Leaves == [cn : Apps, serial : Serials, notBefore : Dates, notAfter : Dates]

(* Every time on record, in a leaf or in an entry, fits the one layout of  *)
(* a timestamp (ledger.go:82-95), so that a file is byte-stable.           *)
TypeOK ==
    /\ now \in Times
    /\ signed \subseteq Leaves
    /\ \A a \in Apps : \A i \in DOMAIN file[a] :
          LET e == file[a][i] IN
          /\ e.fingerprint \in signed /\ e.fingerprint.cn = a
          /\ e.notBefore = e.fingerprint.notBefore
          /\ e.notAfter = e.fingerprint.notAfter
          /\ \/ e.status = "active" /\ e.from = NoDate
             \/ e.status = "revoked" /\ e.from \in Dates
    /\ crl.number \in Nat /\ crl.list \subseteq Nat \X Dates

(* A leaf does not outlive the intermediate, lasts no longer than a leaf   *)
(* may, and has an empty window only if the intermediate had expired when  *)
(* it was signed (certtmpl.go:69-72).                                      *)
NeverOutlivesIssuer ==
    \A l \in signed :
        /\ l.notAfter <= IssuerEnd
        /\ l.notAfter < l.notBefore + LeafValidity + Second
        /\ l.notAfter < l.notBefore => IssuerEnd < l.notBefore

(* No CRL names a certificate that stands active: neither the text of the  *)
(* serial, nor the search by it, nor reading it back takes one for another *)
(* (crl.go:33-46, privileged.go:64, 92-103).                               *)
ActiveIsNotListed ==
    \A a \in Apps : \A i \in DOMAIN file[a] :
        file[a][i].status = "active" =>
            \A p \in crl.list : p[1] # file[a][i].fingerprint.serial

(* Each line of a CRL is about a signed leaf, from a time on that is not   *)
(* before the leaf was valid: an accepted revokedFrom is still acceptable  *)
(* when it has been cut to seconds (spec 5.2 step 4, privileged.go:69-79). *)
ListedFromValidity ==
    \A p \in crl.list :
        \E l \in signed : l.serial = p[1] /\ p[2] >= l.notBefore

-----------------------------------------------------------------------------
(* The standing of each serial, as a reader of the text finds it.          *)
Standing ==
    [a \in Apps |-> [n \in Serials |->
        LET about == {i \in DOMAIN file[a] : ParseSerial(file[a][i].serial) = n}
        IN  CASE about = {} -> "missing"
              [] \E i \in about : file[a][i].status = "revoked" -> "revoked"
              [] OTHER -> "active"]]

Log == INSTANCE TransparencyLog WITH Certs <- Serials, status <- Standing

(* The list of entries is the append-only map of certificates: a commit    *)
(* enters one serial or revokes one, and leaves every other as it was.     *)
ImplementsLog == Log!Spec
=============================================================================
