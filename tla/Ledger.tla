------------------------------- MODULE Ledger -------------------------------
(***************************************************************************)
(* The public ledger record of one appId and the pure functions on it      *)
(* (internal/ledger, and the entry updates of internal/enroll/steps.go and *)
(* internal/revoke/steps.go).                                              *)
(*                                                                         *)
(* A ledger file is an owner, a reserved mark and a list of certificates.  *)
(* Serials are random 128-bit numbers and fingerprints are SHA-256 hashes, *)
(* so a certificate is identified with either, and the list becomes a map  *)
(* from certificates to entries.  A missing file is the value NoLedger.    *)
(***************************************************************************)
EXTENDS Integers

CONSTANTS
    Repos,      \* the "owner/name" slugs of target repositories
    Certs,      \* the certificates that can be minted (serial = fingerprint)
    Actors,     \* the accounts that revoke with authority (github.actor)
    NoRepo, NoActor,
    MaxFrom     \* bound on revokedFrom, counted in steps after notBefore

ASSUME LedgerAssumption ==
    /\ NoRepo \notin Repos
    /\ NoActor \notin Actors
    /\ MaxFrom \in Nat

(* revokedFrom is an offset from the certificate's notBefore: 0 is a hard  *)
(* revoke.                                                                 *)
Froms == 0..MaxFrom

(* The fields a flip writes; the free-text reason goes with the actor.     *)
Revocations == [from : Froms, actor : Actors \cup {NoActor}]

Entries == [status : {"missing", "active", "revoked"},
            from : Froms, actor : Actors \cup {NoActor}]

MissingEntry == [status |-> "missing", from |-> 0, actor |-> NoActor]

ActiveEntry == [status |-> "active", from |-> 0, actor |-> NoActor]

RevokedEntry(rev) == [status |-> "revoked", from |-> rev.from, actor |-> rev.actor]

Ledgers == [owner : Repos \cup {NoRepo}, reserved : BOOLEAN,
            certs : [Certs -> Entries]]

NoCertificates == [c \in Certs |-> MissingEntry]

(* No ledger/<appId>.json: loadLedger returns nil.                         *)
NoLedger == [owner |-> NoRepo, reserved |-> FALSE, certs |-> NoCertificates]

(* A seeded file without certificates: a first-party reservation, or the   *)
(* downgraded reservation that is bound to its rightful repo.              *)
SeedLedger(repo, reserved) ==
    [owner |-> repo, reserved |-> reserved, certs |-> NoCertificates]

-----------------------------------------------------------------------------
(* Mutation: the owner is not compared with the target repo.               *)
DecideAnyRepo(l, repo) ==
    IF l = NoLedger THEN "NewClaim"
    ELSE IF l.reserved THEN "RejectedReserved" ELSE "Allowed"

(* The first-come-first-served decision, the reserved check first.         *)
Decide(l, repo) ==
    CASE l = NoLedger                      -> "NewClaim"
      [] l # NoLedger /\ l.reserved        -> "RejectedReserved"
      [] l # NoLedger /\ ~l.reserved /\ l.owner = repo -> "Allowed"
      [] OTHER                             -> "RejectedMismatch"

Accepted(l, repo) == Decide(l, repo) \in {"NewClaim", "Allowed"}

(* The certificate has an entry, whatever its status: findByFingerprint    *)
(* and findBySerial.                                                       *)
Find(l, c) == l.certs[c].status # "missing"

IsRevoked(l, c) == l.certs[c].status = "revoked"

(* One attempt of commitLedger: a missing ledger is created for the proven *)
(* repo, and the new active entry is appended.                             *)
AppendCert(l, repo, c) ==
    [owner    |-> IF l = NoLedger THEN repo ELSE l.owner,
     reserved |-> l.reserved,
     certs    |-> [l.certs EXCEPT ![c] = ActiveEntry]]

(* One attempt of applyRevocation: the entry's status, revokedFrom and     *)
(* actor are overwritten, whatever they were.                              *)
ApplyRev(l, c, rev) == [l EXCEPT !.certs[c] = RevokedEntry(rev)]
=============================================================================
