---------------------------- MODULE LedgerCommit ----------------------------
(***************************************************************************)
(* How the ledger files are written.  Every program that writes one runs   *)
(* the same optimistic protocol over GitHub's Contents API: read the file  *)
(* and its blob SHA, decide, write the new content under that SHA, and on  *)
(* a conflict read again and re-apply, a bounded number of times.          *)
(*                                                                         *)
(* A writer is one run of a program on one request: an issuer              *)
(* (enroll.loadLedger, Decide, issue, commitLedger), a self-service        *)
(* revoker (revoke.Process) or a privileged revoker                        *)
(* (revoke.PrivilegedProcess).  The workflows put them in one concurrency  *)
(* group (Serialized); org members also edit the files by hand, outside    *)
(* it.  A blob SHA is a hash of the content, so the content a writer read  *)
(* (base) stands for the SHA it sends.                                     *)
(***************************************************************************)
EXTENDS Ledger

CONSTANTS
    Apps, NoApp, NoCert,
    Issuers, SelfRevokers, PrivRevokers,
    MaxRetries,     \* maxLedgerRetries, 5 in the code
    MaxEdits,       \* bound on the number of edits by hand
    Serialized,     \* the concurrency group admits one writer at a time
    QuietEdits      \* edits by hand are made only while no writer runs

Writers == Issuers \cup SelfRevokers \cup PrivRevokers

ASSUME CommitAssumption ==
    /\ NoApp \notin Apps /\ NoCert \notin Certs
    /\ Issuers \cap SelfRevokers = {}
    /\ Issuers \cap PrivRevokers = {}
    /\ SelfRevokers \cap PrivRevokers = {}
    /\ MaxRetries \in Nat \ {0}
    /\ MaxEdits \in Nat
    /\ Serialized \in BOOLEAN /\ QuietEdits \in BOOLEAN

VARIABLES
    ledger,     \* ledger[a]: the content of ledger/<a>.json on main
    pc,         \* pc[w]: the call the writer makes next, or how it ended
    job,        \* job[w]: what the writer was asked to do
    base,       \* base[w]: the ledger it holds, and so the SHA it will send
    tries,      \* tries[w]: conflicts met so far
    grant,      \* grant[c]: the proven repo a signed leaf was minted for
    edits       \* edits made by hand

commitVars == <<ledger, pc, job, base, tries, grant, edits>>

(* How a run can end; from any of these a later poll or dispatch restarts. *)
Resting == {"idle", "done", "rejected", "invalid", "already", "failed"}

Phases == Resting \cup {"load", "sign", "put", "reload"}

Jobs == [app : Apps \cup {NoApp}, repo : Repos \cup {NoRepo},
         cert : Certs \cup {NoCert}, rev : Revocations]

HardRevoke == [from |-> 0, actor |-> NoActor]

NoJob == [app |-> NoApp, repo |-> NoRepo, cert |-> NoCert, rev |-> HardRevoke]

-----------------------------------------------------------------------------
(* concurrency: group ledger-write, cancel-in-progress: false.             *)
GroupFree == Serialized => \A w \in Writers : pc[w] \in Resting

Begin(w, j) ==
    /\ pc[w] \in Resting
    /\ GroupFree
    /\ pc' = [pc EXCEPT ![w] = "load"]
    /\ job' = [job EXCEPT ![w] = j]
    /\ tries' = [tries EXCEPT ![w] = 0]
    /\ UNCHANGED <<ledger, base, grant, edits>>

(* Control of repo was proven for a request for app.                       *)
BeginIssue(w, app, repo) ==
    /\ w \in Issuers
    /\ Begin(w, [NoJob EXCEPT !.app = app, !.repo = repo])

(* A verified CMS embeds a certificate whose CN is app.                    *)
BeginSelfRevoke(w, app, c) ==
    /\ w \in SelfRevokers
    /\ Begin(w, [NoJob EXCEPT !.app = app, !.cert = c])

(* workflow_dispatch by actor; a revokedFrom before notBefore is refused   *)
(* and never gets here.                                                    *)
BeginPrivileged(w, app, c, rev) ==
    /\ w \in PrivRevokers
    /\ rev.actor # NoActor
    /\ Begin(w, [NoJob EXCEPT !.app = app, !.cert = c, !.rev = rev])

-----------------------------------------------------------------------------
(* The end of a writer's run: its local state is gone; what it reports as  *)
(* done is remembered.                                                     *)
Stop(w, outcome) ==
    /\ pc' = [pc EXCEPT ![w] = outcome]
    /\ base' = [base EXCEPT ![w] = NoLedger]
    /\ tries' = [tries EXCEPT ![w] = 0]
    /\ job' = [job EXCEPT ![w] = IF outcome = "done" THEN @ ELSE NoJob]

(* The run holds what it just read, after n conflicts.                     *)
Take(w, phase, n) ==
    /\ pc' = [pc EXCEPT ![w] = phase]
    /\ base' = [base EXCEPT ![w] = ledger[job[w].app]]
    /\ tries' = [tries EXCEPT ![w] = n]
    /\ UNCHANGED job

(* loadLedger and Decide: go on to sign, or stop with a rejection.         *)
LoadIssue(w) ==
    /\ w \in Issuers /\ pc[w] = "load"
    /\ IF Accepted(ledger[job[w].app], job[w].repo)
          THEN Take(w, "sign", 0) ELSE Stop(w, "rejected")
    /\ UNCHANGED <<ledger, grant, edits>>

(* Mutation: an entry that is already revoked is revoked again.            *)
LoadSelfRevokeAgain(w) ==
    /\ w \in SelfRevokers /\ pc[w] = "load"
    /\ IF Find(ledger[job[w].app], job[w].cert)
          THEN Take(w, "put", 0) ELSE Stop(w, "invalid")
    /\ UNCHANGED <<ledger, grant, edits>>

(* loadLedger and findByFingerprint: nothing to do for an unknown or an    *)
(* already revoked certificate.                                            *)
LoadSelfRevoke(w) ==
    /\ w \in SelfRevokers /\ pc[w] = "load"
    /\ LET l == ledger[job[w].app] IN
       CASE ~Find(l, job[w].cert)     -> Stop(w, "invalid")
         [] IsRevoked(l, job[w].cert) -> Stop(w, "already")
         [] OTHER                     -> Take(w, "put", 0)
    /\ UNCHANGED <<ledger, grant, edits>>

(* loadLedger and findBySerial: an entry is revoked whatever its status.   *)
LoadPrivileged(w) ==
    /\ w \in PrivRevokers /\ pc[w] = "load"
    /\ IF Find(ledger[job[w].app], job[w].cert)
          THEN Take(w, "put", 0) ELSE Stop(w, "failed")
    /\ UNCHANGED <<ledger, grant, edits>>

(* Signer.Sign mints leaf c with a fresh random serial.                    *)
Sign(w, c) ==
    /\ w \in Issuers /\ pc[w] = "sign"
    /\ grant[c] = NoRepo
    /\ grant' = [grant EXCEPT ![c] = job[w].repo]
    /\ job' = [job EXCEPT ![w].cert = c]
    /\ pc' = [pc EXCEPT ![w] = "put"]
    /\ UNCHANGED <<ledger, base, tries, edits>>

-----------------------------------------------------------------------------
(* The content of one attempt: the entry appended, or flipped, in what the *)
(* run read.                                                               *)
Content(w) ==
    IF w \in Issuers THEN AppendCert(base[w], job[w].repo, job[w].cert)
                     ELSE ApplyRev(base[w], job[w].cert, job[w].rev)

(* Mutation: the file is written whatever its current blob.                *)
BlindWrite(w) ==
    /\ pc[w] = "put"
    /\ ledger' = [ledger EXCEPT ![job[w].app] = Content(w)]
    /\ UNCHANGED <<grant, edits>>

(* GitHub applies a PUT only when prevSHA names the current blob.          *)
Write(w) ==
    /\ pc[w] = "put"
    /\ ledger[job[w].app] = base[w]
    /\ ledger' = [ledger EXCEPT ![job[w].app] = Content(w)]
    /\ UNCHANGED <<grant, edits>>

Put(w) == Write(w) /\ Stop(w, "done")

(* The write landed, but the run saw an error (a lost reply) or died.      *)
PutReplyLost(w) == Write(w) /\ Stop(w, "failed")

(* Mutation: a 409 is taken for success.                                   *)
PutConflictIgnored(w) ==
    /\ pc[w] = "put"
    /\ Stop(w, "done")
    /\ UNCHANGED <<ledger, grant, edits>>

(* A 409: the blob changed, or GitHub refused the commit for another       *)
(* reason (a ruleset, another commit landing at the same time).            *)
PutConflict(w) ==
    /\ pc[w] = "put"
    /\ pc' = [pc EXCEPT ![w] = "reload"]
    /\ UNCHANGED <<ledger, job, base, tries, grant, edits>>

(* A revoker's certificate is gone from the ledger it re-read.             *)
Vanished(w) == w \notin Issuers /\ ~Find(ledger[job[w].app], job[w].cert)

(* Mutation: the loop runs once more than its bound.                       *)
ReloadOnceMore(w) ==
    /\ pc[w] = "reload"
    /\ IF tries[w] = MaxRetries \/ Vanished(w)
          THEN Stop(w, "failed") ELSE Take(w, "put", tries[w] + 1)
    /\ UNCHANGED <<ledger, grant, edits>>

(* Mutation: the loop does not count its attempts.                         *)
ReloadForever(w) ==
    /\ pc[w] = "reload"
    /\ IF Vanished(w) THEN Stop(w, "failed") ELSE Take(w, "put", tries[w])
    /\ UNCHANGED <<ledger, grant, edits>>

(* Re-read after a conflict.  The issuer goes straight back to the write;  *)
(* a revoker looks for its certificate again but not at its status.  After *)
(* maxLedgerRetries conflicts the run gives up.                            *)
Reload(w) ==
    /\ pc[w] = "reload"
    /\ IF tries[w] + 1 = MaxRetries \/ Vanished(w)
          THEN Stop(w, "failed") ELSE Take(w, "put", tries[w] + 1)
    /\ UNCHANGED <<ledger, grant, edits>>

(* Any call may fail, and a runner may be killed: the run ends there.      *)
Fail(w) ==
    /\ pc[w] \notin Resting
    /\ Stop(w, "failed")
    /\ UNCHANGED <<ledger, grant, edits>>

WriterStep(w) ==
    \/ LoadIssue(w) \/ LoadSelfRevoke(w) \/ LoadPrivileged(w)
    \/ \E c \in Certs : Sign(w, c)
    \/ Put(w) \/ PutReplyLost(w) \/ PutConflict(w) \/ Reload(w)
    \/ Fail(w)

-----------------------------------------------------------------------------
(* A commit to ledger/<a>.json by an org member.                           *)
Edit(a) ==
    /\ edits < MaxEdits
    /\ QuietEdits => \A w \in Writers : pc[w] \in Resting
    /\ edits' = edits + 1
    /\ UNCHANGED <<pc, job, base, tries, grant>>

(* A dispute is settled, or an appId is reserved or released: the owner or *)
(* the reserved mark changes, the recorded certificates stay.              *)
Reassign(a, repo, reserved) ==
    /\ Edit(a)
    /\ ledger' = [ledger EXCEPT ![a].owner = repo, ![a].reserved = reserved]

(* A certificate is revoked in the file itself.                            *)
RevokeByHand(a, c, rev) ==
    /\ Edit(a)
    /\ rev.actor # NoActor
    /\ Find(ledger[a], c)
    /\ ledger' = [ledger EXCEPT ![a] = ApplyRev(@, c, rev)]

-----------------------------------------------------------------------------
(* Ledger files exist only for the seeded reservations.                    *)
Seeds == {NoLedger} \cup {SeedLedger(r, b) : r \in Repos, b \in BOOLEAN}

CommitInit ==
    /\ ledger \in [Apps -> Seeds]
    /\ pc = [w \in Writers |-> "idle"]
    /\ job = [w \in Writers |-> NoJob]
    /\ base = [w \in Writers |-> NoLedger]
    /\ tries = [w \in Writers |-> 0]
    /\ grant = [c \in Certs |-> NoRepo]
    /\ edits = 0

CommitNext ==
    \/ \E w \in Writers : WriterStep(w)
    \/ \E w \in Issuers, a \in Apps, r \in Repos : BeginIssue(w, a, r)
    \/ \E w \in SelfRevokers, a \in Apps, c \in Certs : BeginSelfRevoke(w, a, c)
    \/ \E w \in PrivRevokers, a \in Apps, c \in Certs, rev \in Revocations :
          BeginPrivileged(w, a, c, rev)
    \/ \E a \in Apps, r \in Repos, b \in BOOLEAN : Reassign(a, r, b)
    \/ \E a \in Apps, c \in Certs, rev \in Revocations : RevokeByHand(a, c, rev)

CommitSpec == CommitInit /\ [][CommitNext]_commitVars

(* A started run goes on until it ends: a workflow job is not paused.      *)
CommitFairSpec == CommitSpec /\ \A w \in Writers : WF_commitVars(WriterStep(w))

-----------------------------------------------------------------------------
(* The variables range over the values the Go types allow, and a writer    *)
(* never meets more conflicts than maxLedgerRetries (steps.go:124).        *)
CommitTypeOK ==
    /\ ledger \in [Apps -> Ledgers]
    /\ pc \in [Writers -> Phases]
    /\ job \in [Writers -> Jobs]
    /\ base \in [Writers -> Ledgers]
    /\ tries \in [Writers -> 0..(MaxRetries - 1)]
    /\ grant \in [Certs -> Repos \cup {NoRepo}]
    /\ edits \in 0..MaxEdits

(* What a run reports as done stands in the ledger, whoever wrote after    *)
(* it: an issued certificate has its entry, a revoked one is revoked       *)
(* (commitLedger and applyRevocation return nil only then).                *)
ReportedIsCommitted ==
    \A w \in Writers : pc[w] = "done" =>
        IF w \in Issuers THEN Find(ledger[job[w].app], job[w].cert)
                         ELSE IsRevoked(ledger[job[w].app], job[w].cert)

(* First come, first served (design 6): an entry appears only in a ledger  *)
(* that belongs to the repo the certificate was granted to and that is not *)
(* a reservation.                                                          *)
FirstComeFirstServed ==
    [][\A a \in Apps, c \in Certs :
          ~Find(ledger[a], c) /\ Find(ledger'[a], c)
          => ledger'[a].owner = grant[c] /\ ~ledger'[a].reserved]_commitVars

(* The actor of an authoritative revocation is the audit trail (spec 5.2,  *)
(* 8): no later write erases it, and a self-service request for an already *)
(* revoked certificate changes nothing.                                    *)
AuditTrailKept ==
    [][\A a \in Apps, c \in Certs :
          ledger[a].certs[c].actor # NoActor
          => ledger'[a].certs[c].actor # NoActor]_commitVars

(* The calls a run still makes at most: two before its first write, then   *)
(* two for each of its attempts.                                           *)
CallsLeft(w) ==
    CASE pc[w] = "load"   -> 2 * MaxRetries + 2
      [] pc[w] = "sign"   -> 2 * MaxRetries + 1
      [] pc[w] = "put"    -> 2 * (MaxRetries - tries[w])
      [] pc[w] = "reload" -> 2 * (MaxRetries - tries[w]) - 1
      [] OTHER            -> 0

(* Every call of a run brings it nearer to its end, whatever GitHub        *)
(* answers, and nobody else moves it or touches what it has read           *)
(* (maxLedgerRetries, enroll/steps.go:124 and revoke/steps.go:64).         *)
EachCallCounts ==
    [][\A w \in Writers : pc[w] \notin Resting =>
          \/ CallsLeft(w)' < CallsLeft(w)
          \/ UNCHANGED <<pc[w], job[w], base[w], tries[w]>>]_commitVars

(* A run that starts ends: the conflict-retry loop is bounded, whatever    *)
(* GitHub answers.                                                         *)
WriterFinishes == \A w \in Writers : pc[w] \notin Resting ~> pc[w] \in Resting
-----------------------------------------------------------------------------
(* The standing of each certificate, as a reader of the ledger sees it.    *)
Standing == [a \in Apps |-> [c \in Certs |-> ledger[a].certs[c].status]]

Log == INSTANCE TransparencyLog WITH status <- Standing

(* No write loses an entry or brings a revoked certificate back: the       *)
(* optimistic protocol implements the append-only log, with any number of  *)
(* writers at once and edits by hand at any time.                          *)
ImplementsLog == Log!Spec
=============================================================================
