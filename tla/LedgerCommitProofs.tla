------------------------- MODULE LedgerCommitProofs -------------------------
(***************************************************************************)
(* What holds of the ledger writes for every set of writers, repositories, *)
(* appIds and certificates, and every bound.                               *)
(***************************************************************************)
EXTENDS LedgerCommit, TLAPS

(* The pure updates stay within the ledger type.                           *)
LEMMA SeedTypes ==
    /\ MissingEntry \in Entries /\ ActiveEntry \in Entries
    /\ NoCertificates \in [Certs -> Entries]
    /\ NoLedger \in Ledgers
    /\ \A r \in Repos, b \in BOOLEAN : SeedLedger(r, b) \in Ledgers
  BY LedgerAssumption DEF MissingEntry, ActiveEntry, Entries, Froms,
     NoCertificates, NoLedger, Ledgers, SeedLedger

LEMMA AppendCertType ==
    ASSUME NEW l \in Ledgers, NEW r \in Repos, NEW c \in Certs
    PROVE  AppendCert(l, r, c) \in Ledgers
  <1>1. [l.certs EXCEPT ![c] = ActiveEntry] \in [Certs -> Entries]
    BY SeedTypes DEF Ledgers
  <1> QED
    BY <1>1 DEF AppendCert, Ledgers

LEMMA ApplyRevType ==
    ASSUME NEW l \in Ledgers, NEW c \in Certs, NEW rev \in Revocations
    PROVE  ApplyRev(l, c, rev) \in Ledgers
  <1>1. RevokedEntry(rev) \in Entries
    BY DEF RevokedEntry, Revocations, Entries
  <1> QED
    BY <1>1 DEF ApplyRev, Ledgers

(* What an append and a flip do to the entries.                            *)
LEMMA AppendCertEntries ==
    ASSUME NEW l \in Ledgers, NEW r \in Repos, NEW c \in Certs, NEW d \in Certs
    PROVE  AppendCert(l, r, c).certs[d] =
              IF d = c THEN ActiveEntry ELSE l.certs[d]
  BY DEF AppendCert, Ledgers

LEMMA ApplyRevEntries ==
    ASSUME NEW l \in Ledgers, NEW c \in Certs, NEW rev \in Revocations,
           NEW d \in Certs
    PROVE  /\ ApplyRev(l, c, rev).certs[d] =
                 IF d = c THEN RevokedEntry(rev) ELSE l.certs[d]
           /\ ApplyRev(l, c, rev).owner = l.owner
           /\ ApplyRev(l, c, rev).reserved = l.reserved
  BY DEF ApplyRev, Ledgers

-----------------------------------------------------------------------------
(* The inductive invariant.                                                *)

(* A run that is under way, or reports success, knows its appId, and the   *)
(* repository and the certificate it works for.                            *)
Engaged == {"load", "sign", "put", "reload", "done"}

JobKnown(w) ==
    /\ job[w].app \in Apps
    /\ w \in Issuers => job[w].repo \in Repos
    /\ w \notin Issuers \/ pc[w] \notin {"load", "sign"} => job[w].cert \in Certs
    /\ pc[w] = "sign" => w \in Issuers

JobsKnown == \A w \in Writers : pc[w] \in Engaged => JobKnown(w)

(* The run has a signed leaf that it has not committed yet.                *)
Carries(w) == w \in Issuers /\ pc[w] \in {"put", "reload"}

(* Only signed leaves are in the ledger, and a leaf on its way to it is    *)
(* there yet in no file and carried by no other run.                       *)
LeavesFresh ==
    /\ \A a \in Apps, c \in Certs : Find(ledger[a], c) => grant[c] # NoRepo
    /\ \A w \in Writers : Carries(w) =>
          /\ grant[job[w].cert] = job[w].repo
          /\ \A a \in Apps : ~Find(ledger[a], job[w].cert)
          /\ \A v \in Writers : Carries(v) /\ v # w => job[v].cert # job[w].cert

(* A revoker about to write found its certificate in what it read.         *)
RevokersFound ==
    \A w \in Writers : pc[w] = "put" /\ w \notin Issuers
                       => Find(base[w], job[w].cert)

TypeInv == CommitTypeOK /\ JobsKnown

CommitInv == TypeInv /\ LeavesFresh /\ RevokersFound /\ ReportedIsCommitted
-----------------------------------------------------------------------------
LEMMA NoJobType == NoJob \in Jobs
  BY LedgerAssumption DEF NoJob, Jobs, HardRevoke, Revocations, Froms

LEMMA TypeInit == CommitInit => TypeInv
  <1> SUFFICES ASSUME CommitInit PROVE TypeInv
    OBVIOUS
  <1>1. Seeds \subseteq Ledgers
    BY SeedTypes DEF Seeds
  <1>2. CommitTypeOK
    BY <1>1, NoJobType, SeedTypes, LedgerAssumption, CommitAssumption
       DEF CommitInit, CommitTypeOK, Phases, Resting
  <1>3. JobsKnown
    BY DEF CommitInit, JobsKnown, Engaged
  <1> QED
    BY <1>2, <1>3 DEF TypeInv

(* The common beginning, end and re-reading of a run keep the types.       *)
LEMMA BeginKeepsTypes ==
    ASSUME TypeInv, NEW w \in Writers, NEW j \in Jobs, Begin(w, j),
           j.app \in Apps, w \in Issuers => j.repo \in Repos,
           w \notin Issuers => j.cert \in Certs
    PROVE  TypeInv'
  <1>1. CommitTypeOK'
    BY CommitAssumption DEF TypeInv, CommitTypeOK, Begin, Phases, Resting
  <1>2. JobsKnown'
    BY DEF TypeInv, CommitTypeOK, JobsKnown, JobKnown, Begin, Engaged
  <1> QED
    BY <1>1, <1>2 DEF TypeInv

LEMMA StopKeepsTypes ==
    ASSUME TypeInv, NEW w \in Writers, NEW outcome \in Resting,
           Stop(w, outcome), ledger' \in [Apps -> Ledgers],
           UNCHANGED <<grant, edits>>,
           outcome = "done" => pc[w] = "put"
    PROVE  TypeInv'
  <1>1. CommitTypeOK'
    BY CommitAssumption, NoJobType, SeedTypes
       DEF TypeInv, CommitTypeOK, Stop, Phases
  <1>2. JobsKnown'
    BY DEF TypeInv, CommitTypeOK, JobsKnown, JobKnown, Stop, Engaged, Resting
  <1> QED
    BY <1>1, <1>2 DEF TypeInv

LEMMA TakeKeepsTypes ==
    ASSUME TypeInv, NEW w \in Writers, NEW phase \in {"sign", "put"},
           NEW n \in 0..(MaxRetries - 1), Take(w, phase, n),
           pc[w] \in {"load", "reload"}, UNCHANGED <<ledger, grant, edits>>,
           phase = "sign" => w \in Issuers /\ pc[w] = "load",
           phase = "put" => w \notin Issuers \/ pc[w] = "reload"
    PROVE  TypeInv'
  <1>0. job[w].app \in Apps
    BY DEF TypeInv, JobsKnown, JobKnown, Engaged
  <1>1. CommitTypeOK'
    BY <1>0 DEF TypeInv, CommitTypeOK, Take, Phases
  <1>2. JobsKnown'
    BY DEF TypeInv, CommitTypeOK, JobsKnown, JobKnown, Take, Engaged
  <1> QED
    BY <1>1, <1>2 DEF TypeInv

LEMMA ContentType ==
    ASSUME TypeInv, NEW w \in Writers, pc[w] = "put"
    PROVE  job[w].app \in Apps /\ job[w].cert \in Certs
           /\ Content(w) \in Ledgers
  <1>1. /\ job[w].app \in Apps /\ job[w].cert \in Certs
        /\ w \in Issuers => job[w].repo \in Repos
    BY DEF TypeInv, JobsKnown, JobKnown, Engaged
  <1>2. base[w] \in Ledgers /\ job[w].rev \in Revocations
    BY DEF TypeInv, CommitTypeOK, Jobs
  <1> QED
    BY <1>1, <1>2, AppendCertType, ApplyRevType DEF Content

LEMMA WriteKeepsLedgerType ==
    ASSUME TypeInv, NEW w \in Writers, Write(w)
    PROVE  ledger' \in [Apps -> Ledgers]
  BY ContentType DEF TypeInv, CommitTypeOK, Write

LEMMA WriterStepKeepsTypes ==
    ASSUME TypeInv, NEW w \in Writers, WriterStep(w)
    PROVE  TypeInv'
  <1> USE DEF Resting
  <1>0. ledger \in [Apps -> Ledgers]
    BY DEF TypeInv, CommitTypeOK
  <1>1. CASE LoadIssue(w)
    <2>1. 0 \in 0..(MaxRetries - 1)
      BY CommitAssumption
    <2>2. CASE Take(w, "sign", 0)
      BY <1>1, <2>1, <2>2, TakeKeepsTypes DEF LoadIssue
    <2>3. CASE Stop(w, "rejected")
      BY <1>0, <1>1, <2>3, StopKeepsTypes DEF LoadIssue
    <2> QED
      BY <1>1, <2>2, <2>3 DEF LoadIssue
  <1>2. CASE LoadSelfRevoke(w)
    <2>1. 0 \in 0..(MaxRetries - 1) /\ w \notin Issuers
      BY <1>2, CommitAssumption DEF LoadSelfRevoke
    <2>2. CASE Take(w, "put", 0)
      BY <1>2, <2>1, <2>2, TakeKeepsTypes DEF LoadSelfRevoke
    <2>3. CASE Stop(w, "invalid")
      BY <1>0, <1>2, <2>3, StopKeepsTypes DEF LoadSelfRevoke
    <2>4. CASE Stop(w, "already")
      BY <1>0, <1>2, <2>4, StopKeepsTypes DEF LoadSelfRevoke
    <2> QED
      BY <1>2, <2>2, <2>3, <2>4 DEF LoadSelfRevoke
  <1>3. CASE LoadPrivileged(w)
    <2>1. 0 \in 0..(MaxRetries - 1) /\ w \notin Issuers
      BY <1>3, CommitAssumption DEF LoadPrivileged
    <2>2. CASE Take(w, "put", 0)
      BY <1>3, <2>1, <2>2, TakeKeepsTypes DEF LoadPrivileged
    <2>3. CASE Stop(w, "failed")
      BY <1>0, <1>3, <2>3, StopKeepsTypes DEF LoadPrivileged
    <2> QED
      BY <1>3, <2>2, <2>3 DEF LoadPrivileged
  <1>4. ASSUME NEW c \in Certs, Sign(w, c) PROVE TypeInv'
    <2>1. job[w].repo \in Repos \cup {NoRepo}
      BY DEF TypeInv, CommitTypeOK, Jobs
    <2>2. CommitTypeOK'
      BY <1>4, <2>1 DEF Sign, TypeInv, CommitTypeOK, Phases, Jobs
    <2>3. JobsKnown'
      BY <1>4 DEF Sign, TypeInv, CommitTypeOK, JobsKnown, JobKnown, Engaged, Jobs
    <2> QED
      BY <2>2, <2>3 DEF TypeInv
  <1>5. CASE Put(w)
    BY <1>5, StopKeepsTypes, WriteKeepsLedgerType DEF Put, Write
  <1>6. CASE PutReplyLost(w)
    BY <1>6, StopKeepsTypes, WriteKeepsLedgerType DEF PutReplyLost, Write
  <1>7. CASE PutConflict(w)
    <2>1. CommitTypeOK'
      BY <1>7 DEF PutConflict, TypeInv, CommitTypeOK, Phases
    <2>2. JobsKnown'
      BY <1>7 DEF PutConflict, TypeInv, CommitTypeOK, JobsKnown, JobKnown, Engaged
    <2> QED
      BY <2>1, <2>2 DEF TypeInv
  <1>8. CASE Reload(w)
    <2>1. CASE Stop(w, "failed")
      BY <1>0, <1>8, <2>1, StopKeepsTypes DEF Reload
    <2>2. CASE tries[w] + 1 # MaxRetries /\ Take(w, "put", tries[w] + 1)
      <3>1. tries[w] + 1 \in 0..(MaxRetries - 1)
        BY <2>2, CommitAssumption DEF TypeInv, CommitTypeOK
      <3> QED
        BY <1>8, <2>2, <3>1, TakeKeepsTypes DEF Reload
    <2> QED
      BY <1>8, <2>1, <2>2 DEF Reload
  <1>9. CASE Fail(w)
    BY <1>0, <1>9, StopKeepsTypes DEF Fail
  <1> QED
    BY <1>1, <1>2, <1>3, <1>4, <1>5, <1>6, <1>7, <1>8, <1>9 DEF WriterStep

LEMMA EditKeepsTypes ==
    ASSUME TypeInv, NEW a \in Apps, Edit(a), ledger' \in [Apps -> Ledgers]
    PROVE  TypeInv'
  <1>1. CommitTypeOK'
    BY CommitAssumption DEF TypeInv, CommitTypeOK, Edit
  <1>2. JobsKnown'
    BY DEF TypeInv, JobsKnown, JobKnown, Edit
  <1> QED
    BY <1>1, <1>2 DEF TypeInv

LEMMA TypeNext == TypeInv /\ [CommitNext]_commitVars => TypeInv'
  <1> SUFFICES ASSUME TypeInv, [CommitNext]_commitVars PROVE TypeInv'
    OBVIOUS
  <1>0. /\ ledger \in [Apps -> Ledgers]
        /\ Repos \subseteq Repos \cup {NoRepo} /\ Certs \subseteq Certs \cup {NoCert}
    BY DEF TypeInv, CommitTypeOK
  <1>1. ASSUME NEW w \in Writers, WriterStep(w) PROVE TypeInv'
    BY <1>1, WriterStepKeepsTypes
  <1>2. ASSUME NEW w \in Issuers, NEW a \in Apps, NEW r \in Repos,
               BeginIssue(w, a, r)
        PROVE  TypeInv'
    <2> DEFINE j == [NoJob EXCEPT !.app = a, !.repo = r]
    <2>1. j \in Jobs /\ j.app \in Apps /\ j.repo \in Repos
      BY NoJobType DEF Jobs
    <2>2. w \in Writers /\ Begin(w, j)
      BY <1>2 DEF Writers, BeginIssue
    <2> QED
      BY <1>2, <2>1, <2>2, BeginKeepsTypes
  <1>3. ASSUME NEW w \in SelfRevokers, NEW a \in Apps, NEW c \in Certs,
               BeginSelfRevoke(w, a, c)
        PROVE  TypeInv'
    <2> DEFINE j == [NoJob EXCEPT !.app = a, !.cert = c]
    <2>1. j \in Jobs /\ j.app \in Apps /\ j.cert \in Certs
      BY NoJobType DEF Jobs
    <2>2. w \in Writers /\ w \notin Issuers /\ Begin(w, j)
      BY <1>3, CommitAssumption DEF Writers, BeginSelfRevoke
    <2> QED
      BY <2>1, <2>2, BeginKeepsTypes
  <1>4. ASSUME NEW w \in PrivRevokers, NEW a \in Apps, NEW c \in Certs,
               NEW rev \in Revocations, BeginPrivileged(w, a, c, rev)
        PROVE  TypeInv'
    <2> DEFINE j == [NoJob EXCEPT !.app = a, !.cert = c, !.rev = rev]
    <2>1. j \in Jobs /\ j.app \in Apps /\ j.cert \in Certs
      BY NoJobType DEF Jobs
    <2>2. w \in Writers /\ w \notin Issuers /\ Begin(w, j)
      BY <1>4, CommitAssumption DEF Writers, BeginPrivileged
    <2> QED
      BY <2>1, <2>2, BeginKeepsTypes
  <1>5. ASSUME NEW a \in Apps, NEW r \in Repos, NEW b \in BOOLEAN,
               Reassign(a, r, b)
        PROVE  TypeInv'
    <2>1. ledger' \in [Apps -> Ledgers]
      BY <1>0, <1>5 DEF Reassign, Ledgers
    <2> QED
      BY <1>5, <2>1, EditKeepsTypes DEF Reassign
  <1>6. ASSUME NEW a \in Apps, NEW c \in Certs, NEW rev \in Revocations,
               RevokeByHand(a, c, rev)
        PROVE  TypeInv'
    <2>1. ledger' \in [Apps -> Ledgers]
      BY <1>0, <1>6, ApplyRevType DEF RevokeByHand
    <2> QED
      BY <1>6, <2>1, EditKeepsTypes DEF RevokeByHand
  <1>7. CASE UNCHANGED commitVars
    BY <1>7 DEF commitVars, TypeInv, CommitTypeOK, JobsKnown, JobKnown
  <1> QED
    BY <1>1, <1>2, <1>3, <1>4, <1>5, <1>6, <1>7 DEF CommitNext

(* Types: every variable keeps the type the Go code gives it, and no run   *)
(* ever meets more conflicts than maxLedgerRetries allows.                 *)
THEOREM CommitTypeCorrect == CommitSpec => []CommitTypeOK
  <1>1. CommitSpec => []TypeInv
    BY TypeInit, TypeNext, PTL DEF CommitSpec
  <1>2. TypeInv => CommitTypeOK
    BY DEF TypeInv
  <1> QED
    BY <1>1, <1>2, PTL
-----------------------------------------------------------------------------
(* What a step does to the runs and to the entries.                        *)

(* Only the run of w moves.                                                *)
OnlyRun(w) ==
    \A v \in Writers : v # w =>
        pc'[v] = pc[v] /\ job'[v] = job[v] /\ base'[v] = base[v]

(* No entry appears or disappears.                                         *)
SameEntries ==
    \A a \in Apps, c \in Certs : Find(ledger[a], c)' = Find(ledger[a], c)

(* Nothing that was entered or revoked is lost.                            *)
NothingLost ==
    \A a \in Apps, c \in Certs :
        /\ Find(ledger[a], c) => Find(ledger[a], c)'
        /\ IsRevoked(ledger[a], c) => IsRevoked(ledger[a], c)'

LEMMA StepIsAlone ==
    ASSUME TypeInv, NEW w \in Writers
    PROVE  /\ WriterStep(w) => OnlyRun(w)
           /\ \A j \in Jobs : Begin(w, j) => OnlyRun(w)
  BY DEF TypeInv, CommitTypeOK, OnlyRun, WriterStep, LoadIssue, LoadSelfRevoke,
         LoadPrivileged, Sign, Put, PutReplyLost, PutConflict, Reload, Fail,
         Stop, Take, Write, Begin

(* A write changes one entry: an issuer's from missing to active, a        *)
(* revoker's to revoked.                                                   *)
LEMMA WriteStanding ==
    ASSUME TypeInv, NEW w \in Writers, Write(w), NEW a \in Apps, NEW c \in Certs
    PROVE  ledger'[a].certs[c] =
              IF a = job[w].app /\ c = job[w].cert
              THEN IF w \in Issuers THEN ActiveEntry ELSE RevokedEntry(job[w].rev)
              ELSE ledger[a].certs[c]
  <1>1. /\ job[w].app \in Apps /\ job[w].cert \in Certs
        /\ w \in Issuers => job[w].repo \in Repos
        /\ job[w].rev \in Revocations /\ base[w] \in Ledgers
    BY DEF Write, TypeInv, CommitTypeOK, JobsKnown, JobKnown, Engaged, Jobs
  <1>2. Content(w).certs[c] =
           IF c = job[w].cert
           THEN IF w \in Issuers THEN ActiveEntry ELSE RevokedEntry(job[w].rev)
           ELSE base[w].certs[c]
    BY <1>1, AppendCertEntries, ApplyRevEntries DEF Content
  <1>3. ledger' = [ledger EXCEPT ![job[w].app] = Content(w)]
        /\ ledger[job[w].app] = base[w] /\ ledger \in [Apps -> Ledgers]
    BY DEF Write, TypeInv, CommitTypeOK
  <1>4. CASE a = job[w].app
    BY <1>1, <1>2, <1>3, <1>4
  <1>5. CASE a # job[w].app
    BY <1>1, <1>3, <1>5
  <1> QED
    BY <1>4, <1>5

LEMMA ReassignStanding ==
    ASSUME TypeInv, NEW b \in Apps, NEW r \in Repos, NEW m \in BOOLEAN,
           Reassign(b, r, m), NEW a \in Apps
    PROVE  ledger'[a].certs = ledger[a].certs
  BY DEF Reassign, TypeInv, CommitTypeOK, Ledgers

LEMMA RevokeByHandStanding ==
    ASSUME TypeInv, NEW b \in Apps, NEW d \in Certs, NEW rev \in Revocations,
           RevokeByHand(b, d, rev), NEW a \in Apps, NEW c \in Certs
    PROVE  ledger'[a].certs[c] =
              IF a = b /\ c = d THEN RevokedEntry(rev) ELSE ledger[a].certs[c]
  <1>1. ledger' = [ledger EXCEPT ![b] = ApplyRev(ledger[b], d, rev)]
        /\ ledger[b] \in Ledgers /\ ledger \in [Apps -> Ledgers]
    BY DEF RevokeByHand, TypeInv, CommitTypeOK
  <1> QED
    BY <1>1, ApplyRevEntries

(* A run that keeps its job and gains no leaf keeps the leaves fresh.      *)
LEMMA FreshFrame ==
    ASSUME TypeInv, LeavesFresh, NEW w \in Writers, OnlyRun(w), SameEntries,
           grant' = grant,
           Carries(w)' => Carries(w) /\ job'[w] = job[w]
    PROVE  LeavesFresh'
  <1>1. ASSUME NEW v \in Writers, Carries(v)'
        PROVE  Carries(v) /\ job'[v] = job[v] /\ job[v].cert \in Certs
    BY <1>1 DEF OnlyRun, Carries, TypeInv, JobsKnown, JobKnown, Engaged
  <1> QED
    BY <1>1 DEF LeavesFresh, SameEntries
-----------------------------------------------------------------------------
(* Only a signature and a write matter to the leaves: a write enters the   *)
(* leaf its run carries, and no other.                                     *)
LEMMA WriteKeepsFresh ==
    ASSUME TypeInv, LeavesFresh, NEW w \in Writers, Write(w), OnlyRun(w),
           RevokersFound, pc'[w] \in Resting
    PROVE  LeavesFresh'
  <1>0. ~Carries(w)' /\ grant' = grant
    BY DEF Carries, Resting, Write
  <1>1. CASE w \in Issuers
    <2>1. Carries(w) /\ job[w].repo \in Repos /\ job[w].cert \in Certs
      BY <1>1 DEF Write, Carries, TypeInv, JobsKnown, JobKnown, Engaged
    <2>2. \A a \in Apps, c \in Certs :
             Find(ledger[a], c)' => Find(ledger[a], c) \/ c = job[w].cert
      BY WriteStanding DEF Find
    <2>3. \A a \in Apps, c \in Certs : Find(ledger[a], c)' => grant'[c] # NoRepo
      BY <1>0, <2>1, <2>2, LedgerAssumption DEF LeavesFresh
    <2>4. ASSUME NEW v \in Writers, Carries(v)'
          PROVE  v # w /\ Carries(v) /\ job'[v] = job[v] /\ job[v].cert \in Certs
      BY <1>0, <2>4 DEF OnlyRun, Carries, TypeInv, JobsKnown, JobKnown, Engaged
    <2>5. ASSUME NEW v \in Writers, Carries(v)'
          PROVE  /\ grant'[job'[v].cert] = job'[v].repo
                 /\ \A a \in Apps : ~Find(ledger[a], job[v].cert)'
      <3>1. job[v].cert # job[w].cert
        BY <2>1, <2>4, <2>5 DEF LeavesFresh
      <3>2. grant[job[v].cert] = job[v].repo
            /\ \A a \in Apps : ~Find(ledger[a], job[v].cert)
        BY <2>4, <2>5 DEF LeavesFresh
      <3> QED
        BY <1>0, <2>2, <2>4, <2>5, <3>1, <3>2 DEF Find
    <2>6. ASSUME NEW v \in Writers, Carries(v)', NEW u \in Writers, Carries(u)',
                 u # v
          PROVE  job'[u].cert # job'[v].cert
      BY <2>4, <2>6 DEF LeavesFresh
    <2> QED
      BY <2>3, <2>5, <2>6 DEF LeavesFresh
  <1>2. CASE w \notin Issuers
    <2>1. Find(ledger[job[w].app], job[w].cert)
      BY <1>2 DEF RevokersFound, Write
    <2>0. \A a \in Apps, c \in Certs : ledger'[a].certs[c] =
               IF a = job[w].app /\ c = job[w].cert
               THEN IF w \in Issuers THEN ActiveEntry ELSE RevokedEntry(job[w].rev)
               ELSE ledger[a].certs[c]
      BY WriteStanding
    <2>2. SameEntries
      BY <1>2, <2>0, <2>1
         DEF SameEntries, Find, RevokedEntry
    <2> QED
      BY <1>0, <2>2, FreshFrame
  <1> QED
    BY <1>1, <1>2

LEMMA SignKeepsFresh ==
    ASSUME TypeInv, LeavesFresh, NEW w \in Writers, NEW c \in Certs, Sign(w, c),
           OnlyRun(w)
    PROVE  LeavesFresh'
  <1>1. /\ w \in Issuers /\ grant[c] = NoRepo
        /\ grant' = [grant EXCEPT ![c] = job[w].repo]
        /\ job'[w].repo = job[w].repo /\ job'[w].cert = c /\ ledger' = ledger
        /\ grant \in [Certs -> Repos \cup {NoRepo}] /\ job[w].repo \in Repos
    BY DEF Sign, TypeInv, CommitTypeOK, JobsKnown, JobKnown, Engaged, Jobs
  <1>2. \A a \in Apps : ~Find(ledger[a], c)
    BY <1>1 DEF LeavesFresh
  <1>3. ASSUME NEW v \in Writers, v # w, Carries(v)'
        PROVE  /\ Carries(v) /\ job'[v] = job[v] /\ job[v].cert \in Certs
               /\ job[v].cert # c
    <2>1. Carries(v) /\ job'[v] = job[v] /\ job[v].cert \in Certs
          /\ job[v].repo \in Repos
      BY <1>3 DEF OnlyRun, Carries, TypeInv, JobsKnown, JobKnown, Engaged
    <2> QED
      BY <1>1, <2>1, LedgerAssumption DEF LeavesFresh
  <1>4. \A a \in Apps, d \in Certs : Find(ledger[a], d)' => grant'[d] # NoRepo
    BY <1>1, <1>2 DEF LeavesFresh
  <1> QED
    BY <1>1, <1>2, <1>3, <1>4 DEF LeavesFresh

(* No step of a run loses anything: a write is applied to the content it   *)
(* was computed from, and an issuer's leaf is new.                         *)
LEMMA WriteLosesNothing ==
    ASSUME CommitInv, NEW w \in Writers, Write(w)
    PROVE  NothingLost
  <1>1. TypeInv /\ (w \in Issuers => ~Find(ledger[job[w].app], job[w].cert))
    BY DEF CommitInv, LeavesFresh, Carries, Write, TypeInv, JobsKnown, JobKnown,
           Engaged
  <1>2. \A a \in Apps, c \in Certs : ledger'[a].certs[c] =
             IF a = job[w].app /\ c = job[w].cert
             THEN IF w \in Issuers THEN ActiveEntry ELSE RevokedEntry(job[w].rev)
             ELSE ledger[a].certs[c]
    BY <1>1, WriteStanding
  <1> QED
    BY <1>1, <1>2
       DEF NothingLost, Find, IsRevoked, ActiveEntry, RevokedEntry

(* What runs reported before the step still stands after it.               *)
LEMMA ReportedFrame ==
    ASSUME TypeInv, ReportedIsCommitted, NEW w \in Writers, OnlyRun(w),
           NothingLost, pc'[w] # "done"
    PROVE  ReportedIsCommitted'
  <1>1. ASSUME NEW v \in Writers, pc'[v] = "done"
        PROVE  IF v \in Issuers THEN Find(ledger[job[v].app], job[v].cert)'
                                ELSE IsRevoked(ledger[job[v].app], job[v].cert)'
    <2>1. /\ pc[v] = "done" /\ job'[v] = job[v]
          /\ job[v].app \in Apps /\ job[v].cert \in Certs
      BY <1>1 DEF OnlyRun, TypeInv, JobsKnown, JobKnown, Engaged
    <2>2. IF v \in Issuers THEN Find(ledger[job[v].app], job[v].cert)
                           ELSE IsRevoked(ledger[job[v].app], job[v].cert)
      BY <2>1 DEF ReportedIsCommitted
    <2> QED
      BY <2>1, <2>2 DEF NothingLost, Find, IsRevoked
  <1> QED
    BY <1>1 DEF ReportedIsCommitted

LEMMA PutReports ==
    ASSUME CommitInv, NEW w \in Writers, Put(w), OnlyRun(w)
    PROVE  ReportedIsCommitted'
  <1>1. TypeInv /\ Write(w) /\ job'[w] = job[w] /\ pc'[w] = "done"
    BY DEF CommitInv, TypeInv, CommitTypeOK, Put, Stop
  <1>2. NothingLost
    BY <1>1, WriteLosesNothing
  <1>3. job[w].app \in Apps /\ job[w].cert \in Certs
    BY <1>1 DEF Write, TypeInv, JobsKnown, JobKnown, Engaged
  <1>4. ledger'[job[w].app].certs[job[w].cert] =
           IF w \in Issuers THEN ActiveEntry ELSE RevokedEntry(job[w].rev)
    BY <1>1, <1>3, WriteStanding
  <1>5. IF w \in Issuers THEN Find(ledger[job[w].app], job[w].cert)'
                         ELSE IsRevoked(ledger[job[w].app], job[w].cert)'
    BY <1>1, <1>4
       DEF Find, IsRevoked, ActiveEntry, RevokedEntry
  <1>6. ASSUME NEW v \in Writers, v # w, pc'[v] = "done"
        PROVE  IF v \in Issuers THEN Find(ledger[job[v].app], job[v].cert)'
                                ELSE IsRevoked(ledger[job[v].app], job[v].cert)'
    <2>1. /\ pc[v] = "done" /\ job'[v] = job[v]
          /\ job[v].app \in Apps /\ job[v].cert \in Certs
      BY <1>1, <1>6 DEF OnlyRun, TypeInv, JobsKnown, JobKnown, Engaged
    <2>2. IF v \in Issuers THEN Find(ledger[job[v].app], job[v].cert)
                           ELSE IsRevoked(ledger[job[v].app], job[v].cert)
      BY <2>1 DEF CommitInv, ReportedIsCommitted
    <2> QED
      BY <1>2, <2>1, <2>2 DEF NothingLost, Find, IsRevoked
  <1> QED
    BY <1>5, <1>6 DEF ReportedIsCommitted

LEMMA CommitInvInit == CommitInit => CommitInv
  <1> SUFFICES ASSUME CommitInit PROVE CommitInv
    OBVIOUS
  <1>1. \A a \in Apps, c \in Certs : ~Find(ledger[a], c)
    BY DEF CommitInit, Seeds, Find, NoLedger, SeedLedger, NoCertificates, MissingEntry
  <1>2. LeavesFresh
    BY <1>1 DEF CommitInit, LeavesFresh, Carries
  <1>3. RevokersFound /\ ReportedIsCommitted
    BY DEF CommitInit, RevokersFound, ReportedIsCommitted
  <1> QED
    BY <1>2, <1>3, TypeInit DEF CommitInv

(* A run that reads holds what it read: a revoker found its certificate.   *)
LEMMA FoundFrame ==
    ASSUME TypeInv, RevokersFound, NEW w \in Writers, OnlyRun(w),
           pc'[w] = "put" /\ w \notin Issuers =>
              Find(base'[w], job'[w].cert)
    PROVE  RevokersFound'
  BY DEF RevokersFound, OnlyRun, Find

(* A step that leaves the ledger and the signatures alone, reports nothing *)
(* and gives its run no leaf.                                              *)
LEMMA LocalStep ==
    ASSUME CommitInv, TypeInv', NEW w \in Writers, OnlyRun(w),
           ledger' = ledger, grant' = grant, pc'[w] # "done",
           Carries(w)' => Carries(w) /\ job'[w] = job[w],
           pc'[w] = "put" /\ w \notin Issuers => Find(base'[w], job'[w].cert)
    PROVE  CommitInv'
  <1>1. SameEntries /\ NothingLost
    BY DEF SameEntries, NothingLost, Find, IsRevoked
  <1>2. LeavesFresh'
    BY <1>1, FreshFrame DEF CommitInv
  <1>3. RevokersFound'
    BY FoundFrame DEF CommitInv
  <1>4. ReportedIsCommitted'
    BY <1>1, ReportedFrame DEF CommitInv
  <1> QED
    BY <1>2, <1>3, <1>4 DEF CommitInv

LEMMA WriterStepKeepsInv ==
    ASSUME CommitInv, NEW w \in Writers, WriterStep(w)
    PROVE  CommitInv'
  <1>0. TypeInv /\ TypeInv' /\ OnlyRun(w)
    BY StepIsAlone, WriterStepKeepsTypes DEF CommitInv
  <1>1. CASE LoadIssue(w) \/ LoadSelfRevoke(w) \/ LoadPrivileged(w)
    <2>1. /\ ledger' = ledger /\ grant' = grant /\ pc'[w] # "done"
          /\ ~Carries(w)'
          /\ pc'[w] = "put" /\ w \notin Issuers => Find(base'[w], job'[w].cert)
      BY <1>0, <1>1, CommitAssumption
         DEF LoadIssue, LoadSelfRevoke, LoadPrivileged, Take, Stop, Carries,
             TypeInv, CommitTypeOK
    <2> QED
      BY <1>0, <2>1, LocalStep
  <1>2. ASSUME NEW c \in Certs, Sign(w, c) PROVE CommitInv'
    <2>1. LeavesFresh'
      BY <1>0, <1>2, SignKeepsFresh DEF CommitInv
    <2>2. ledger' = ledger /\ pc'[w] = "put" /\ w \in Issuers
      BY <1>0, <1>2 DEF Sign, TypeInv, CommitTypeOK
    <2>3. NothingLost
      BY <2>2 DEF NothingLost, Find, IsRevoked
    <2> QED
      BY <1>0, <2>1, <2>2, <2>3, FoundFrame, ReportedFrame DEF CommitInv
  <1>3. CASE Put(w)
    <2>1. Write(w) /\ pc'[w] = "done"
      BY <1>0, <1>3 DEF Put, Stop, TypeInv, CommitTypeOK
    <2>2. LeavesFresh'
      BY <1>0, <2>1, WriteKeepsFresh DEF CommitInv, Resting
    <2>3. RevokersFound'
      BY <1>0, <2>1, FoundFrame DEF CommitInv
    <2> QED
      BY <1>0, <1>3, <2>2, <2>3, PutReports DEF CommitInv
  <1>4. CASE PutReplyLost(w)
    <2>1. Write(w) /\ pc'[w] = "failed"
      BY <1>0, <1>4 DEF PutReplyLost, Stop, TypeInv, CommitTypeOK
    <2>2. LeavesFresh'
      BY <1>0, <2>1, WriteKeepsFresh DEF CommitInv, Resting
    <2>3. RevokersFound'
      BY <1>0, <2>1, FoundFrame DEF CommitInv
    <2>4. ReportedIsCommitted'
      BY <1>0, <2>1, WriteLosesNothing, ReportedFrame DEF CommitInv
    <2> QED
      BY <1>0, <2>2, <2>3, <2>4 DEF CommitInv
  <1>5. CASE PutConflict(w)
    <2>1. /\ ledger' = ledger /\ grant' = grant /\ pc'[w] = "reload"
          /\ job' = job /\ pc[w] = "put"
      BY <1>0, <1>5 DEF PutConflict, TypeInv, CommitTypeOK
    <2> QED
      BY <1>0, <2>1, LocalStep DEF Carries
  <1>6. CASE Reload(w)
    <2>1. /\ ledger' = ledger /\ grant' = grant /\ pc'[w] # "done"
          /\ Carries(w)' => Carries(w) /\ job'[w] = job[w]
          /\ pc'[w] = "put" /\ w \notin Issuers => Find(base'[w], job'[w].cert)
      BY <1>0, <1>6
         DEF Reload, Vanished, Take, Stop, Carries, TypeInv, CommitTypeOK
    <2> QED
      BY <1>0, <2>1, LocalStep
  <1>7. CASE Fail(w)
    <2>1. ledger' = ledger /\ grant' = grant /\ pc'[w] = "failed"
      BY <1>0, <1>7 DEF Fail, Stop, TypeInv, CommitTypeOK
    <2> QED
      BY <1>0, <2>1, LocalStep DEF Carries
  <1> QED
    BY <1>1, <1>2, <1>3, <1>4, <1>5, <1>6, <1>7 DEF WriterStep

LEMMA BeginKeepsInv ==
    ASSUME CommitInv, TypeInv', NEW w \in Writers, NEW j, Begin(w, j)
    PROVE  CommitInv'
  <1>1. /\ ledger' = ledger /\ grant' = grant /\ pc'[w] = "load" /\ OnlyRun(w)
    BY DEF Begin, CommitInv, TypeInv, CommitTypeOK, OnlyRun
  <1> QED
    BY <1>1, LocalStep DEF Carries

(* Edits by hand move no run.                                              *)
LEMMA EditKeepsInv ==
    ASSUME CommitInv, TypeInv', NEW a \in Apps, Edit(a), SameEntries, NothingLost
    PROVE  CommitInv'
  <1>1. TypeInv /\ UNCHANGED <<pc, job, base, tries, grant>>
    BY DEF Edit, CommitInv
  <1>2. LeavesFresh'
    BY <1>1 DEF CommitInv, LeavesFresh, SameEntries, Carries, TypeInv, JobsKnown,
                JobKnown, Engaged
  <1>3. RevokersFound'
    BY <1>1 DEF CommitInv, RevokersFound, Find
  <1>4. ASSUME NEW v \in Writers, pc'[v] = "done"
        PROVE  IF v \in Issuers THEN Find(ledger[job[v].app], job[v].cert)'
                                ELSE IsRevoked(ledger[job[v].app], job[v].cert)'
    <2>1. job[v].app \in Apps /\ job[v].cert \in Certs /\ pc[v] = "done"
      BY <1>1, <1>4 DEF TypeInv, JobsKnown, JobKnown, Engaged
    <2>2. IF v \in Issuers THEN Find(ledger[job[v].app], job[v].cert)
                           ELSE IsRevoked(ledger[job[v].app], job[v].cert)
      BY <2>1 DEF CommitInv, ReportedIsCommitted
    <2> QED
      BY <1>1, <2>1, <2>2 DEF NothingLost, Find, IsRevoked
  <1> QED
    BY <1>2, <1>3, <1>4 DEF CommitInv, ReportedIsCommitted

LEMMA CommitInvNext == CommitInv /\ [CommitNext]_commitVars => CommitInv'
  <1> SUFFICES ASSUME CommitInv, [CommitNext]_commitVars PROVE CommitInv'
    OBVIOUS
  <1>0. TypeInv /\ TypeInv'
    BY TypeNext DEF CommitInv
  <1>1. ASSUME NEW w \in Writers, WriterStep(w) PROVE CommitInv'
    BY <1>1, WriterStepKeepsInv
  <1>2. ASSUME NEW w \in Issuers, NEW a \in Apps, NEW r \in Repos,
               BeginIssue(w, a, r)
        PROVE  CommitInv'
    BY <1>0, <1>2, BeginKeepsInv DEF BeginIssue, Writers
  <1>3. ASSUME NEW w \in SelfRevokers, NEW a \in Apps, NEW c \in Certs,
               BeginSelfRevoke(w, a, c)
        PROVE  CommitInv'
    BY <1>0, <1>3, BeginKeepsInv DEF BeginSelfRevoke, Writers
  <1>4. ASSUME NEW w \in PrivRevokers, NEW a \in Apps, NEW c \in Certs,
               NEW rev \in Revocations, BeginPrivileged(w, a, c, rev)
        PROVE  CommitInv'
    BY <1>0, <1>4, BeginKeepsInv DEF BeginPrivileged, Writers
  <1>5. ASSUME NEW b \in Apps, NEW r \in Repos, NEW m \in BOOLEAN,
               Reassign(b, r, m)
        PROVE  CommitInv'
    <2>1. \A a \in Apps : ledger'[a].certs = ledger[a].certs
      BY <1>0, <1>5, ReassignStanding
    <2>2. SameEntries /\ NothingLost
      BY <2>1 DEF SameEntries, NothingLost, Find, IsRevoked
    <2> QED
      BY <1>0, <1>5, <2>2, EditKeepsInv DEF Reassign
  <1>6. ASSUME NEW b \in Apps, NEW d \in Certs, NEW rev \in Revocations,
               RevokeByHand(b, d, rev)
        PROVE  CommitInv'
    <2>1. \A a \in Apps, c \in Certs : ledger'[a].certs[c] =
             IF a = b /\ c = d THEN RevokedEntry(rev) ELSE ledger[a].certs[c]
      BY <1>0, <1>6, RevokeByHandStanding
    <2>2. SameEntries /\ NothingLost
      BY <1>6, <2>1
         DEF SameEntries, NothingLost, Find, IsRevoked, RevokeByHand, RevokedEntry
    <2> QED
      BY <1>0, <1>6, <2>2, EditKeepsInv DEF RevokeByHand
  <1>7. CASE UNCHANGED commitVars
    <2>1. /\ LeavesFresh' /\ RevokersFound' /\ ReportedIsCommitted'
      BY <1>7 DEF commitVars, CommitInv, LeavesFresh, RevokersFound,
         ReportedIsCommitted, Carries, Find, IsRevoked
    <2> QED
      BY <1>0, <2>1 DEF CommitInv
  <1> QED
    BY <1>1, <1>2, <1>3, <1>4, <1>5, <1>6, <1>7 DEF CommitNext

LEMMA CommitInvHolds == CommitSpec => []CommitInv
  BY CommitInvInit, CommitInvNext, PTL DEF CommitSpec

(* What commitLedger and applyRevocation return nil for stands in the      *)
(* ledger from then on, whoever writes after it.                           *)
THEOREM ReportedCorrect == CommitSpec => []ReportedIsCommitted
  <1>1. CommitInv => ReportedIsCommitted
    BY DEF CommitInv
  <1> QED
    BY <1>1, CommitInvHolds, PTL
-----------------------------------------------------------------------------
(* The protocol implements the append-only log.                            *)
LEMMA LogInit == CommitInit => Log!Init
  BY DEF CommitInit, Log!Init, Standing, Seeds, NoLedger, SeedLedger,
         NoCertificates, MissingEntry

(* The standing after a step that changes one entry.                       *)
LEMMA OneEntry ==
    ASSUME NEW a \in Apps, NEW c \in Certs, NEW s,
           \A b \in Apps, d \in Certs : ledger'[b].certs[d].status =
               IF b = a /\ d = c THEN s ELSE ledger[b].certs[d].status
    PROVE  Standing' = [Standing EXCEPT ![a][c] = s]
  <1> DEFINE Row(b) == [d \in Certs |-> ledger[b].certs[d].status]
             NewRow(b) == [d \in Certs |-> ledger'[b].certs[d].status]
  <1>1. NewRow(a) = [Row(a) EXCEPT ![c] = s]
    OBVIOUS
  <1>2. \A b \in Apps : b # a => NewRow(b) = Row(b)
    OBVIOUS
  <1>3. /\ Standing = [b \in Apps |-> Row(b)]
        /\ Standing' = [b \in Apps |-> NewRow(b)]
    BY DEF Standing
  <1> HIDE DEF Row, NewRow
  <1>4. [Standing EXCEPT ![a][c] = s] =
           [b \in Apps |-> IF b = a THEN [Row(a) EXCEPT ![c] = s] ELSE Row(b)]
    BY <1>3
  <1> QED
    BY <1>1, <1>2, <1>3, <1>4

LEMMA LogRevoke ==
    ASSUME NEW a \in Apps, NEW c \in Certs, Find(ledger[a], c),
           ledger[a].certs[c].status \in {"missing", "active", "revoked"},
           \A b \in Apps, d \in Certs : ledger'[b].certs[d].status =
               IF b = a /\ d = c THEN "revoked" ELSE ledger[b].certs[d].status
    PROVE  [Log!Next]_Standing
  <1>1. Standing[a][c] \in {"active", "revoked"}
    BY DEF Standing, Find
  <1>2. CASE Standing[a][c] = "active"
    BY <1>2, OneEntry DEF Log!Next, Log!Revoke
  <1>3. CASE Standing[a][c] = "revoked"
    BY <1>3 DEF Standing
  <1> QED
    BY <1>1, <1>2, <1>3

LEMMA LogWrite ==
    ASSUME CommitInv, NEW w \in Writers, Write(w)
    PROVE  [Log!Next]_Standing
  <1>0. TypeInv
    BY DEF CommitInv
  <1> DEFINE a == job[w].app
             c == job[w].cert
  <1>1. a \in Apps /\ c \in Certs
    BY <1>0, ContentType DEF Write
  <1>2. \A b \in Apps, d \in Certs : ledger'[b].certs[d] =
           IF b = a /\ d = c
           THEN IF w \in Issuers THEN ActiveEntry ELSE RevokedEntry(job[w].rev)
           ELSE ledger[b].certs[d]
    BY <1>0, WriteStanding
  <1>3. CASE w \in Issuers
    <2>1. Standing[a][c] = "missing"
      BY <1>1, <1>3 DEF Standing, Find, CommitInv, LeavesFresh, Carries, Write
    <2>2. \A b \in Apps, d \in Certs : ledger'[b].certs[d].status =
             IF b = a /\ d = c THEN "active" ELSE ledger[b].certs[d].status
      BY <1>2, <1>3 DEF ActiveEntry
    <2>3. Standing' = [Standing EXCEPT ![a][c] = "active"]
      <3> HIDE DEF a, c
      <3> QED
        BY <1>1, <2>2, OneEntry
    <2> QED
      BY <1>1, <2>1, <2>3 DEF Log!Next, Log!Enter
  <1>4. CASE w \notin Issuers
    <2>1. Find(ledger[a], c)
      BY <1>4 DEF CommitInv, RevokersFound, Write
    <2>2. ledger[a].certs[c].status \in {"missing", "active", "revoked"}
      BY <1>0, <1>1 DEF TypeInv, CommitTypeOK, Ledgers, Entries
    <2>3. \A b \in Apps, d \in Certs : ledger'[b].certs[d].status =
             IF b = a /\ d = c THEN "revoked" ELSE ledger[b].certs[d].status
      BY <1>2, <1>4 DEF RevokedEntry
    <2> QED
      BY <1>1, <2>1, <2>2, <2>3, LogRevoke
  <1> QED
    BY <1>3, <1>4

LEMMA LogNext == CommitInv /\ [CommitNext]_commitVars => [Log!Next]_Standing
  <1> SUFFICES ASSUME CommitInv, [CommitNext]_commitVars PROVE [Log!Next]_Standing
    OBVIOUS
  <1>0. TypeInv
    BY DEF CommitInv
  <1>1. CASE \E w \in Writers : Write(w)
    BY <1>1, LogWrite
  <1>2. ASSUME NEW b \in Apps, NEW r \in Repos, NEW m \in BOOLEAN,
               Reassign(b, r, m)
        PROVE  Standing' = Standing
    <2>1. \A a \in Apps : ledger'[a].certs = ledger[a].certs
      BY <1>0, <1>2, ReassignStanding
    <2> QED
      BY <2>1 DEF Standing
  <1>3. ASSUME NEW b \in Apps, NEW d \in Certs, NEW rev \in Revocations,
               RevokeByHand(b, d, rev)
        PROVE  [Log!Next]_Standing
    <2>1. \A a \in Apps, c \in Certs : ledger'[a].certs[c] =
             IF a = b /\ c = d THEN RevokedEntry(rev) ELSE ledger[a].certs[c]
      BY <1>0, <1>3, RevokeByHandStanding
    <2>2. \A a \in Apps, c \in Certs : ledger'[a].certs[c].status =
             IF a = b /\ c = d THEN "revoked" ELSE ledger[a].certs[c].status
      BY <2>1 DEF RevokedEntry
    <2>3. ledger[b].certs[d].status \in {"missing", "active", "revoked"}
      BY <1>0 DEF TypeInv, CommitTypeOK, Ledgers, Entries
    <2> QED
      BY <1>3, <2>2, <2>3, LogRevoke DEF RevokeByHand
  <1>4. CASE ledger' = ledger
    BY <1>4 DEF Standing
  <1> QED
    BY <1>1, <1>2, <1>3, <1>4
       DEF CommitNext, commitVars, WriterStep, LoadIssue, LoadSelfRevoke,
           LoadPrivileged, Sign, Put, PutReplyLost, PutConflict, Reload, Fail,
           BeginIssue, BeginSelfRevoke, BeginPrivileged, Begin

(* Refinement: with any number of writers at once and edits by hand at any *)
(* time, no write loses an entry or brings a revoked certificate back.     *)
THEOREM LogImplemented == CommitSpec => ImplementsLog
  BY LogInit, LogNext, CommitInvHolds, PTL DEF CommitSpec, ImplementsLog, Log!Spec
-----------------------------------------------------------------------------
(* What the concurrency group adds: with one run at a time, and edits by   *)
(* hand only between runs, what a run decided on still holds when it       *)
(* writes.                                                                 *)
OneRun ==
    \A v \in Writers, w \in Writers :
        pc[v] \notin Resting /\ pc[w] \notin Resting => v = w

ClaimHolds ==
    \A w \in Issuers : pc[w] \in {"sign", "put", "reload"} =>
        Accepted(ledger[job[w].app], job[w].repo)

StillActive ==
    \A w \in SelfRevokers : pc[w] \in {"put", "reload"} =>
        ~IsRevoked(ledger[job[w].app], job[w].cert)

PrivilegedNamed ==
    \A w \in PrivRevokers : pc[w] \notin Resting => job[w].rev.actor # NoActor

ActorsRevoke ==
    \A a \in Apps, c \in Certs :
        ledger[a].certs[c].actor # NoActor => IsRevoked(ledger[a], c)

LockedInv ==
    /\ CommitInv /\ OneRun
    /\ ClaimHolds /\ StillActive /\ PrivilegedNamed /\ ActorsRevoke

Locked == Serialized = TRUE /\ QuietEdits = TRUE
-----------------------------------------------------------------------------
LEMMA LockedInit == CommitInit => LockedInv
  <1> SUFFICES ASSUME CommitInit PROVE LockedInv
    OBVIOUS
  <1>1. \A w \in Writers : pc[w] \in Resting
    BY DEF CommitInit, Resting
  <1>2. OneRun /\ ClaimHolds /\ StillActive /\ PrivilegedNamed
    BY <1>1 DEF CommitInit, OneRun, ClaimHolds, StillActive, PrivilegedNamed,
                Writers, Resting
  <1>3. ActorsRevoke
    BY DEF ActorsRevoke, CommitInit, Seeds, NoLedger, SeedLedger,
           NoCertificates, MissingEntry
  <1> QED
    BY <1>2, <1>3, CommitInvInit DEF LockedInv

(* While one run is under way every other run rests, and a step of it      *)
(* starts none.                                                            *)
LEMMA OthersRest ==
    ASSUME OneRun, NEW w \in Writers, pc[w] \notin Resting, OnlyRun(w)
    PROVE  /\ OneRun'
           /\ \A v \in Writers : v # w =>
                 pc[v] \in Resting /\ pc'[v] \in Resting
  BY DEF OneRun, OnlyRun

(* A step of the one run, seen from the invariant: the decision it holds   *)
(* after the step must be true of the ledger after the step.               *)
LEMMA LockedFrame ==
    ASSUME LockedInv, CommitInv', NEW w \in Writers, OnlyRun(w),
           pc[w] \notin Resting, ActorsRevoke',
           w \in Issuers /\ pc'[w] \in {"sign", "put", "reload"} =>
              Accepted(ledger[job[w].app], job[w].repo)',
           w \in SelfRevokers /\ pc'[w] \in {"put", "reload"} =>
              ~IsRevoked(ledger[job[w].app], job[w].cert)',
           w \in PrivRevokers /\ pc'[w] \notin Resting =>
              job'[w].rev.actor # NoActor
    PROVE  LockedInv'
  <1>1. OneRun' /\ \A v \in Writers : v # w =>
                      pc[v] \in Resting /\ pc'[v] \in Resting
    BY OthersRest DEF LockedInv
  <1>2. ClaimHolds'
    BY <1>1 DEF ClaimHolds, Writers, Resting
  <1>3. StillActive'
    BY <1>1 DEF StillActive, Writers, Resting
  <1>4. PrivilegedNamed'
    BY <1>1 DEF PrivilegedNamed, Writers
  <1> QED
    BY <1>1, <1>2, <1>3, <1>4 DEF LockedInv

(* A write leaves an actor only on a revoked entry.                        *)
LEMMA WriteKeepsActors ==
    ASSUME LockedInv, NEW w \in Writers, Write(w)
    PROVE  ActorsRevoke'
  <1>1. \A a \in Apps, c \in Certs : ledger'[a].certs[c] =
           IF a = job[w].app /\ c = job[w].cert
           THEN IF w \in Issuers THEN ActiveEntry ELSE RevokedEntry(job[w].rev)
           ELSE ledger[a].certs[c]
    BY WriteStanding DEF LockedInv, CommitInv
  <1> QED
    BY <1>1 DEF LockedInv, ActorsRevoke, IsRevoked, ActiveEntry, RevokedEntry

LEMMA LockedWriterStep ==
    ASSUME LockedInv, NEW w \in Writers, WriterStep(w)
    PROVE  LockedInv'
  <1>0. /\ TypeInv /\ CommitInv /\ CommitInv' /\ OnlyRun(w)
        /\ pc[w] \notin Resting
    BY WriterStepKeepsInv, StepIsAlone
       DEF LockedInv, CommitInv, WriterStep, LoadIssue, LoadSelfRevoke,
           LoadPrivileged, Sign, Put, PutReplyLost, PutConflict, Reload, Fail,
           Write, Resting
  <1>1. CASE Write(w) /\ pc'[w] \in Resting
    BY <1>0, <1>1, WriteKeepsActors, LockedFrame DEF Resting
  <1>2. CASE LoadIssue(w) \/ LoadSelfRevoke(w) \/ LoadPrivileged(w)
    <2>1. ActorsRevoke'
      BY <1>2 DEF LockedInv, ActorsRevoke, IsRevoked, LoadIssue,
                  LoadSelfRevoke, LoadPrivileged
    <2>2. w \in Issuers /\ pc'[w] \in {"sign", "put", "reload"} =>
             Accepted(ledger[job[w].app], job[w].repo)'
      BY <1>0, <1>2, CommitAssumption
         DEF LoadIssue, LoadSelfRevoke, LoadPrivileged, Take, Stop, Accepted,
             Decide, TypeInv, CommitTypeOK
    <2>3. w \in SelfRevokers /\ pc'[w] \in {"put", "reload"} =>
             ~IsRevoked(ledger[job[w].app], job[w].cert)'
      BY <1>0, <1>2, CommitAssumption
         DEF LoadIssue, LoadSelfRevoke, LoadPrivileged, Take, Stop, IsRevoked,
             TypeInv, CommitTypeOK
    <2>4. w \in PrivRevokers /\ pc'[w] \notin Resting =>
             job'[w].rev.actor # NoActor
      BY <1>0, <1>2, CommitAssumption
         DEF LoadIssue, LoadSelfRevoke, LoadPrivileged, Take, Stop, Resting,
             LockedInv, PrivilegedNamed, TypeInv, CommitTypeOK
    <2> QED
      BY <1>0, <2>1, <2>2, <2>3, <2>4, LockedFrame
  <1>3. CASE /\ ledger' = ledger /\ job'[w].app = job[w].app
             /\ job'[w].repo = job[w].repo /\ job'[w].rev = job[w].rev
             /\ w \notin Issuers => job'[w].cert = job[w].cert
             /\ pc[w] \in {"sign", "put", "reload"}
             /\ w \notin Issuers => pc[w] \in {"put", "reload"}
    <2>1. ActorsRevoke'
      BY <1>3 DEF LockedInv, ActorsRevoke, IsRevoked
    <2>2. w \in Issuers => Accepted(ledger[job[w].app], job[w].repo)'
      BY <1>3 DEF LockedInv, ClaimHolds, Accepted, Decide
    <2>3. w \in SelfRevokers => ~IsRevoked(ledger[job[w].app], job[w].cert)'
      BY <1>3, CommitAssumption DEF LockedInv, StillActive, IsRevoked
    <2>4. w \in PrivRevokers => job'[w].rev.actor # NoActor
      BY <1>0, <1>3 DEF LockedInv, PrivilegedNamed
    <2> QED
      BY <1>0, <2>1, <2>2, <2>3, <2>4, LockedFrame
  <1>4. CASE ledger' = ledger /\ pc'[w] \in Resting
    <2>1. ActorsRevoke'
      BY <1>4 DEF LockedInv, ActorsRevoke, IsRevoked
    <2> QED
      BY <1>0, <1>4, <2>1, LockedFrame DEF Resting
  <1> QED
    <2>1. CASE \E c \in Certs : Sign(w, c)
      BY <1>0, <1>3, <2>1 DEF Sign, TypeInv, CommitTypeOK, Jobs
    <2>2. CASE Put(w) \/ PutReplyLost(w)
      BY <1>0, <1>1, <2>2 DEF Put, PutReplyLost, Stop, Resting, TypeInv, CommitTypeOK
    <2>3. CASE PutConflict(w)
      BY <1>0, <1>3, <2>3 DEF PutConflict, TypeInv, CommitTypeOK
    <2>4. CASE Reload(w)
      BY <1>0, <1>3, <1>4, <2>4 DEF Reload, Stop, Take, Resting, TypeInv, CommitTypeOK
    <2>5. CASE Fail(w)
      BY <1>0, <1>4, <2>5 DEF Fail, Stop, Resting, TypeInv, CommitTypeOK
    <2> QED
      BY <1>2, <2>1, <2>2, <2>3, <2>4, <2>5 DEF WriterStep

LEMMA LockedBegin ==
    ASSUME Locked, LockedInv, CommitInv', NEW w \in Writers, NEW j \in Jobs,
           Begin(w, j), w \in PrivRevokers => j.rev.actor # NoActor
    PROVE  LockedInv'
  <1>1. /\ \A v \in Writers : pc[v] \in Resting
        /\ \A v \in Writers : v # w => pc'[v] = pc[v]
        /\ ledger' = ledger /\ pc'[w] = "load" /\ job'[w] = j
    BY DEF Locked, Begin, GroupFree, LockedInv, CommitInv, TypeInv, CommitTypeOK
  <1>2. OneRun'
    BY <1>1 DEF OneRun
  <1>3. ClaimHolds' /\ StillActive'
    BY <1>1 DEF ClaimHolds, StillActive, Writers, Resting
  <1>4. PrivilegedNamed'
    BY <1>1 DEF PrivilegedNamed, Writers
  <1>5. ActorsRevoke'
    BY <1>1 DEF LockedInv, ActorsRevoke, IsRevoked
  <1> QED
    BY <1>2, <1>3, <1>4, <1>5 DEF LockedInv

LEMMA LockedEdit ==
    ASSUME Locked, LockedInv, CommitInv', NEW a \in Apps, Edit(a), ActorsRevoke'
    PROVE  LockedInv'
  <1>1. (\A v \in Writers : pc[v] \in Resting) /\ pc' = pc
    BY DEF Locked, Edit
  <1>2. OneRun' /\ ClaimHolds' /\ StillActive' /\ PrivilegedNamed'
    BY <1>1 DEF OneRun, ClaimHolds, StillActive, PrivilegedNamed, Writers, Resting
  <1> QED
    BY <1>2 DEF LockedInv

LEMMA LockedNext ==
    Locked /\ LockedInv /\ [CommitNext]_commitVars => LockedInv'
  <1> SUFFICES ASSUME Locked, LockedInv, [CommitNext]_commitVars PROVE LockedInv'
    OBVIOUS
  <1>0. TypeInv /\ CommitInv /\ CommitInv'
    BY CommitInvNext DEF LockedInv, CommitInv
  <1>1. ASSUME NEW w \in Writers, WriterStep(w) PROVE LockedInv'
    BY <1>1, LockedWriterStep
  <1>2. ASSUME NEW w \in Issuers, NEW a \in Apps, NEW r \in Repos,
               BeginIssue(w, a, r)
        PROVE  LockedInv'
    <2>1. [NoJob EXCEPT !.app = a, !.repo = r] \in Jobs
      BY NoJobType DEF Jobs
    <2>2. w \in Writers /\ w \notin PrivRevokers
      BY CommitAssumption DEF Writers
    <2> QED
      BY <1>0, <1>2, <2>1, <2>2, LockedBegin DEF BeginIssue
  <1>3. ASSUME NEW w \in SelfRevokers, NEW a \in Apps, NEW c \in Certs,
               BeginSelfRevoke(w, a, c)
        PROVE  LockedInv'
    <2>1. [NoJob EXCEPT !.app = a, !.cert = c] \in Jobs
      BY NoJobType DEF Jobs
    <2>2. w \in Writers /\ w \notin PrivRevokers
      BY CommitAssumption DEF Writers
    <2> QED
      BY <1>0, <1>3, <2>1, <2>2, LockedBegin DEF BeginSelfRevoke
  <1>4. ASSUME NEW w \in PrivRevokers, NEW a \in Apps, NEW c \in Certs,
               NEW rev \in Revocations, BeginPrivileged(w, a, c, rev)
        PROVE  LockedInv'
    <2> DEFINE j == [NoJob EXCEPT !.app = a, !.cert = c, !.rev = rev]
    <2>1. j \in Jobs /\ j.rev = rev
      BY NoJobType DEF Jobs
    <2>2. w \in Writers
      BY DEF Writers
    <2>3. Begin(w, j) /\ rev.actor # NoActor
      BY <1>4 DEF BeginPrivileged
    <2> HIDE DEF j
    <2> QED
      BY <1>0, <2>1, <2>2, <2>3, LockedBegin
  <1>5. ASSUME NEW b \in Apps, NEW r \in Repos, NEW m \in BOOLEAN,
               Reassign(b, r, m)
        PROVE  LockedInv'
    <2>1. \A a \in Apps : ledger'[a].certs = ledger[a].certs
      BY <1>0, <1>5, ReassignStanding
    <2>2. ActorsRevoke'
      BY <2>1 DEF LockedInv, ActorsRevoke, IsRevoked
    <2> QED
      BY <1>0, <1>5, <2>2, LockedEdit DEF Reassign
  <1>6. ASSUME NEW b \in Apps, NEW d \in Certs, NEW rev \in Revocations,
               RevokeByHand(b, d, rev)
        PROVE  LockedInv'
    <2>1. \A a \in Apps, c \in Certs : ledger'[a].certs[c] =
             IF a = b /\ c = d THEN RevokedEntry(rev) ELSE ledger[a].certs[c]
      BY <1>0, <1>6, RevokeByHandStanding
    <2>2. ActorsRevoke'
      BY <2>1 DEF LockedInv, ActorsRevoke, IsRevoked, RevokedEntry
    <2> QED
      BY <1>0, <1>6, <2>2, LockedEdit DEF RevokeByHand
  <1>7. CASE UNCHANGED commitVars
    BY <1>0, <1>7 DEF commitVars, LockedInv, OneRun, ClaimHolds, StillActive,
       PrivilegedNamed, ActorsRevoke, Accepted, Decide, IsRevoked
  <1> QED
    BY <1>1, <1>2, <1>3, <1>4, <1>5, <1>6, <1>7 DEF CommitNext

LEMMA LockedInvHolds == Locked => (CommitSpec => []LockedInv)
  <1> SUFFICES ASSUME Locked PROVE CommitSpec => []LockedInv
    OBVIOUS
  <1>1. LockedInv /\ [CommitNext]_commitVars => LockedInv'
    BY LockedNext
  <1> QED
    BY <1>1, LockedInit, PTL DEF CommitSpec
-----------------------------------------------------------------------------
(* A step writes a ledger file, edits one by hand, or leaves them alone.   *)
LEMMA LedgerMoves ==
    ASSUME [CommitNext]_commitVars
    PROVE  \/ \E w \in Writers : Write(w)
           \/ \E b \in Apps, r \in Repos, m \in BOOLEAN : Reassign(b, r, m)
           \/ \E b \in Apps, d \in Certs, rev \in Revocations :
                 RevokeByHand(b, d, rev)
           \/ ledger' = ledger
  BY DEF CommitNext, commitVars, WriterStep, LoadIssue, LoadSelfRevoke,
         LoadPrivileged, Sign, Put, PutReplyLost, PutConflict, Reload, Fail,
         BeginIssue, BeginSelfRevoke, BeginPrivileged, Begin

(* No step of the protocol, an edit by hand included, loses anything.      *)
LEMMA NextLosesNothing ==
    ASSUME CommitInv, [CommitNext]_commitVars
    PROVE  CommitInv' /\ NothingLost
  <1>0. TypeInv
    BY DEF CommitInv
  <1>1. ASSUME NEW w \in Writers, Write(w)
        PROVE  NothingLost
    BY <1>1, WriteLosesNothing
  <1>2. ASSUME NEW b \in Apps, NEW r \in Repos, NEW m \in BOOLEAN,
               Reassign(b, r, m)
        PROVE  NothingLost
    <2>1. \A a \in Apps : ledger'[a].certs = ledger[a].certs
      BY <1>0, <1>2, ReassignStanding
    <2> QED
      BY <2>1 DEF NothingLost, Find, IsRevoked
  <1>3. ASSUME NEW b \in Apps, NEW d \in Certs, NEW rev \in Revocations,
               RevokeByHand(b, d, rev)
        PROVE  NothingLost
    <2>1. \A a \in Apps, c \in Certs : ledger'[a].certs[c] =
             IF a = b /\ c = d THEN RevokedEntry(rev) ELSE ledger[a].certs[c]
      BY <1>0, <1>3, RevokeByHandStanding
    <2> QED
      BY <2>1 DEF NothingLost, Find, IsRevoked, RevokedEntry
  <1>4. ASSUME ledger' = ledger
        PROVE  NothingLost
    BY <1>4 DEF NothingLost, Find, IsRevoked
  <1>5. NothingLost
    BY <1>1, <1>2, <1>3, <1>4, LedgerMoves
  <1> QED
    BY <1>5, CommitInvNext

LEMMA FirstComeStep ==
    ASSUME LockedInv, [CommitNext]_commitVars, NEW a \in Apps, NEW c \in Certs,
           ~Find(ledger[a], c), Find(ledger'[a], c)
    PROVE  ledger'[a].owner = grant[c] /\ ~ledger'[a].reserved
  <1>0. CommitInv /\ TypeInv
    BY DEF LockedInv, CommitInv
  <1>1. CASE \E w \in Writers : Write(w)
    <2>1. PICK w \in Writers : Write(w)
      BY <1>1
    <2>2. ledger'[a].certs[c] =
             IF a = job[w].app /\ c = job[w].cert
             THEN IF w \in Issuers THEN ActiveEntry ELSE RevokedEntry(job[w].rev)
             ELSE ledger[a].certs[c]
      BY <1>0, <2>1, WriteStanding
    <2>3. a = job[w].app /\ c = job[w].cert
      BY <2>2 DEF Find
    <2>4. w \in Issuers
      BY <1>0, <2>1, <2>3 DEF CommitInv, RevokersFound, Write
    <2>5. grant[c] = job[w].repo
      BY <1>0, <2>1, <2>3, <2>4 DEF CommitInv, LeavesFresh, Carries, Write
    <2>6. Accepted(ledger[a], job[w].repo)
      BY <2>1, <2>3, <2>4 DEF LockedInv, ClaimHolds, Write
    <2>7. ledger'[a] = AppendCert(ledger[a], job[w].repo, c)
      BY <1>0, <2>1, <2>3, <2>4 DEF Write, Content, TypeInv, CommitTypeOK
    <2> QED
      BY <2>5, <2>6, <2>7 DEF Accepted, Decide, AppendCert, NoLedger
  <1>2. ASSUME NEW b \in Apps, NEW r \in Repos, NEW m \in BOOLEAN,
               Reassign(b, r, m)
        PROVE  FALSE
    <2>1. ledger'[a].certs = ledger[a].certs
      BY <1>0, <1>2, ReassignStanding
    <2> QED
      BY <2>1 DEF Find
  <1>3. ASSUME NEW b \in Apps, NEW d \in Certs, NEW rev \in Revocations,
               RevokeByHand(b, d, rev)
        PROVE  FALSE
    <2>1. ledger'[a].certs[c] =
             IF a = b /\ c = d THEN RevokedEntry(rev) ELSE ledger[a].certs[c]
      BY <1>0, <1>3, RevokeByHandStanding
    <2> QED
      BY <1>3, <2>1 DEF Find, RevokeByHand
  <1> QED
    BY <1>1, <1>2, <1>3, LedgerMoves

(* First come, first served: when the concurrency group serializes the     *)
(* writers and nobody edits a file during a run, an entry appears only in  *)
(* a ledger bound to the repo the certificate was granted to.              *)
THEOREM FirstComeCorrect == Locked => (CommitSpec => FirstComeFirstServed)
  <1> SUFFICES ASSUME Locked PROVE CommitSpec => FirstComeFirstServed
    OBVIOUS
  <1>1. LockedInv /\ [CommitNext]_commitVars =>
           [\A a \in Apps, c \in Certs :
               ~Find(ledger[a], c) /\ Find(ledger'[a], c)
               => ledger'[a].owner = grant[c] /\ ~ledger'[a].reserved]_commitVars
    BY FirstComeStep
  <1>2. CommitSpec => []LockedInv
    BY LockedInvHolds
  <1> QED
    BY <1>1, <1>2, PTL DEF CommitSpec, FirstComeFirstServed

LEMMA AuditStep ==
    ASSUME LockedInv, [CommitNext]_commitVars, NEW a \in Apps, NEW c \in Certs,
           ledger[a].certs[c].actor # NoActor
    PROVE  ledger'[a].certs[c].actor # NoActor
  <1>0. CommitInv /\ TypeInv /\ IsRevoked(ledger[a], c)
    BY DEF LockedInv, CommitInv, ActorsRevoke
  <1>1. CASE \E w \in Writers : Write(w)
    <2>1. PICK w \in Writers : Write(w)
      BY <1>1
    <2>2. ledger'[a].certs[c] =
             IF a = job[w].app /\ c = job[w].cert
             THEN IF w \in Issuers THEN ActiveEntry ELSE RevokedEntry(job[w].rev)
             ELSE ledger[a].certs[c]
      BY <1>0, <2>1, WriteStanding
    <2>3. CASE a = job[w].app /\ c = job[w].cert
      <3>1. w \notin Issuers
        BY <1>0, <2>1, <2>3
           DEF CommitInv, LeavesFresh, Carries, Write, Find, IsRevoked
      <3>2. w \notin SelfRevokers
        BY <1>0, <2>1, <2>3 DEF LockedInv, StillActive, Write
      <3>3. job[w].rev.actor # NoActor
        BY <2>1, <3>1, <3>2
           DEF Writers, LockedInv, PrivilegedNamed, Write, Resting
      <3> QED
        BY <2>2, <2>3, <3>1, <3>3 DEF RevokedEntry
    <2> QED
      BY <2>2, <2>3
  <1>2. ASSUME NEW b \in Apps, NEW r \in Repos, NEW m \in BOOLEAN,
               Reassign(b, r, m)
        PROVE  ledger'[a].certs[c].actor # NoActor
    <2>1. ledger'[a].certs = ledger[a].certs
      BY <1>0, <1>2, ReassignStanding
    <2> QED
      BY <2>1
  <1>3. ASSUME NEW b \in Apps, NEW d \in Certs, NEW rev \in Revocations,
               RevokeByHand(b, d, rev)
        PROVE  ledger'[a].certs[c].actor # NoActor
    <2>1. ledger'[a].certs[c] =
             IF a = b /\ c = d THEN RevokedEntry(rev) ELSE ledger[a].certs[c]
      BY <1>0, <1>3, RevokeByHandStanding
    <2> QED
      BY <1>3, <2>1 DEF RevokeByHand, RevokedEntry
  <1> QED
    BY <1>1, <1>2, <1>3, LedgerMoves

(* Under the same conditions no later write erases the actor of an         *)
(* authoritative revocation.                                               *)
THEOREM AuditTrailCorrect == Locked => (CommitSpec => AuditTrailKept)
  <1> SUFFICES ASSUME Locked PROVE CommitSpec => AuditTrailKept
    OBVIOUS
  <1>1. LockedInv /\ [CommitNext]_commitVars =>
           [\A a \in Apps, c \in Certs :
               ledger[a].certs[c].actor # NoActor
               => ledger'[a].certs[c].actor # NoActor]_commitVars
    BY AuditStep
  <1>2. CommitSpec => []LockedInv
    BY LockedInvHolds
  <1> QED
    BY <1>1, <1>2, PTL DEF CommitSpec, AuditTrailKept
-----------------------------------------------------------------------------
(* A run's calls are bounded.                                              *)
LEMMA LastCall ==
    ASSUME TypeInv, NEW w \in Writers, NEW outcome \in Resting,
           Stop(w, outcome), pc[w] \notin Resting
    PROVE  CallsLeft(w)' < CallsLeft(w)
  <1>1. /\ pc[w] \in {"load", "sign", "put", "reload"}
        /\ tries[w] \in 0..(MaxRetries - 1)
    BY DEF TypeInv, CommitTypeOK, Phases
  <1>2. pc'[w] = outcome
    BY DEF TypeInv, CommitTypeOK, Stop
  <1>3. CallsLeft(w)' = 0
    BY <1>2 DEF CallsLeft, Resting
  <1>4. CallsLeft(w) \in Nat /\ CallsLeft(w) > 0
    BY <1>1, CommitAssumption DEF CallsLeft
  <1> QED
    BY <1>3, <1>4

LEMMA NextCall ==
    ASSUME TypeInv, NEW w \in Writers, NEW phase \in {"sign", "put"},
           NEW n \in 0..(MaxRetries - 1), Take(w, phase, n),
           \/ pc[w] = "load" /\ n = 0
           \/ pc[w] = "reload" /\ phase = "put" /\ n = tries[w] + 1
    PROVE  CallsLeft(w)' < CallsLeft(w)
  <1>1. tries[w] \in 0..(MaxRetries - 1)
    BY DEF TypeInv, CommitTypeOK
  <1>2. pc'[w] = phase /\ tries'[w] = n
    BY DEF TypeInv, CommitTypeOK, Take
  <1> QED
    BY <1>1, <1>2, CommitAssumption DEF CallsLeft

LEMMA OwnCall ==
    ASSUME TypeInv, NEW w \in Writers, WriterStep(w)
    PROVE  CallsLeft(w)' < CallsLeft(w)
  <1>0. /\ pc \in [Writers -> Phases] /\ tries[w] \in 0..(MaxRetries - 1)
        /\ 0 \in 0..(MaxRetries - 1)
    BY CommitAssumption DEF TypeInv, CommitTypeOK
  <1>1. CASE LoadIssue(w)
    BY <1>0, <1>1, LastCall, NextCall DEF LoadIssue, Resting
  <1>2. CASE LoadSelfRevoke(w)
    BY <1>0, <1>2, LastCall, NextCall DEF LoadSelfRevoke, Resting
  <1>3. CASE LoadPrivileged(w)
    BY <1>0, <1>3, LastCall, NextCall DEF LoadPrivileged, Resting
  <1>4. CASE \E c \in Certs : Sign(w, c)
    <2>1. pc[w] = "sign" /\ pc'[w] = "put" /\ tries' = tries
      BY <1>0, <1>4 DEF Sign
    <2> QED
      BY <1>0, <2>1, CommitAssumption DEF CallsLeft
  <1>5. CASE Put(w) \/ PutReplyLost(w)
    BY <1>5, LastCall DEF Put, PutReplyLost, Write, Resting
  <1>6. CASE PutConflict(w)
    <2>1. pc[w] = "put" /\ pc'[w] = "reload" /\ tries' = tries
      BY <1>0, <1>6 DEF PutConflict
    <2> QED
      BY <1>0, <2>1, CommitAssumption DEF CallsLeft
  <1>7. CASE Reload(w)
    <2>1. CASE tries[w] + 1 = MaxRetries \/ Vanished(w)
      BY <1>7, <2>1, LastCall DEF Reload, Resting
    <2>2. CASE ~(tries[w] + 1 = MaxRetries \/ Vanished(w))
      <3>1. tries[w] + 1 \in 0..(MaxRetries - 1)
        BY <1>0, <2>2, CommitAssumption
      <3>2. pc[w] = "reload" /\ Take(w, "put", tries[w] + 1)
        BY <1>7, <2>2 DEF Reload
      <3> QED
        BY <3>1, <3>2, NextCall
    <2> QED
      BY <2>1, <2>2
  <1>8. CASE Fail(w)
    BY <1>8, LastCall DEF Fail, Resting
  <1> QED
    BY <1>1, <1>2, <1>3, <1>4, <1>5, <1>6, <1>7, <1>8 DEF WriterStep

(* A step of one writer leaves the others where they are.                  *)
LEMMA OthersStay ==
    ASSUME TypeInv, NEW v \in Writers, NEW w \in Writers, v # w,
           WriterStep(v) \/ \E j \in Jobs : Begin(v, j)
    PROVE  UNCHANGED <<pc[w], job[w], base[w], tries[w]>>
  BY DEF TypeInv, CommitTypeOK, WriterStep, Begin, LoadIssue, LoadSelfRevoke,
         LoadPrivileged, Sign, Put, PutReplyLost, PutConflict, Reload, Fail,
         Take, Stop

LEMMA CallsStep ==
    ASSUME TypeInv, [CommitNext]_commitVars, NEW w \in Writers, pc[w] \notin Resting
    PROVE  \/ CallsLeft(w)' < CallsLeft(w)
           \/ UNCHANGED <<pc[w], job[w], base[w], tries[w]>>
  <1>1. ASSUME NEW v \in Writers, WriterStep(v)
        PROVE  \/ CallsLeft(w)' < CallsLeft(w)
               \/ UNCHANGED <<pc[w], job[w], base[w], tries[w]>>
    BY <1>1, OwnCall, OthersStay
  <1>2. ASSUME NEW v \in Writers, NEW j \in Jobs, Begin(v, j)
        PROVE  UNCHANGED <<pc[w], job[w], base[w], tries[w]>>
    BY <1>2, OthersStay DEF Begin
  <1>3. CASE \/ \E v \in Issuers, a \in Apps, r \in Repos : BeginIssue(v, a, r)
             \/ \E v \in SelfRevokers, a \in Apps, c \in Certs :
                   BeginSelfRevoke(v, a, c)
             \/ \E v \in PrivRevokers, a \in Apps, c \in Certs, rev \in Revocations :
                   BeginPrivileged(v, a, c, rev)
    <2>1. \E v \in Writers, j \in Jobs : Begin(v, j)
      BY <1>3, NoJobType DEF BeginIssue, BeginSelfRevoke, BeginPrivileged, Writers, Jobs
    <2> QED
      BY <1>2, <2>1
  <1>4. CASE \/ \E a \in Apps, r \in Repos, b \in BOOLEAN : Reassign(a, r, b)
             \/ \E a \in Apps, c \in Certs, rev \in Revocations :
                   RevokeByHand(a, c, rev)
    BY <1>4 DEF Reassign, RevokeByHand, Edit
  <1>5. CASE UNCHANGED commitVars
    BY <1>5 DEF commitVars
  <1> QED
    BY <1>1, <1>3, <1>4, <1>5 DEF CommitNext

(* The safety half of WriterFinishes, for any number of retries: what the  *)
(* fairness of the runs then does is count down.                           *)
THEOREM EachCallCountsCorrect == CommitSpec => EachCallCounts
  <1>1. CommitInv /\ [CommitNext]_commitVars =>
          [\A w \in Writers : pc[w] \notin Resting =>
              \/ CallsLeft(w)' < CallsLeft(w)
              \/ UNCHANGED <<pc[w], job[w], base[w], tries[w]>>]_commitVars
    BY CallsStep DEF CommitInv
  <1> QED
    BY <1>1, CommitInvHolds, PTL DEF CommitSpec, EachCallCounts
=============================================================================
