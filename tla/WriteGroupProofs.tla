-------------------------- MODULE WriteGroupProofs --------------------------
(***************************************************************************)
(* The queue of concurrency group ledger-write is a lock on the ledger,    *)
(* and the ledger writes are the single steps that the model of the CRL    *)
(* takes them for: what is proved of either part holds of the whole.       *)
(*                                                                         *)
(* The argument: only the workflow whose run is in progress has a process  *)
(* at work, for a process starts in its own run, the group gives the place *)
(* of a run away only when that run is over, and it is over only when its  *)
(* process has ended.                                                      *)
(***************************************************************************)
EXTENDS WriteGroup, LedgerCommitProofs

Lock == INSTANCE LedgerCommitProofs WITH Serialized <- TRUE

Queue == INSTANCE CrlProofs WITH ledger <- Bare

-----------------------------------------------------------------------------
(* The inductive invariant.                                                *)

(* A process at work belongs to the run in progress.                       *)
AtWork ==
    \A w \in Writers : pc[w] \notin Resting =>
        running.kind = w /\ running.step = "start" /\ asked

(* What was never entered has no revocation date and no actor.             *)
Blank ==
    \A a \in Apps, c \in Certs :
        ~Find(ledger[a], c) => ledger[a].certs[c] = MissingEntry

(* The bots revoke hard (revoke.Process).                                  *)
BotsRevokeHard ==
    \A w \in SelfRevokers : pc[w] \notin Resting => job[w].rev = HardRevoke

GroupInv ==
    CommitInv /\ AtWork /\ asked \in BOOLEAN /\ Blank /\ BotsRevokeHard

-----------------------------------------------------------------------------
(* Every step is one of the ledger protocol, or leaves it alone.           *)
LEMMA CommitMoves ==
    ASSUME [Next]_vars
    PROVE  [CommitNext]_commitVars
<1>1. ASSUME NEW w \in Writers, TakeUp(w)
      PROVE  CommitNext
  <2>1. CASE \E a \in Apps, repo \in Repos : BeginIssue(w, a, repo)
    BY <2>1 DEF BeginIssue, CommitNext
  <2>2. CASE \E a \in Apps, c \in Certs : BeginSelfRevoke(w, a, c)
    BY <2>2 DEF BeginSelfRevoke, CommitNext
  <2>3. CASE \E a \in Apps, c \in Certs, rev \in Revocations :
                BeginPrivileged(w, a, c, rev)
    BY <2>3 DEF BeginPrivileged, CommitNext
  <2> QED
    BY <1>1, <2>1, <2>2, <2>3 DEF TakeUp
<1>2. ASSUME NEW w \in Writers, Read(w) \/ Call(w) \/ Commit(w)
      PROVE  CommitNext
  BY <1>2 DEF Read, Call, Commit, WriterStep, CommitNext
<1>3. CASE EndRun \/ Elsewhere \/ UNCHANGED vars
  BY <1>3 DEF EndRun, Elsewhere, vars
<1>4. CASE \/ \E a \in Apps, repo \in Repos, b \in BOOLEAN :
                 ReassignFile(a, repo, b)
           \/ \E a \in Apps, c \in Certs, rev \in Revocations :
                 RevokeInFile(a, c, rev)
  BY <1>4 DEF ReassignFile, RevokeInFile, CommitNext
<1> QED
  BY <1>1, <1>2, <1>3, <1>4 DEF Next

(* The run in progress gives its place away only when its process is over. *)
LEMMA ElsewhereSparesRun ==
    ASSUME Elsewhere, running.kind \in {"issuer", "revocation", "privileged"}
    PROVE  running' = running
<1>1. running # Site!NoRun /\ running.kind # "crl"
  BY DEF Site!NoRun
<1>2. \A r, event : Site!Join(r, event) => running' = running
  BY <1>1 DEF Site!Join
<1>3. CASE \/ \E kind \in Site!Kinds : Site!Trigger(kind)
           \/ Site!Completed \/ \E at \in past : Site!RerunCrl(at)
  BY <1>2, <1>3 DEF Site!Trigger, Site!Completed, Site!RerunCrl
<1>4. CASE Site!CrlStep \/ Site!CrlRunFails
  BY <1>1, <1>4 DEF Site!CrlStep, Site!CrlRunFails, Site!Publish, Site!Generate
<1>5. CASE \/ Site!DeployDone \/ Site!DeployFails \/ Site!DeployHangs
           \/ Site!DeployHead \/ \E k \in hist : Site!RerunDeploy(k)
           \/ \E a \in Apps : Site!Spoil(a) \/ Site!Repair(a)
  BY <1>5 DEF Site!DeployDone, Site!DeployFails, Site!DeployHangs,
     Site!DeployHead, Site!RerunDeploy, Site!Spoil, Site!Repair, Site!Edit,
     Site!groupVars
<1> QED
  BY <1>3, <1>4, <1>5 DEF Elsewhere

LEMMA AtWorkKept ==
    ASSUME GroupInv, [Next]_vars
    PROVE  AtWork'
<1>0. /\ TypeInv
      /\ \A w \in Writers : w \in {"issuer", "revocation", "privileged"}
  BY GroupAssumption DEF GroupInv, CommitInv, Writers
<1>1. ASSUME NEW w \in Writers, TakeUp(w)
      PROVE  AtWork'
  <2>1. asked' /\ running' = running
        /\ running.kind = w /\ running.step = "start"
    BY <1>1 DEF TakeUp, siteVars
  <2>2. \E j : Begin(w, j)
    BY <1>1 DEF TakeUp, BeginIssue, BeginSelfRevoke, BeginPrivileged
  <2>3. \A v \in Writers : v # w => pc'[v] = pc[v]
    BY <1>0, <2>2 DEF Begin, TypeInv, CommitTypeOK
  <2> QED
    BY <2>1, <2>3 DEF GroupInv, AtWork
<1>2. ASSUME NEW w \in Writers, Read(w) \/ Call(w) \/ Commit(w)
      PROVE  AtWork'
  <2>1. WriterStep(w) /\ asked' = asked
    BY <1>2 DEF Read, Call, Commit, WriterStep
  <2>2. OnlyRun(w) /\ pc[w] \notin Resting
    BY <1>0, <2>1, StepIsAlone
       DEF WriterStep, LoadIssue, LoadSelfRevoke, LoadPrivileged, Sign, Put,
           PutReplyLost, Write, PutConflict, Reload, Fail, Resting
  <2>3. \A v \in Writers : pc'[v] \notin Resting => v = w
    BY <2>2 DEF OnlyRun, GroupInv, AtWork
  <2>4. CASE running' = running
    BY <2>1, <2>2, <2>3, <2>4 DEF GroupInv, AtWork
  <2>5. CASE Commit(w)
    <3>1. pc'[w] \in Resting
      BY <1>0, <2>5 DEF Commit, Put, PutReplyLost, Stop, Resting, TypeInv,
                        CommitTypeOK
    <3> QED
      BY <2>3, <3>1 DEF AtWork
  <2> QED
    BY <1>2, <2>4, <2>5 DEF Read, Call, siteVars
<1>3. CASE EndRun
  <2>1. \A w \in Writers : pc[w] \in Resting
    BY <1>3 DEF EndRun, GroupInv, AtWork
  <2> QED
    BY <1>3, <2>1 DEF EndRun, commitVars, AtWork
<1>4. CASE Elsewhere
  <2>1. pc' = pc /\ asked' = asked
    BY <1>4 DEF Elsewhere, commitVars
  <2>2. ASSUME NEW w \in Writers, pc[w] \notin Resting
        PROVE  running' = running
    BY <1>0, <1>4, <2>2, ElsewhereSparesRun DEF GroupInv, AtWork
  <2> QED
    BY <2>1, <2>2 DEF GroupInv, AtWork
<1>5. CASE \/ \E a \in Apps, repo \in Repos, b \in BOOLEAN :
                 ReassignFile(a, repo, b)
           \/ \E a \in Apps, c \in Certs, rev \in Revocations :
                 RevokeInFile(a, c, rev)
           \/ UNCHANGED vars
  <2>1. UNCHANGED <<pc, running, asked>>
    BY <1>5 DEF ReassignFile, RevokeInFile, Reassign, RevokeByHand,
       Edit, siteVars, vars, commitVars
  <2> QED
    BY <2>1 DEF GroupInv, AtWork
<1> QED
  BY <1>1, <1>2, <1>3, <1>4, <1>5 DEF Next

LEMMA BlankKept ==
    ASSUME GroupInv, [Next]_vars
    PROVE  Blank'
<1>0. TypeInv /\ [CommitNext]_commitVars
  BY CommitMoves DEF GroupInv, CommitInv
<1>1. ASSUME NEW w \in Writers, Write(w)
      PROVE  Blank'
  <2>1. \A a \in Apps, c \in Certs : ledger'[a].certs[c] =
           IF a = job[w].app /\ c = job[w].cert
           THEN IF w \in Issuers THEN ActiveEntry ELSE RevokedEntry(job[w].rev)
           ELSE ledger[a].certs[c]
    BY <1>0, <1>1, WriteStanding
  <2> QED
    BY <2>1 DEF GroupInv, Blank, Find, ActiveEntry, RevokedEntry
<1>2. ASSUME NEW b \in Apps, NEW r \in Repos, NEW m \in BOOLEAN,
             Reassign(b, r, m)
      PROVE  Blank'
  <2>1. \A a \in Apps : ledger'[a].certs = ledger[a].certs
    BY <1>0, <1>2, ReassignStanding
  <2> QED
    BY <2>1 DEF GroupInv, Blank, Find
<1>3. ASSUME NEW b \in Apps, NEW d \in Certs, NEW rev \in Revocations,
             RevokeByHand(b, d, rev)
      PROVE  Blank'
  <2>1. \A a \in Apps, c \in Certs : ledger'[a].certs[c] =
           IF a = b /\ c = d THEN RevokedEntry(rev) ELSE ledger[a].certs[c]
    BY <1>0, <1>3, RevokeByHandStanding
  <2> QED
    BY <2>1 DEF GroupInv, Blank, Find, RevokedEntry
<1>4. ASSUME ledger' = ledger
      PROVE  Blank'
  BY <1>4 DEF GroupInv, Blank, Find
<1> QED
  BY <1>0, <1>1, <1>2, <1>3, <1>4, LedgerMoves

LEMMA BotsRevokeHardKept ==
    ASSUME GroupInv, [Next]_vars
    PROVE  BotsRevokeHard'
<1>0. TypeInv /\ [CommitNext]_commitVars
  BY CommitMoves DEF GroupInv, CommitInv
<1>1. ASSUME NEW w \in Writers, WriterStep(w)
      PROVE  BotsRevokeHard'
  <2>1. OnlyRun(w)
    BY <1>0, <1>1, StepIsAlone
  <2>2. w \in SelfRevokers /\ pc'[w] \notin Resting =>
           pc[w] \notin Resting /\ job'[w] = job[w]
    BY <1>0, <1>1, CommitAssumption
       DEF WriterStep, LoadIssue, LoadSelfRevoke, LoadPrivileged, Sign, Put,
           PutReplyLost, Write, PutConflict, Reload, Fail, Take, Stop, Resting,
           TypeInv, CommitTypeOK
  <2> QED
    BY <2>1, <2>2 DEF GroupInv, BotsRevokeHard, OnlyRun, Writers
<1>2. ASSUME NEW w \in Writers, NEW j \in Jobs, Begin(w, j),
             w \in SelfRevokers => j.rev = HardRevoke
      PROVE  BotsRevokeHard'
  <2>1. OnlyRun(w) /\ job'[w] = j
    BY <1>0, <1>2, StepIsAlone DEF Begin, TypeInv, CommitTypeOK
  <2> QED
    BY <1>2, <2>1 DEF GroupInv, BotsRevokeHard, OnlyRun, Writers
<1>3. ASSUME NEW w \in Issuers, NEW a \in Apps, NEW r \in Repos,
             BeginIssue(w, a, r)
      PROVE  BotsRevokeHard'
  <2>1. [NoJob EXCEPT !.app = a, !.repo = r] \in Jobs
    BY NoJobType DEF Jobs
  <2>2. w \in Writers /\ w \notin SelfRevokers
    BY CommitAssumption DEF Writers
  <2> QED
    BY <1>2, <1>3, <2>1, <2>2 DEF BeginIssue
<1>4. ASSUME NEW w \in SelfRevokers, NEW a \in Apps, NEW c \in Certs,
             BeginSelfRevoke(w, a, c)
      PROVE  BotsRevokeHard'
  <2> DEFINE j == [NoJob EXCEPT !.app = a, !.cert = c]
  <2>1. j \in Jobs /\ j.rev = HardRevoke
    BY NoJobType DEF Jobs, NoJob
  <2>2. w \in Writers /\ Begin(w, j)
    BY <1>4 DEF Writers, BeginSelfRevoke
  <2> QED
    BY <1>2, <2>1, <2>2
<1>5. ASSUME NEW w \in PrivRevokers, NEW a \in Apps, NEW c \in Certs,
             NEW rev \in Revocations, BeginPrivileged(w, a, c, rev)
      PROVE  BotsRevokeHard'
  <2>1. [NoJob EXCEPT !.app = a, !.cert = c, !.rev = rev] \in Jobs
    BY NoJobType DEF Jobs
  <2>2. w \in Writers /\ w \notin SelfRevokers
    BY CommitAssumption DEF Writers
  <2> QED
    BY <1>2, <1>5, <2>1, <2>2 DEF BeginPrivileged
<1>6. ASSUME UNCHANGED <<pc, job>>
      PROVE  BotsRevokeHard'
  BY <1>6 DEF GroupInv, BotsRevokeHard
<1> QED
  BY <1>0, <1>1, <1>3, <1>4, <1>5, <1>6
     DEF CommitNext, commitVars, Reassign, RevokeByHand, Edit

LEMMA AskedKept ==
    ASSUME asked \in BOOLEAN, [Next]_vars
    PROVE  asked' \in BOOLEAN
BY DEF Next, vars, TakeUp, Read, Call, Commit, EndRun, Elsewhere, ReassignFile,
   RevokeInFile

LEMMA GroupInvInit == Init => GroupInv
<1>1. Init => CommitInv
  BY CommitInvInit DEF Init
<1>2. Init => AtWork /\ BotsRevokeHard /\ asked \in BOOLEAN
  BY DEF Init, CommitInit, AtWork, BotsRevokeHard, Resting, Writers
<1>3. Init => Blank
  BY DEF Init, CommitInit, Seeds, Blank, NoLedger, SeedLedger, NoCertificates
<1> QED
  BY <1>1, <1>2, <1>3 DEF GroupInv

LEMMA GroupInvNext == GroupInv /\ [Next]_vars => GroupInv'
<1>1. GroupInv /\ [Next]_vars => CommitInv'
  BY CommitMoves, CommitInvNext DEF GroupInv
<1> QED
  BY <1>1, AtWorkKept, AskedKept, BlankKept, BotsRevokeHardKept
     DEF GroupInv

LEMMA GroupInvHolds == Spec => []GroupInv
  BY GroupInvInit, GroupInvNext, PTL DEF Spec

-----------------------------------------------------------------------------
(* The ledger protocol does not tell whether it is looked at with a lock   *)
(* or without, but for the beginning of a run.                             *)
LEMMA SameSteps ==
    ASSUME NEW w
    PROVE  Guarded!WriterStep(w) <=> WriterStep(w)
BY DEF Guarded!WriterStep, WriterStep, Guarded!LoadIssue, LoadIssue,
   Guarded!LoadSelfRevoke, LoadSelfRevoke, Guarded!LoadPrivileged,
   LoadPrivileged, Guarded!Sign, Sign, Guarded!Put, Put, Guarded!PutReplyLost,
   PutReplyLost, Guarded!PutConflict, PutConflict, Guarded!Reload, Reload,
   Guarded!Fail, Fail, Guarded!Stop, Stop, Guarded!Take, Take, Guarded!Write,
   Write, Guarded!Content, Content, Guarded!Vanished, Vanished,
   Guarded!Resting, Resting, Guarded!NoJob, NoJob, Guarded!HardRevoke,
   HardRevoke, Guarded!Find, Find, Guarded!IsRevoked, IsRevoked,
   Guarded!AppendCert, AppendCert, Guarded!ApplyRev, ApplyRev,
   Guarded!NoLedger, NoLedger, Guarded!NoCertificates, NoCertificates,
   Guarded!MissingEntry, MissingEntry, Guarded!ActiveEntry, ActiveEntry,
   Guarded!RevokedEntry, RevokedEntry, Guarded!Accepted, Accepted,
   Guarded!Decide, Decide

LEMMA SameEdits ==
    ASSUME NEW a, NEW c, NEW r, NEW b, NEW rev
    PROVE  /\ Guarded!Reassign(a, r, b) <=> Reassign(a, r, b)
           /\ Guarded!RevokeByHand(a, c, rev) <=> RevokeByHand(a, c, rev)
BY DEF Guarded!Reassign, Reassign, Guarded!RevokeByHand, RevokeByHand,
   Guarded!Edit, Edit, Guarded!Writers, Writers, Guarded!Resting, Resting,
   Guarded!Find, Find, Guarded!ApplyRev, ApplyRev, Guarded!RevokedEntry,
   RevokedEntry

LEMMA SameNames ==
    /\ Guarded!Writers = Writers /\ Guarded!Resting = Resting
    /\ Guarded!NoJob = NoJob /\ Guarded!Revocations = Revocations
    /\ Guarded!commitVars = commitVars
BY DEF Guarded!Writers, Writers, Guarded!Resting, Resting, Guarded!NoJob, NoJob,
   Guarded!HardRevoke, HardRevoke, Guarded!Revocations, Revocations,
   Guarded!Froms, Froms, Guarded!commitVars, commitVars

LEMMA SameBegin ==
    ASSUME NEW w, NEW j, \A v \in Writers : pc[v] \in Resting
    PROVE  Begin(w, j) => Guarded!Begin(w, j)
BY SameNames DEF Begin, Guarded!Begin, Guarded!GroupFree

LEMMA GuardedInit == Init => Guarded!CommitInit
BY DEF Init, CommitInit, Guarded!CommitInit, Seeds, Guarded!Seeds, NoLedger,
   Guarded!NoLedger, SeedLedger, Guarded!SeedLedger, NoCertificates,
   Guarded!NoCertificates, MissingEntry, Guarded!MissingEntry, NoJob,
   Guarded!NoJob, HardRevoke, Guarded!HardRevoke, Writers, Guarded!Writers

LEMMA GuardedNext ==
    ASSUME GroupInv, [Next]_vars
    PROVE  [Guarded!CommitNext]_Guarded!commitVars
<1>1. ASSUME NEW w \in Writers, TakeUp(w)
      PROVE  Guarded!CommitNext
  <2>1. \A v \in Writers : v # w => pc[v] \in Resting
    BY <1>1 DEF TakeUp, GroupInv, AtWork
  <2>2. \A v \in Writers : pc[v] \in Resting
    BY <1>1, <2>1 DEF TakeUp, BeginIssue, BeginSelfRevoke, BeginPrivileged, Begin
  <2>3. CASE \E a \in Apps, repo \in Repos : BeginIssue(w, a, repo)
    BY <2>2, <2>3, SameNames, SameBegin
       DEF BeginIssue, Guarded!BeginIssue, Guarded!CommitNext
  <2>4. CASE \E a \in Apps, c \in Certs : BeginSelfRevoke(w, a, c)
    BY <2>2, <2>4, SameNames, SameBegin
       DEF BeginSelfRevoke, Guarded!BeginSelfRevoke, Guarded!CommitNext
  <2>5. CASE \E a \in Apps, c \in Certs, rev \in Revocations :
                BeginPrivileged(w, a, c, rev)
    BY <2>2, <2>5, SameNames, SameBegin
       DEF BeginPrivileged, Guarded!BeginPrivileged, Guarded!CommitNext
  <2> QED
    BY <1>1, <2>3, <2>4, <2>5 DEF TakeUp
<1>2. ASSUME NEW w \in Writers, Read(w) \/ Call(w) \/ Commit(w)
      PROVE  Guarded!CommitNext
  <2>1. WriterStep(w)
    BY <1>2 DEF Read, Call, Commit, WriterStep
  <2> QED
    BY <2>1, SameNames, SameSteps DEF Guarded!CommitNext
<1>3. CASE EndRun \/ Elsewhere \/ UNCHANGED vars
  BY <1>3 DEF EndRun, Elsewhere, vars, commitVars, Guarded!commitVars
<1>4. CASE \/ \E a \in Apps, repo \in Repos, b \in BOOLEAN :
                 ReassignFile(a, repo, b)
           \/ \E a \in Apps, c \in Certs, rev \in Revocations :
                 RevokeInFile(a, c, rev)
  BY <1>4, SameEdits, SameNames
     DEF ReassignFile, RevokeInFile, Guarded!CommitNext
<1> QED
  BY <1>1, <1>2, <1>3, <1>4 DEF Next

-----------------------------------------------------------------------------
(* The ledgers as the CRL generator sees them.                             *)
LEMMA BareEntryIs ==
    ASSUME NEW e \in Entries
    PROVE  /\ BareEntry(e).status = e.status
           /\ BareEntry(e).from = e.from
           /\ BareEntry(e) = [status |-> e.status, from |-> e.from,
                              actor |-> NoActor]
BY DEF BareEntry, Entries

(* An owner that changes is of no consequence.                             *)
LEMMA BareKept ==
    ASSUME \A a \in Apps : ledger'[a].certs = ledger[a].certs
    PROVE  Bare' = Bare
BY DEF Bare, BareLedger, Find

(* A write to one file shows in this file only.                            *)
LEMMA BareElsewhere ==
    ASSUME NEW a \in Apps, \A b \in Apps : b # a => ledger'[b] = ledger[b],
           NEW l, BareLedger(ledger'[a]) = l
    PROVE  Bare' = [Bare EXCEPT ![a] = l]
<1>1. Bare' = [b \in Apps |-> BareLedger(ledger'[b])]
  BY DEF Bare
<1> QED
  BY <1>1 DEF Bare

(* A certificate is in the file for one reader if it is for the other.     *)
LEMMA BareFinds ==
    ASSUME TypeInv, NEW a \in Apps, NEW c \in Certs
    PROVE  Find(Bare[a], c) <=> Find(ledger[a], c)
<1>1. \A d \in Certs : ledger[a].certs[d] \in Entries
  BY DEF TypeInv, CommitTypeOK, Ledgers
<1>2. CASE \A d \in Certs : ~Find(ledger[a], d)
  BY <1>2 DEF Bare, BareLedger, Find, NoLedger, NoCertificates, MissingEntry
<1>3. CASE ~ \A d \in Certs : ~Find(ledger[a], d)
  <2>1. Bare[a].certs[c] = BareEntry(ledger[a].certs[c])
    BY <1>3 DEF Bare, BareLedger
  <2> QED
    BY <1>1, <2>1, BareEntryIs DEF Find
<1> QED
  BY <1>2, <1>3

(* As nobody but SomeOwner is an owner, nobody is refused.                 *)
LEMMA BareAccepts ==
    ASSUME NEW a \in Apps
    PROVE  Site!Accepted(Bare[a], SomeOwner)
<1>1. Site!NoLedger = NoLedger
  BY DEF Site!NoLedger, NoLedger, Site!NoCertificates, NoCertificates,
     Site!MissingEntry, MissingEntry
<1>2. Bare[a] = NoLedger \/ (Bare[a].owner = SomeOwner /\ ~Bare[a].reserved)
  BY DEF Bare, BareLedger
<1>3. CASE Bare[a] = NoLedger
  BY <1>1, <1>3 DEF Site!Accepted, Site!Decide
<1>4. CASE Bare[a] # NoLedger
  BY <1>1, <1>2, <1>4 DEF Site!Accepted, Site!Decide
<1> QED
  BY <1>3, <1>4

(* An entry that is appended.                                              *)
LEMMA BareAppend ==
    ASSUME GroupInv, NEW a \in Apps, NEW c \in Certs, ~Find(ledger[a], c),
           \A d \in Certs : ledger'[a].certs[d] =
              IF d = c THEN ActiveEntry ELSE ledger[a].certs[d]
    PROVE  BareLedger(ledger'[a]) =
              Site!AppendCert(Bare[a], SomeOwner, c)
<1>0. /\ \A d \in Certs : ledger[a].certs[d] \in Entries
      /\ ActiveEntry \in Entries /\ BareEntry(ActiveEntry) = ActiveEntry
      /\ BareEntry(MissingEntry) = MissingEntry
  BY SeedTypes DEF GroupInv, CommitInv, TypeInv, CommitTypeOK, Ledgers,
     BareEntry, ActiveEntry, MissingEntry
<1>1. BareLedger(ledger'[a]) =
         [owner |-> SomeOwner, reserved |-> FALSE,
          certs |-> [d \in Certs |-> IF d = c THEN ActiveEntry
                                     ELSE BareEntry(ledger[a].certs[d])]]
  <2>1. Find(ledger'[a], c)
    BY DEF Find, ActiveEntry
  <2>2. \A d \in Certs : BareEntry(ledger'[a].certs[d]) =
           IF d = c THEN ActiveEntry ELSE BareEntry(ledger[a].certs[d])
    BY <1>0
  <2> QED
    BY <2>1, <2>2 DEF BareLedger
<1>2. Site!ActiveEntry = ActiveEntry /\ Site!NoLedger = NoLedger
  BY DEF Site!ActiveEntry, ActiveEntry, Site!NoLedger, NoLedger,
     Site!NoCertificates, NoCertificates, Site!MissingEntry, MissingEntry
<1>3. CASE \A d \in Certs : ~Find(ledger[a], d)
  <2>1. Bare[a] = NoLedger
    BY <1>3 DEF Bare, BareLedger
  <2>2. \A d \in Certs : BareEntry(ledger[a].certs[d]) = MissingEntry
    BY <1>0, <1>3 DEF GroupInv, Blank
  <2>3. Site!AppendCert(Bare[a], SomeOwner, c) =
           [owner |-> SomeOwner, reserved |-> FALSE,
            certs |-> [NoCertificates EXCEPT ![c] = ActiveEntry]]
    BY <1>2, <2>1 DEF Site!AppendCert, NoLedger
  <2> QED
    BY <1>1, <2>2, <2>3 DEF NoCertificates
<1>4. CASE ~ \A d \in Certs : ~Find(ledger[a], d)
  <2> DEFINE f == [d \in Certs |-> BareEntry(ledger[a].certs[d])]
  <2>1. Bare[a] = [owner |-> SomeOwner, reserved |-> FALSE, certs |-> f]
    BY <1>4 DEF Bare, BareLedger
  <2>2. Bare[a] # NoLedger
    <3>1. PICK d \in Certs : Find(ledger[a], d)
      BY <1>4
    <3>2. Bare[a].certs[d].status # "missing"
      BY <1>0, <2>1, <3>1, BareEntryIs DEF Find
    <3> QED
      BY <3>2 DEF NoLedger, NoCertificates, MissingEntry
  <2>3. Site!AppendCert(Bare[a], SomeOwner, c) =
           [owner |-> SomeOwner, reserved |-> FALSE,
            certs |-> [f EXCEPT ![c] = ActiveEntry]]
    BY <1>2, <2>1, <2>2 DEF Site!AppendCert
  <2> QED
    BY <1>1, <2>3
<1> QED
  BY <1>3, <1>4

(* An entry that is revoked.                                               *)
LEMMA BareApply ==
    ASSUME GroupInv, NEW a \in Apps, NEW c \in Certs, NEW rev \in Revocations,
           Find(ledger[a], c),
           \A d \in Certs : ledger'[a].certs[d] =
              IF d = c THEN RevokedEntry(rev) ELSE ledger[a].certs[d]
    PROVE  BareLedger(ledger'[a]) =
              Site!ApplyRev(Bare[a], c, Site!RevokeFrom(rev.from))
<1>0. \A d \in Certs : ledger[a].certs[d] \in Entries
  BY DEF GroupInv, CommitInv, TypeInv, CommitTypeOK, Ledgers
<1> DEFINE flipped == Site!RevokedEntry(Site!RevokeFrom(rev.from))
<1>1. BareEntry(RevokedEntry(rev)) = flipped
  <2>1. RevokedEntry(rev) \in Entries
    BY DEF RevokedEntry, Entries, Revocations
  <2>2. BareEntry(RevokedEntry(rev)) =
           [status |-> "revoked", from |-> rev.from, actor |-> NoActor]
    BY <2>1, BareEntryIs DEF RevokedEntry
  <2> QED
    BY <2>2 DEF Site!RevokedEntry, Site!RevokeFrom
<1> DEFINE f == [d \in Certs |-> BareEntry(ledger[a].certs[d])]
<1> HIDE DEF flipped
<1>2. Bare[a] = [owner |-> SomeOwner, reserved |-> FALSE, certs |-> f]
  BY DEF Bare, BareLedger
<1>3. BareLedger(ledger'[a]) =
         [owner |-> SomeOwner, reserved |-> FALSE,
          certs |-> [d \in Certs |-> IF d = c THEN flipped
                                     ELSE BareEntry(ledger[a].certs[d])]]
  <2>1. Find(ledger'[a], c)
    BY DEF Find, RevokedEntry
  <2>2. \A d \in Certs : BareEntry(ledger'[a].certs[d]) =
           IF d = c THEN flipped ELSE BareEntry(ledger[a].certs[d])
    BY <1>1
  <2> QED
    BY <2>1, <2>2 DEF BareLedger
<1>4. Site!ApplyRev(Bare[a], c, Site!RevokeFrom(rev.from)) =
         [owner |-> SomeOwner, reserved |-> FALSE,
          certs |-> [f EXCEPT ![c] = flipped]]
  <2>1. Site!ApplyRev(Bare[a], c, Site!RevokeFrom(rev.from)) =
           [Bare[a] EXCEPT !.certs[c] = flipped]
    BY DEF Site!ApplyRev, flipped
  <2> DEFINE l == [Bare[a] EXCEPT !.certs[c] = flipped]
             RecordsOf(S) == [owner : {SomeOwner}, reserved : {FALSE},
                              certs : [Certs -> S]]
  <2> HIDE DEF f
  <2>2. f \in [Certs -> Entries] /\ flipped \in Entries
    BY <1>0, <1>1, BareEntryIs
       DEF f, BareEntry, Entries, RevokedEntry, Revocations
  <2>3. Bare[a] \in RecordsOf(Entries) /\ Bare[a].certs = f
    BY <1>2, <2>2
  <2>4. /\ l \in RecordsOf(Entries)
        /\ l.owner = SomeOwner /\ l.reserved = FALSE
        /\ l.certs = [f EXCEPT ![c] = flipped]
    BY <2>2, <2>3
  <2> HIDE DEF l
  <2>5. l = [owner |-> l.owner, reserved |-> l.reserved, certs |-> l.certs]
    BY <2>4
  <2> QED
    BY <2>1, <2>4, <2>5 DEF l
<1> QED
  BY <1>3, <1>4

-----------------------------------------------------------------------------
(* Each write is one of the single steps of Crl.                           *)
LEMMA CommitIsOneWrite ==
    ASSUME GroupInv, NEW w \in Writers, Commit(w)
    PROVE  Site!Next
<1> DEFINE a == job[w].app
           c == job[w].cert
           rev == job[w].rev
<1>0. TypeInv /\ CommitInv /\ Write(w) /\ a \notin broken
  BY DEF Commit, Put, PutReplyLost, GroupInv, CommitInv
<1>1. a \in Apps /\ c \in Certs /\ rev \in Revocations
  BY <1>0 DEF Write, TypeInv, CommitTypeOK, JobsKnown, JobKnown, Engaged, Jobs
<1>2. /\ running.kind = w /\ running.step = "start"
      /\ UNCHANGED <<broken, pending, due, crl, deploying, hung, hosted, past,
                     hist, mishaps>>
      /\ running' = IF w \in PrivRevokers THEN Site!Done(running) ELSE running
  BY <1>0 DEF Commit, Write, Resting, GroupInv, AtWork
<1>3. /\ \A b \in Apps : b # a => ledger'[b] = ledger[b]
      /\ \A d \in Certs : ledger'[a].certs[d] =
            IF d = c
            THEN IF w \in Issuers THEN ActiveEntry ELSE RevokedEntry(rev)
            ELSE ledger[a].certs[d]
  <2>1. \A b \in Apps : b # a => ledger'[b] = ledger[b]
    BY <1>0 DEF Write, TypeInv, CommitTypeOK
  <2>2. \A d \in Certs : ledger'[a].certs[d] =
           IF a = job[w].app /\ d = job[w].cert
           THEN IF w \in Issuers THEN ActiveEntry ELSE RevokedEntry(job[w].rev)
           ELSE ledger[a].certs[d]
    BY <1>0, <1>1, WriteStanding
  <2> QED
    BY <2>1, <2>2
<1>4. \A b \in Apps, d \in Certs : Find(Bare[b], d) <=> Find(ledger[b], d)
  BY <1>0, BareFinds
<1> HIDE DEF a, c, rev
<1>5. CASE w \in Issuers
  <2>1. \A b \in Apps : ~Find(ledger[b], c)
    BY <1>0, <1>5 DEF CommitInv, LeavesFresh, Carries, Write, c
  <2>2. Bare' = [Bare EXCEPT ![a] = Site!AppendCert(Bare[a], SomeOwner, c)]
    <3>1. BareLedger(ledger'[a]) = Site!AppendCert(Bare[a], SomeOwner, c)
      BY <1>1, <1>3, <1>5, <2>1, BareAppend
    <3> QED
      BY <1>1, <1>3, <3>1, BareElsewhere
  <2>3. SomeOwner \in Repos
    <3>1. job[w].repo \in Repos
      BY <1>0, <1>5 DEF Write, TypeInv, JobsKnown, JobKnown, Engaged
    <3> QED
      BY <3>1 DEF SomeOwner
  <2>4. w = "issuer" /\ w \notin PrivRevokers
    BY <1>5, GroupAssumption, CommitAssumption
  <2>5. Site!Accepted(Bare[a], SomeOwner)
    BY <1>1, BareAccepts
  <2>6. \A b \in Apps : ~Site!Find(Bare[b], c)
    BY <1>1, <1>4, <2>1 DEF Find, Site!Find
  <2>7. Site!Issue(a, SomeOwner, c)
    BY <1>0, <1>2, <2>2, <2>4, <2>5, <2>6
       DEF Site!Issue, Site!Ledgering, Site!pagesVars, a
  <2> QED
    BY <1>1, <2>3, <2>7 DEF Site!Next
<1>6. CASE w \notin Issuers
  <2>1. Find(ledger[a], c)
    BY <1>0, <1>6 DEF CommitInv, RevokersFound, Write, a, c
  <2>2. Bare' = [Bare EXCEPT ![a] =
                    Site!ApplyRev(Bare[a], c, Site!RevokeFrom(rev.from))]
    <3>1. BareLedger(ledger'[a]) =
             Site!ApplyRev(Bare[a], c, Site!RevokeFrom(rev.from))
      BY <1>1, <1>3, <1>6, <2>1, BareApply
    <3> QED
      BY <1>1, <1>3, <3>1, BareElsewhere
  <2>3. Site!Find(Bare[a], c)
    BY <1>1, <1>4, <2>1 DEF Find, Site!Find
  <2>4. CASE w \in PrivRevokers
    <3>1. w = "privileged" /\ rev.from \in Site!Froms
      BY <1>1, <2>4, GroupAssumption DEF Revocations, Froms, Site!Froms
    <3>2. Site!PrivRevoke(a, c, rev.from)
      BY <1>0, <1>2, <2>2, <2>3, <2>4, <3>1
         DEF Site!PrivRevoke, Site!Ledgering, Site!pagesVars, a
    <3> QED
      BY <1>1, <3>1, <3>2 DEF Site!Next
  <2>5. CASE w \notin PrivRevokers
    <3>1. w \in SelfRevokers /\ w = "revocation"
      BY <1>6, <2>5, GroupAssumption DEF Writers
    <3>2. rev.from = 0
      BY <1>0, <3>1 DEF GroupInv, BotsRevokeHard, Write, Resting, HardRevoke, rev
    <3>3. Site!SelfRevoke(a, c)
      BY <1>0, <1>2, <2>2, <2>3, <2>5, <3>1, <3>2
         DEF Site!SelfRevoke, Site!Ledgering, Site!pagesVars, a
    <3> QED
      BY <1>1, <3>3 DEF Site!Next
  <2> QED
    BY <2>4, <2>5
<1> QED
  BY <1>5, <1>6

LEMMA RevokeInFileIsOneWrite ==
    ASSUME GroupInv, NEW a \in Apps, NEW c \in Certs, NEW rev \in Revocations,
           RevokeInFile(a, c, rev)
    PROVE  Site!Next
<1>0. TypeInv /\ RevokeByHand(a, c, rev) /\ Find(ledger[a], c)
  BY DEF RevokeInFile, RevokeByHand, GroupInv, CommitInv
<1>1. /\ \A b \in Apps : b # a => ledger'[b] = ledger[b]
      /\ \A d \in Certs : ledger'[a].certs[d] =
            IF d = c THEN RevokedEntry(rev) ELSE ledger[a].certs[d]
  <2>1. \A b \in Apps : b # a => ledger'[b] = ledger[b]
    BY <1>0 DEF RevokeByHand, TypeInv, CommitTypeOK
  <2> QED
    BY <1>0, <2>1, RevokeByHandStanding
<1>2. Bare' = [Bare EXCEPT ![a] =
                  Site!ApplyRev(Bare[a], c, Site!RevokeFrom(rev.from))]
  <2>1. BareLedger(ledger'[a]) =
           Site!ApplyRev(Bare[a], c, Site!RevokeFrom(rev.from))
    BY <1>0, <1>1, BareApply
  <2> QED
    BY <1>1, <2>1, BareElsewhere
<1>3. Site!Find(Bare[a], c)
  BY <1>0, BareFinds DEF Find, Site!Find
<1>4. rev.from \in Site!Froms
  BY DEF Revocations, Froms, Site!Froms
<1>5. Site!RevokeByHand(a, c, rev.from)
  BY <1>2, <1>3 DEF RevokeInFile, Site!RevokeByHand, Site!Edit, Site!Mishap,
     Site!groupVars, Site!pagesVars
<1> QED
  BY <1>4, <1>5 DEF Site!Next

LEMMA SiteNext ==
    ASSUME GroupInv, [Next]_vars
    PROVE  [Site!Next]_Site!vars
<1> USE DEF Site!vars, Site!ledgerVars, Site!groupVars, Site!pagesVars
<1>1. ASSUME NEW w \in Writers, TakeUp(w)
      PROVE  UNCHANGED Site!vars
  <2>1. UNCHANGED <<ledger, siteVars>>
    BY <1>1 DEF TakeUp, BeginIssue, BeginSelfRevoke, BeginPrivileged, Begin
  <2> QED
    BY <2>1, BareKept DEF siteVars
<1>2. ASSUME NEW w \in Writers, Read(w) \/ Call(w)
      PROVE  UNCHANGED Site!vars
  <2>1. UNCHANGED <<ledger, siteVars>>
    BY <1>2 DEF Read, Call, LoadIssue, LoadSelfRevoke, LoadPrivileged, Reload,
                PutConflict, Fail, Sign
  <2> QED
    BY <2>1, BareKept DEF siteVars
<1>3. ASSUME NEW w \in Writers, Commit(w)
      PROVE  Site!Next
  BY <1>3, CommitIsOneWrite
<1>4. CASE EndRun
  BY <1>4 DEF EndRun, Site!Next
<1>5. CASE Elsewhere
  BY <1>5 DEF Elsewhere, Site!Next
<1>6. ASSUME NEW a \in Apps, NEW repo \in Repos, NEW b \in BOOLEAN,
             ReassignFile(a, repo, b)
      PROVE  UNCHANGED Site!vars
  <2>1. Bare' = Bare
    BY <1>6, ReassignStanding, BareKept
       DEF ReassignFile, GroupInv, CommitInv
  <2> QED
    BY <1>6, <2>1 DEF ReassignFile, siteVars
<1>7. ASSUME NEW a \in Apps, NEW c \in Certs, NEW rev \in Revocations,
             RevokeInFile(a, c, rev)
      PROVE  Site!Next
  BY <1>7, RevokeInFileIsOneWrite
<1>8. CASE UNCHANGED vars
  <2>1. UNCHANGED <<ledger, siteVars>>
    BY <1>8 DEF vars, commitVars
  <2> QED
    BY <2>1, BareKept DEF siteVars
<1> QED
  BY <1>1, <1>2, <1>3, <1>4, <1>5, <1>6, <1>7, <1>8 DEF Next

-----------------------------------------------------------------------------
(* The modules of the two parts and the modules of their proofs speak of   *)
(* the same behaviours.                                                    *)
LEMMA SameLockInit == Guarded!CommitInit <=> Lock!CommitInit
BY DEF Lock!CommitInit, Guarded!CommitInit, Lock!Seeds, Guarded!Seeds,
   Lock!Writers, Guarded!Writers, Lock!NoJob, Guarded!NoJob, Lock!NoLedger,
   Guarded!NoLedger, Lock!SeedLedger, Guarded!SeedLedger, Lock!HardRevoke,
   Guarded!HardRevoke, Lock!NoCertificates, Guarded!NoCertificates,
   Lock!MissingEntry, Guarded!MissingEntry

LEMMA SameLockNext == Guarded!CommitNext <=> Lock!CommitNext
BY DEF Lock!CommitNext, Guarded!CommitNext, Lock!Writers, Guarded!Writers,
   Lock!WriterStep, Guarded!WriterStep, Lock!BeginIssue, Guarded!BeginIssue,
   Lock!BeginSelfRevoke, Guarded!BeginSelfRevoke, Lock!Revocations,
   Guarded!Revocations, Lock!BeginPrivileged, Guarded!BeginPrivileged,
   Lock!Reassign, Guarded!Reassign, Lock!RevokeByHand, Guarded!RevokeByHand,
   Lock!LoadIssue, Guarded!LoadIssue, Lock!LoadSelfRevoke,
   Guarded!LoadSelfRevoke, Lock!LoadPrivileged, Guarded!LoadPrivileged,
   Lock!Sign, Guarded!Sign, Lock!Put, Guarded!Put, Lock!PutReplyLost,
   Guarded!PutReplyLost, Lock!PutConflict, Guarded!PutConflict, Lock!Reload,
   Guarded!Reload, Lock!Fail, Guarded!Fail, Lock!Begin, Guarded!Begin,
   Lock!NoJob, Guarded!NoJob, Lock!Froms, Guarded!Froms, Lock!Edit,
   Guarded!Edit, Lock!Find, Guarded!Find, Lock!ApplyRev, Guarded!ApplyRev,
   Lock!Accepted, Guarded!Accepted, Lock!Take, Guarded!Take, Lock!Stop,
   Guarded!Stop, Lock!IsRevoked, Guarded!IsRevoked, Lock!Write, Guarded!Write,
   Lock!Vanished, Guarded!Vanished, Lock!Resting, Guarded!Resting,
   Lock!GroupFree, Guarded!GroupFree, Lock!HardRevoke, Guarded!HardRevoke,
   Lock!RevokedEntry, Guarded!RevokedEntry, Lock!Decide, Guarded!Decide,
   Lock!NoLedger, Guarded!NoLedger, Lock!Content, Guarded!Content,
   Lock!NoCertificates, Guarded!NoCertificates, Lock!AppendCert,
   Guarded!AppendCert, Lock!MissingEntry, Guarded!MissingEntry,
   Lock!ActiveEntry, Guarded!ActiveEntry

LEMMA SameLock == Guarded!CommitSpec => Lock!CommitSpec
<1>1. [Guarded!CommitNext]_Guarded!commitVars
         => [Lock!CommitNext]_Lock!commitVars
  BY SameLockNext DEF Guarded!commitVars, Lock!commitVars
<1> QED
  BY <1>1, SameLockInit, PTL DEF Guarded!CommitSpec, Lock!CommitSpec

LEMMA SameQueueInit == Site!Init <=> Queue!Init
BY DEF Queue!Init, Site!Init, Queue!NoLedger, Site!NoLedger, Queue!NoRun,
   Site!NoRun, Queue!NoCrl, Site!NoCrl, Queue!NoCertificates,
   Site!NoCertificates, Queue!NoCheckout, Site!NoCheckout, Queue!MissingEntry,
   Site!MissingEntry

LEMMA SameQueueNext == Site!Next <=> Queue!Next
BY DEF Queue!Next, Site!Next, Queue!Kinds, Site!Kinds, Queue!Trigger,
   Site!Trigger, Queue!Completed, Site!Completed, Queue!EndRun, Site!EndRun,
   Queue!CrlStep, Site!CrlStep, Queue!CrlRunFails, Site!CrlRunFails,
   Queue!RerunCrl, Site!RerunCrl, Queue!Issue, Site!Issue, Queue!SelfRevoke,
   Site!SelfRevoke, Queue!Froms, Site!Froms, Queue!PrivRevoke,
   Site!PrivRevoke, Queue!RevokeByHand, Site!RevokeByHand, Queue!DeployDone,
   Site!DeployDone, Queue!DeployFails, Site!DeployFails, Queue!DeployHangs,
   Site!DeployHangs, Queue!DeployHead, Site!DeployHead, Queue!RerunDeploy,
   Site!RerunDeploy, Queue!Spoil, Site!Spoil, Queue!Repair, Site!Repair,
   Queue!Join, Site!Join, Queue!Run, Site!Run, Queue!Checkout, Site!Checkout,
   Queue!NoCheckout, Site!NoCheckout, Queue!ledgerVars, Site!ledgerVars,
   Queue!pagesVars, Site!pagesVars, Queue!NoRun, Site!NoRun, Queue!Revoking,
   Site!Revoking, Queue!Publish, Site!Publish, Queue!Generate, Site!Generate,
   Queue!Mishap, Site!Mishap, Queue!Done, Site!Done, Queue!Ledgering,
   Site!Ledgering, Queue!Accepted, Site!Accepted, Queue!Find, Site!Find,
   Queue!AppendCert, Site!AppendCert, Queue!ApplyRev, Site!ApplyRev,
   Queue!RevokeFrom, Site!RevokeFrom, Queue!Edit, Site!Edit, Queue!NoCrl,
   Site!NoCrl, Queue!groupVars, Site!groupVars, Queue!Deploy, Site!Deploy,
   Queue!Recall, Site!Recall, Queue!Listed, Site!Listed, Queue!Made,
   Site!Made, Queue!NewSigner, Site!NewSigner, Queue!Decide, Site!Decide,
   Queue!NoLedger, Site!NoLedger, Queue!ActiveEntry, Site!ActiveEntry,
   Queue!RevokedEntry, Site!RevokedEntry, Queue!IsRevoked, Site!IsRevoked,
   Queue!VaultNew, Site!VaultNew, Queue!PemNew, Site!PemNew,
   Queue!NoCertificates, Site!NoCertificates, Queue!MissingEntry,
   Site!MissingEntry

LEMMA SameQueue == Site!SafeSpec => Queue!SafeSpec
<1>1. [Site!Next]_Site!vars => [Queue!Next]_Queue!vars
  BY SameQueueNext
     DEF Site!vars, Site!ledgerVars, Site!groupVars, Site!pagesVars,
         Queue!vars, Queue!ledgerVars, Queue!groupVars, Queue!pagesVars
<1> QED
  BY <1>1, SameQueueInit, PTL DEF Site!SafeSpec, Queue!SafeSpec

LEMMA SamePromises ==
    /\ Site!TypeOK <=> Queue!TypeOK
    /\ Site!CrlSound <=> Queue!CrlSound
BY DEF Queue!TypeOK, Site!TypeOK, Queue!Ledgers, Site!Ledgers, Queue!Runs,
   Site!Runs, Queue!Crls, Site!Crls, Queue!Checkouts, Site!Checkouts,
   Queue!NoRun, Site!NoRun, Queue!Entries, Site!Entries, Queue!Kinds,
   Site!Kinds, Queue!Lists, Site!Lists, Queue!NoCheckout, Site!NoCheckout,
   Queue!Froms, Site!Froms, Queue!CrlSound, Site!CrlSound, Queue!NoCrl,
   Site!NoCrl, Queue!Sound, Site!Sound, Queue!ListsCert, Site!ListsCert,
   Queue!RevokedIn, Site!RevokedIn, Queue!IsRevoked, Site!IsRevoked

-----------------------------------------------------------------------------
(* The group's queue is a lock on the ledger: although no run looks for    *)
(* another one, the runs behave as writers that wait for each other        *)
(* (concurrency: group ledger-write, cancel-in-progress: false).           *)
THEOREM LockImplemented == Spec => ImplementsGuarded
<1>1. GroupInv /\ [Next]_vars => [Guarded!CommitNext]_Guarded!commitVars
  BY GuardedNext
<1> QED
  BY <1>1, GuardedInit, GroupInvHolds, PTL
     DEF Spec, ImplementsGuarded, Guarded!CommitSpec

(* The ledger writes that Crl takes for single steps are what the runs do  *)
(* call by call.                                                           *)
THEOREM SiteImplemented == Spec => ImplementsSite
<1>1. GroupInv /\ [Next]_vars => [Site!Next]_Site!vars
  BY SiteNext
<1>2. Init => Site!Init
  BY DEF Init
<1> QED
  BY <1>1, <1>2, GroupInvHolds, PTL DEF Spec, ImplementsSite, Site!SafeSpec

(* The types of both parts, and that a process is at work only while the   *)
(* run it belongs to is in progress.                                       *)
THEOREM GroupTypeCorrect == Spec => []TypeOK
<1>1. Spec => []Queue!TypeOK
  BY SiteImplemented, SameQueue, Queue!CrlTypeCorrect, LedgerAssumption,
     SiteAssumption, PTL DEF ImplementsSite, Site!CrlAssumption
<1>2. GroupInv /\ Queue!TypeOK => TypeOK
  BY SamePromises DEF GroupInv, CommitInv, TypeInv, AtWork, TypeOK
<1> QED
  BY <1>1, <1>2, GroupInvHolds, PTL

(* What is proved of the ledger protocol for any number of writers at once *)
(* holds of the workflows.                                                 *)
THEOREM GroupKeepsLog ==
    Spec => []ReportedIsCommitted /\ ImplementsLog /\ EachCallCounts
<1>1. [Next]_vars => [CommitNext]_commitVars
  BY CommitMoves
<1>2. Spec => CommitSpec
  BY <1>1, PTL DEF Spec, Init, CommitSpec
<1> QED
  BY <1>2, ReportedCorrect, LogImplemented, EachCallCountsCorrect, PTL

(* First come, first served, by the group's queue alone: no run checks     *)
(* that it is the only one (issuer.yml:12); only edits by hand must not be *)
(* made during a run.                                                      *)
THEOREM GroupFirstCome == QuietEdits = TRUE => (Spec => FirstComeFirstServed)
<1> SUFFICES ASSUME QuietEdits = TRUE PROVE Spec => FirstComeFirstServed
  OBVIOUS
<1>1. Lock!CommitSpec => Lock!FirstComeFirstServed
  BY Lock!FirstComeCorrect, LedgerAssumption, CommitAssumption DEF Lock!Locked
<1>2. Lock!FirstComeFirstServed => FirstComeFirstServed
  BY PTL DEF Lock!FirstComeFirstServed, FirstComeFirstServed, Lock!Find, Find,
             Lock!commitVars, commitVars
<1> QED
  BY <1>1, <1>2, LockImplemented, SameLock, PTL DEF ImplementsGuarded

(* Under the same condition no run erases the actor of an authoritative    *)
(* revocation.                                                             *)
THEOREM GroupAuditTrail == QuietEdits = TRUE => (Spec => AuditTrailKept)
<1> SUFFICES ASSUME QuietEdits = TRUE PROVE Spec => AuditTrailKept
  OBVIOUS
<1>1. Lock!CommitSpec => Lock!AuditTrailKept
  BY Lock!AuditTrailCorrect, LedgerAssumption, CommitAssumption DEF Lock!Locked
<1>2. Lock!AuditTrailKept => AuditTrailKept
  BY PTL DEF Lock!AuditTrailKept, AuditTrailKept, Lock!commitVars, commitVars
<1> QED
  BY <1>1, <1>2, LockImplemented, SameLock, PTL DEF ImplementsGuarded

(* Whatever retries, conflicts and edits the runs meet, the CRL on main    *)
(* and the site's are signed by the intermediate and list revoked          *)
(* certificates only, and the site's shrinks by a re-run only (crl.go).    *)
THEOREM GroupCrlSound == Spec => []Site!CrlSound /\ Site!NeverUnlisted
<1>1. Spec => []Queue!CrlSound /\ Queue!NeverUnlisted
  BY SiteImplemented, SameQueue, Queue!CrlSoundCorrect,
     Queue!NeverUnlistedCorrect, LedgerAssumption, SiteAssumption, PTL
     DEF ImplementsSite, Site!CrlAssumption
<1>2. Queue!CrlSound => Site!CrlSound
  BY SamePromises
<1>3. Queue!NeverUnlisted => Site!NeverUnlisted
  BY PTL DEF Queue!NeverUnlisted, Site!NeverUnlisted, Queue!ListsCert,
     Site!ListsCert, Queue!Froms, Site!Froms, Queue!vars, Site!vars,
     Queue!ledgerVars, Site!ledgerVars, Queue!groupVars, Site!groupVars,
     Queue!pagesVars, Site!pagesVars
<1> QED
  BY <1>1, <1>2, <1>3, PTL
=============================================================================
