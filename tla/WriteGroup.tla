----------------------------- MODULE WriteGroup -----------------------------
(***************************************************************************)
(* The workflows of concurrency group ledger-write as a whole: the runs    *)
(* that Crl queues are the ones that carry out the ledger writes of        *)
(* LedgerCommit, and the CRL is made of what these leave.                  *)
(*                                                                         *)
(* The writers are named for the workflow they run in.  A run of the       *)
(* issuer or the revocation bot takes up one request after the other, a    *)
(* privileged run the one it was dispatched with.  Nothing here tells a    *)
(* writer whether another one is at work; that it is alone is what the     *)
(* group's queue is for.                                                   *)
(***************************************************************************)
EXTENDS LedgerCommit

CONSTANTS Configs, MaxMishaps   \* as in Crl

ASSUME GroupAssumption ==
    /\ Issuers \subseteq {"issuer"}
    /\ SelfRevokers \subseteq {"revocation"}
    /\ PrivRevokers \subseteq {"privileged"}

VARIABLES
    broken, running, pending, due, crl, deploying, hung, hosted, past, hist,
    mishaps,    \* as in Crl
    asked       \* the run in progress has taken up a request

siteVars == <<broken, running, pending, due, crl, deploying, hung, hosted,
              past, hist, mishaps>>
vars == <<commitVars, siteVars, asked>>

-----------------------------------------------------------------------------
(* The ledgers as the CRL generator sees them: owners and actors are of no *)
(* consequence to it.  A file that was only reserved so far is none.       *)
SomeOwner == CHOOSE repo \in Repos : TRUE

BareEntry(e) == [e EXCEPT !.actor = NoActor]

BareLedger(l) ==
    IF \A c \in Certs : ~Find(l, c) THEN NoLedger
    ELSE [owner |-> SomeOwner, reserved |-> FALSE,
          certs |-> [c \in Certs |-> BareEntry(l.certs[c])]]

Bare == [a \in Apps |-> BareLedger(ledger[a])]

Site == INSTANCE Crl WITH ledger <- Bare

ASSUME SiteAssumption == Site!CrlAssumption

(* LedgerCommit with a lock on the ledger.                                 *)
Guarded == INSTANCE LedgerCommit WITH Serialized <- TRUE

-----------------------------------------------------------------------------
(* Mutation: a workflow without a concurrency group.                       *)
TakeUpOutside(w) ==
    /\ \/ \E a \in Apps, repo \in Repos : BeginIssue(w, a, repo)
       \/ \E a \in Apps, c \in Certs : BeginSelfRevoke(w, a, c)
       \/ \E a \in Apps, c \in Certs, rev \in Revocations :
             BeginPrivileged(w, a, c, rev)
    /\ asked' = TRUE
    /\ UNCHANGED siteVars

(* Mutation: a dispatched run goes on after its request was done.          *)
TakeUpAgain(w) ==
    /\ running.kind = w
    /\ \/ \E a \in Apps, repo \in Repos : BeginIssue(w, a, repo)
       \/ \E a \in Apps, c \in Certs : BeginSelfRevoke(w, a, c)
       \/ \E a \in Apps, c \in Certs, rev \in Revocations :
             BeginPrivileged(w, a, c, rev)
    /\ asked' = TRUE
    /\ UNCHANGED siteVars

(* The run in progress takes up a request; a dispatched one only one.      *)
TakeUp(w) ==
    /\ running.kind = w /\ running.step = "start"
    /\ w \in PrivRevokers => ~asked
    /\ \/ \E a \in Apps, repo \in Repos : BeginIssue(w, a, repo)
       \/ \E a \in Apps, c \in Certs : BeginSelfRevoke(w, a, c)
       \/ \E a \in Apps, c \in Certs, rev \in Revocations :
             BeginPrivileged(w, a, c, rev)
    /\ asked' = TRUE
    /\ UNCHANGED siteVars

(* loadLedger: a malformed file is an error, which Fail stands for.        *)
Read(w) ==
    /\ job[w].app \notin broken
    /\ LoadIssue(w) \/ LoadSelfRevoke(w) \/ LoadPrivileged(w) \/ Reload(w)
    /\ UNCHANGED <<siteVars, asked>>

(* The other calls that leave the ledger alone.                            *)
Call(w) ==
    /\ PutConflict(w) \/ Fail(w) \/ \E c \in Certs : Sign(w, c)
    /\ UNCHANGED <<siteVars, asked>>

(* Mutation: the write lands on a file that was spoilt after the run read  *)
(* it.                                                                     *)
CommitOverSpoilt(w) ==
    /\ Put(w) \/ PutReplyLost(w)
    /\ running' = IF w \in PrivRevokers THEN Site!Done(running) ELSE running
    /\ UNCHANGED <<broken, pending, due, crl, deploying, hung, hosted, past,
                   hist, mishaps, asked>>

(* The write lands; what the run read parsed, so a file that was spoilt    *)
(* since has another SHA.  A dispatched run has nothing left to do.        *)
Commit(w) ==
    /\ job[w].app \notin broken
    /\ Put(w) \/ PutReplyLost(w)
    /\ running' = IF w \in PrivRevokers THEN Site!Done(running) ELSE running
    /\ UNCHANGED <<broken, pending, due, crl, deploying, hung, hosted, past,
                   hist, mishaps, asked>>

-----------------------------------------------------------------------------
(* Mutation: a run leaves the group while its process is still at work.    *)
EndRunEarly ==
    /\ UNCHANGED commitVars
    /\ Site!EndRun
    /\ asked' = FALSE

(* A run leaves the group when its process has ended (in-progress runs are *)
(* never cancelled).                                                       *)
EndRun ==
    /\ \A w \in Writers : running.kind = w => pc[w] \in Resting
    /\ UNCHANGED commitVars
    /\ Site!EndRun
    /\ asked' = FALSE

(* The queue, the CRL runs and the deployments are those of Crl.           *)
Elsewhere ==
    /\ UNCHANGED <<commitVars, asked>>
    /\ \/ \E kind \in Site!Kinds : Site!Trigger(kind)
       \/ Site!Completed \/ Site!CrlStep \/ Site!CrlRunFails
       \/ \E at \in past : Site!RerunCrl(at)
       \/ Site!DeployDone \/ Site!DeployFails \/ Site!DeployHangs
       \/ Site!DeployHead
       \/ \E k \in hist : Site!RerunDeploy(k)
       \/ \E a \in Apps : Site!Spoil(a) \/ Site!Repair(a)

(* Commits by hand to a ledger file that parses.                           *)
ReassignFile(a, repo, reserved) ==
    /\ a \notin broken
    /\ Reassign(a, repo, reserved)
    /\ UNCHANGED <<siteVars, asked>>

RevokeInFile(a, c, rev) ==
    /\ a \notin broken
    /\ RevokeByHand(a, c, rev)
    /\ mishaps < MaxMishaps /\ mishaps' = mishaps + 1
    /\ UNCHANGED <<broken, running, pending, due, crl, deploying, hung, hosted,
                   past, hist, asked>>

-----------------------------------------------------------------------------
Next ==
    \/ \E w \in Writers : TakeUp(w) \/ Read(w) \/ Call(w) \/ Commit(w)
    \/ EndRun \/ Elsewhere
    \/ \E a \in Apps, repo \in Repos, b \in BOOLEAN : ReassignFile(a, repo, b)
    \/ \E a \in Apps, c \in Certs, rev \in Revocations : RevokeInFile(a, c, rev)

Init ==
    /\ CommitInit
    /\ Site!Init
    /\ asked = FALSE

Spec == Init /\ [][Next]_vars
-----------------------------------------------------------------------------
(* Types, and that only the workflow whose run is in progress is at work   *)
(* (concurrency: in-progress runs are never cancelled, one runs at a       *)
(* time).                                                                  *)
TypeOK ==
    /\ CommitTypeOK
    /\ Site!TypeOK
    /\ asked \in BOOLEAN
    /\ \A w \in Writers : pc[w] \notin Resting =>
          running.kind = w /\ running.step = "start" /\ asked

(* The group's queue is a lock on the ledger: the writers behave as in     *)
(* LedgerCommit with Serialized, although none of them looks at another    *)
(* ("serialized under one concurrency group so FCFS is correct",           *)
(* issuer.yml:12).                                                         *)
ImplementsGuarded == Guarded!CommitSpec

(* The ledger writes that Crl takes for single steps are what the runs do  *)
(* call by call, with conflicts, lost replies, retries and edits by hand   *)
(* between the calls: what holds of the CRL there holds of it here.        *)
ImplementsSite == Site!SafeSpec
=============================================================================
