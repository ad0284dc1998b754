------------------------------- MODULE Revoke -------------------------------
(***************************************************************************)
(* The self-service revocation bot (cmd/revoker, internal/revoke): a       *)
(* polled run lists the open revocation requests and answers each, one     *)
(* GitHub call a step.  The ledger write is the self-service revoker of    *)
(* LedgerCommit, run here by Bot; privileged dispatches share the          *)
(* concurrency group with it, and org members edit ledgers at any time.    *)
(*                                                                         *)
(* A request is a CMS blob.  What matters of it is whose private keys made *)
(* a valid signature in it, and which certificates it carries.             *)
(***************************************************************************)
EXTENDS LedgerCommit, AppId, FiniteSets

CONSTANTS
    Bot,            \* the revocation workflow
    Requests,       \* bodies: [signers, bundled : SUBSET Certs]
    NoBlock,        \* a body without a PEM CMS block
    CommonName,     \* CommonName[c]: the subject of certificate c
    MaxIssues,      \* bound on the requests filed; issues are numbered
    IssuePage,      \* issues the API lists: the 100 newest
    MaxFaults,      \* bound on errors and killed runs
    MaxActs         \* bound on requests filed or edited, and dispatches

AppOf(c) == Canonicalize(CommonName[c])

Issues == 1..MaxIssues

ASSUME RevokeAssumption ==
    /\ Bot \in SelfRevokers
    /\ Requests \subseteq [signers : SUBSET Certs, bundled : SUBSET Certs]
    /\ NoBlock \notin Requests
    /\ CommonName \in [Certs -> Seq(Byte)]
    /\ NoApp = Invalid
    /\ \A c \in Certs : AppOf(c) \in Apps \cup {NoApp}
    /\ MaxIssues \in Nat /\ IssuePage \in Nat \ {0}
    /\ MaxFaults \in Nat /\ MaxActs \in Nat

VARIABLES
    filed,          \* issues 1..filed exist
    body, label, open,
    answered,       \* answered[i]: the certificate the bot labelled i for
    phase,          \* the bot's next call
    todo, snap,     \* the issues still to process in this run, as listed
    cur, want,      \* the issue in process and the label it gets
    shown,          \* certificates whose holder has signed a request
    faults, acts

issueVars == <<filed, body, label, open, answered>>
botVars == <<phase, todo, snap, cur, want>>
vars == <<commitVars, issueVars, botVars, shown, faults, acts>>

NoIssue == 0

Bodies == Requests \cup {NoBlock}

Working == {"ledger", "comment", "label", "close"}

Revoked(i) == "revoked" \in label[i]

-----------------------------------------------------------------------------
(* Mutation: a certificate that merely comes with the CMS is its signer.   *)
VerifyBundled(b) == IF b = NoBlock THEN {} ELSE b.bundled

(* parseForm, and Verify: openssl tells the certificates whose keys signed *)
(* the blob, none if a signature is not valid.                             *)
Verify(b) == IF b = NoBlock THEN {} ELSE b.signers

(* onlyCertificate: exactly one signer, and a canonical CommonName.        *)
Eligible(b, c) == Verify(b) = {c} /\ AppOf(c) # Invalid

Acceptable(b) == \E c \in Certs : Eligible(b, c)

(* To the comment and the label l, and from there on to the next issue.    *)
Answer(l) ==
    /\ phase' = "comment" /\ want' = l
    /\ UNCHANGED <<todo, snap, cur>>

Goto(p) == phase' = p /\ UNCHANGED <<todo, snap, cur, want>>

NextIssue ==
    /\ phase' = "next" /\ cur' = NoIssue /\ want' = "none"
    /\ UNCHANGED <<todo, snap>>

Opened == {i \in 1..filed : open[i]}

(* One page of the open issues, newest first.                              *)
Page == {i \in Opened : Cardinality({j \in Opened : j > i}) < IssuePage}

Listing(list) == [i \in Issues |-> IF i \in list THEN body[i] ELSE NoBlock]

-----------------------------------------------------------------------------
List(list) ==
    /\ phase = "rest" /\ GroupFree
    /\ phase' = "next" /\ todo' = list /\ snap' = Listing(list)
    /\ UNCHANGED <<commitVars, issueVars, cur, want, shown, faults, acts>>

(* Mutation: an issue with any verdict is final.                           *)
StartRunFresh == List({i \in Page : label[i] = {}})

(* A poll lists the requests; one listed as revoked is skipped.            *)
StartRun == List({i \in Page : ~Revoked(i)})

EndRun ==
    /\ phase = "next" /\ todo = {}
    /\ phase' = "rest" /\ snap' = Listing({})
    /\ UNCHANGED <<commitVars, issueVars, todo, cur, want, shown, faults, acts>>

(* Steps 1-3 up to the CommonName, on the body as it was listed.           *)
Pick(i) ==
    /\ phase = "next" /\ i \in todo /\ \A j \in todo : j <= i
    /\ todo' = todo \ {i} /\ cur' = i
    /\ \/ /\ ~Acceptable(snap[i])
          /\ phase' = "comment" /\ want' = "invalid"
          /\ UNCHANGED commitVars
       \/ \E c \in Certs :
          /\ Eligible(snap[i], c)
          /\ BeginSelfRevoke(Bot, AppOf(c), c)
          /\ phase' = "ledger" /\ UNCHANGED want
    /\ UNCHANGED <<issueVars, snap, shown, faults, acts>>

(* Step 3: an unknown certificate is refused, a revoked one needs nothing. *)
CheckLedger ==
    /\ phase = "ledger"
    /\ LoadSelfRevoke(Bot)
    /\ CASE pc'[Bot] = "invalid" -> Answer("invalid")
         [] pc'[Bot] = "already" -> Answer("revoked")
         [] OTHER                -> UNCHANGED botVars
    /\ UNCHANGED <<issueVars, shown, faults, acts>>

(* Step 4: the flip, with its conflicts.  A 409 on an unchanged file is    *)
(* one of the faults.                                                      *)
Flip ==
    /\ phase = "ledger"
    /\ Put(Bot)
    /\ UNCHANGED <<issueVars, botVars, shown, faults, acts>>

FlipConflict ==
    /\ phase = "ledger"
    /\ PutConflict(Bot)
    /\ IF ledger[job[Bot].app] = base[Bot]
          THEN faults < MaxFaults /\ faults' = faults + 1 ELSE UNCHANGED faults
    /\ UNCHANGED <<issueVars, botVars, shown, acts>>

FlipRetry ==
    /\ phase = "ledger"
    /\ Reload(Bot)
    /\ IF pc'[Bot] = "failed" THEN NextIssue ELSE UNCHANGED botVars
    /\ UNCHANGED <<issueVars, shown, faults, acts>>

(* applyRevocation returned the serial.                                    *)
Flipped ==
    /\ phase = "ledger" /\ pc[Bot] = "done"
    /\ Answer("revoked")
    /\ UNCHANGED <<commitVars, issueVars, shown, faults, acts>>

-----------------------------------------------------------------------------
(* Step 5, and terminal(): a comment, a label, and the issue is closed     *)
(* only as revoked.                                                        *)
PostComment ==
    /\ phase = "comment"
    /\ Goto("label")
    /\ UNCHANGED <<commitVars, issueVars, shown, faults, acts>>

SetLabel ==
    /\ phase = "label"
    /\ label' = [label EXCEPT ![cur] = @ \cup {want}]
    /\ IF want = "revoked"
          THEN /\ Goto("close")
               /\ \E c \in Certs : Verify(snap[cur]) = {c}
                      /\ answered' = [answered EXCEPT ![cur] = c]
          ELSE NextIssue /\ UNCHANGED answered
    /\ UNCHANGED <<commitVars, filed, body, open, shown, faults, acts>>

CloseIssue ==
    /\ phase = "close"
    /\ open' = [open EXCEPT ![cur] = FALSE]
    /\ NextIssue
    /\ UNCHANGED <<commitVars, filed, body, label, answered, shown, faults,
                   acts>>

(* Mutation: the write in progress outlives the processing of its issue.   *)
IssueErrorKeepsWrite ==
    /\ phase \in Working /\ faults < MaxFaults
    /\ faults' = faults + 1
    /\ NextIssue
    /\ UNCHANGED <<commitVars, issueVars, shown, acts>>

(* A write in progress may have landed all the same.                       *)
AbandonWrite ==
    IF pc[Bot] \in Resting THEN UNCHANGED commitVars
                           ELSE Fail(Bot) \/ PutReplyLost(Bot)

(* A call failed: the error is logged and the run goes on with the next    *)
(* issue.                                                                  *)
IssueError ==
    /\ phase \in Working /\ faults < MaxFaults
    /\ faults' = faults + 1
    /\ AbandonWrite
    /\ NextIssue
    /\ UNCHANGED <<issueVars, shown, acts>>

(* The runner is killed: the rest of the batch waits for a later run.      *)
RunKilled ==
    /\ phase \in Working /\ faults < MaxFaults
    /\ faults' = faults + 1
    /\ AbandonWrite
    /\ phase' = "rest" /\ todo' = {} /\ snap' = Listing({})
    /\ cur' = NoIssue /\ want' = "none"
    /\ UNCHANGED <<issueVars, shown, acts>>

BotStep ==
    \/ StartRun \/ EndRun \/ \E i \in Issues : Pick(i)
    \/ CheckLedger \/ Flip \/ FlipConflict \/ FlipRetry \/ Flipped
    \/ PostComment \/ SetLabel \/ CloseIssue

-----------------------------------------------------------------------------
(* A holder signs; a copy of an earlier blob shows nothing new.            *)
Present(b) ==
    shown' = shown \cup (IF b = NoBlock THEN {} ELSE b.signers)

FileRequest(b) ==
    /\ acts < MaxActs /\ acts' = acts + 1
    /\ filed < MaxIssues /\ filed' = filed + 1
    /\ body' = [body EXCEPT ![filed + 1] = b]
    /\ open' = [open EXCEPT ![filed + 1] = TRUE]
    /\ Present(b)
    /\ UNCHANGED <<commitVars, label, answered, botVars, faults>>

(* The author corrects the body of an open request.                        *)
EditRequest(i, b) ==
    /\ acts < MaxActs /\ acts' = acts + 1
    /\ i \in Opened /\ body[i] # b
    /\ body' = [body EXCEPT ![i] = b]
    /\ Present(b)
    /\ UNCHANGED <<commitVars, filed, label, open, answered, botVars, faults>>

(* workflow_dispatch of a privileged revocation, and the steps of its run. *)
Dispatch(w, a, c, rev) ==
    /\ acts < MaxActs /\ acts' = acts + 1
    /\ Serialized => phase = "rest"
    /\ BeginPrivileged(w, a, c, rev)
    /\ UNCHANGED <<issueVars, botVars, shown, faults>>

PrivStep(w) ==
    /\ w \in PrivRevokers
    /\ WriterStep(w)
    /\ UNCHANGED <<issueVars, botVars, shown, faults, acts>>

Override(a, c, rev) ==
    /\ RevokeByHand(a, c, rev)
    /\ UNCHANGED <<issueVars, botVars, shown, faults, acts>>

EnvStep ==
    \/ \E b \in Bodies : FileRequest(b) \/ \E i \in Issues : EditRequest(i, b)
    \/ \E w \in PrivRevokers : PrivStep(w)
    \/ \E a \in Apps, c \in Certs, rev \in Revocations :
          \/ Override(a, c, rev)
          \/ \E w \in PrivRevokers : Dispatch(w, a, c, rev)

(* Certificates of earlier runs are recorded under the appId of their      *)
(* CommonName, or not recorded at all; nobody has filed a request yet.     *)
Init ==
    /\ \E kept \in SUBSET {c \in Certs : AppOf(c) # Invalid}, r \in Repos :
          /\ ledger = [a \in Apps |->
                IF \E c \in kept : AppOf(c) = a
                THEN [owner |-> r, reserved |-> FALSE,
                      certs |-> [c \in Certs |->
                          IF c \in kept /\ AppOf(c) = a
                          THEN ActiveEntry ELSE MissingEntry]]
                ELSE NoLedger]
          /\ grant = [c \in Certs |-> IF c \in kept THEN r ELSE NoRepo]
    /\ pc = [w \in Writers |-> "idle"]
    /\ job = [w \in Writers |-> NoJob]
    /\ base = [w \in Writers |-> NoLedger]
    /\ tries = [w \in Writers |-> 0]
    /\ edits = 0
    /\ filed = 0
    /\ body = [i \in Issues |-> NoBlock]
    /\ label = [i \in Issues |-> {}]
    /\ open = [i \in Issues |-> FALSE]
    /\ answered = [i \in Issues |-> NoCert]
    /\ phase = "rest" /\ todo = {} /\ snap = Listing({})
    /\ cur = NoIssue /\ want = "none"
    /\ shown = {}
    /\ faults = 0 /\ acts = 0

Next == BotStep \/ IssueError \/ RunKilled \/ EnvStep

(* The schedule keeps starting runs, and a run of either kind goes on; a   *)
(* dispatched run is not held up for ever by others in the group.          *)
Spec ==
    /\ Init /\ [][Next]_vars
    /\ WF_vars(BotStep)
    /\ \A w \in PrivRevokers : WF_vars(PrivStep(w))
-----------------------------------------------------------------------------
(* Types, and what each call has at hand: a ledger write only in the       *)
(* ledger phase, a request with one signer whenever it is to be answered   *)
(* as revoked.                                                             *)
TypeOK ==
    /\ CommitTypeOK
    /\ filed \in 0..MaxIssues
    /\ body \in [Issues -> Bodies]
    /\ label \in [Issues -> SUBSET {"invalid", "revoked"}]
    /\ open \in [Issues -> BOOLEAN]
    /\ answered \in [Issues -> Certs \cup {NoCert}]
    /\ phase \in {"rest", "next"} \cup Working
    /\ todo \in SUBSET Issues
    /\ snap \in [Issues -> Bodies]
    /\ cur \in Issues \cup {NoIssue}
    /\ want \in {"none", "invalid", "revoked"}
    /\ shown \in SUBSET Certs
    /\ faults \in 0..MaxFaults /\ acts \in 0..MaxActs
    /\ cur # NoIssue <=> phase \in Working
    /\ phase # "ledger" => pc[Bot] \in Resting
    /\ phase = "ledger" \/ want = "revoked" => Acceptable(snap[cur])

(* A request that is labelled revoked was answered for a certificate that  *)
(* stands revoked in the ledger, and only such a request gets closed       *)
(* (revoke.go:31-32), whatever failed, was retried, edited or replayed.    *)
RevokedIsTrue ==
    \A i \in Issues :
        /\ Revoked(i) =>
              /\ answered[i] # NoCert
              /\ IsRevoked(ledger[AppOf(answered[i])], answered[i])
        /\ i <= filed /\ ~open[i] => Revoked(i)

(* A certificate becomes revoked only on a request signed with its own     *)
(* private key, or by an org member who is recorded with it (spec 5.1      *)
(* step 2, 5.2).                                                           *)
HolderOrOfficer ==
    [][\A a \in Apps, c \in Certs :
          ~IsRevoked(ledger[a], c) /\ IsRevoked(ledger'[a], c)
          => c \in shown \/ ledger'[a].certs[c].actor # NoActor]_vars

(* Issue i shows a proof of possession of the recorded certificate c, and  *)
(* the API lists it.                                                       *)
Proves(i, c) ==
    /\ i \in Page
    /\ Eligible(body[i], c)
    /\ Find(ledger[AppOf(c)], c)

Settled(i, c) == i <= filed /\ (Proves(i, c) \/ ~open[i])

(* A holder who corrects a request until it proves possession, and leaves  *)
(* it, gets the certificate revoked and is told so, however often calls    *)
(* failed and whatever the bot answered before, as long as newer requests  *)
(* do not push it off the first page.                                      *)
HolderServed ==
    \A i \in Issues, c \in Certs : <>[]Settled(i, c) => <>Revoked(i)
=============================================================================
