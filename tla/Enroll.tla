------------------------------- MODULE Enroll -------------------------------
(***************************************************************************)
(* The issuer bot (cmd/issuer, internal/enroll): a polled run lists the    *)
(* open certificate requests once and takes each through the pipeline of   *)
(* enroll.Process, one GitHub call a step, while developers edit their     *)
(* issues and commit to their repositories.  The ledger write is the       *)
(* issuer of LedgerCommit, run here by Bot.                                *)
(*                                                                         *)
(* An error ends the processing of one issue and a killed runner the whole *)
(* run, after any call; a later run re-enters.  A comment or label that    *)
(* landed although its reply was lost is such an error at the next call.   *)
(*                                                                         *)
(* A challenge is a marker with a nonce in a comment of the bot, and the   *)
(* bot takes it from any of its comments.  Its verdicts quote what they    *)
(* refuse: a repository field, a CommonName or an id of info.xml in which  *)
(* such a marker stands makes the verdict a challenge too.                 *)
(***************************************************************************)
EXTENDS LedgerCommit, Sequences, FiniteSets

CONSTANTS
    Bot,            \* the issuer workflow
    Nonces,         \* what the bot generates
    Strays,         \* other values that may stand in a marker
    NoNonce,
    MaxIssues,      \* bound on the requests filed; issues are numbered
    IssuePage,      \* issues the API lists: the 100 newest
    CommentPage,    \* comments the API returns of an issue: the 100 oldest
    Validity,       \* age a challenge may reach (72h)
    MaxTime,        \* bound on the clock
    MaxFaults,      \* bound on errors and killed runs
    MaxActs         \* bound on requests filed or edited, commits and comments

Issues == 1..MaxIssues

Values == Nonces \cup Strays

ASSUME EnrollAssumption ==
    /\ Bot \in Issuers
    /\ Nonces \cap Strays = {} /\ NoNonce \notin Values
    /\ Values \cap (Apps \cup {NoApp}) = {}
    /\ MaxIssues \in Nat /\ IssuePage \in Nat \ {0}
    /\ CommentPage \in Nat \ {0}
    /\ Validity \in Nat /\ MaxTime \in Nat
    /\ MaxFaults \in Nat /\ MaxActs \in Nat

VARIABLES
    filed,      \* issues 1..filed exist
    body, label, open,  \* of each issue: form, labels, state
    comments,   \* comments[i]: how many comments fill the issue's first page
    thread,     \* thread[i]: the markers in the bot's comments on that page
    posted,     \* posted[i]: challenges ever posted, counted up to two
    declared,   \* declared[r]: the id of appinfo/info.xml, NoApp if none
    served,     \* served[r]: the nonce in the challenge file
    commits,    \* commits[r]: each <<declared, served>> r's branch ever held
    now,
    phase,      \* the bot's next call
    todo, snap, \* the issues of this run still to process, bodies as listed
    cur, nonce,     \* the issue in process and its nonce
    want, quote,    \* the verdict it gets: the label, a marker in the comment
    spent,      \* spent[c]: the request and the nonce c was minted on
    delivered,  \* delivered[i]: the certificates posted to issue i
    faults, acts

issueVars == <<filed, body, label, open, comments, thread, posted>>
repoVars == <<declared, served, commits>>
botVars == <<phase, todo, snap, cur, nonce, want, quote>>
histVars == <<spent, delivered>>
boundVars == <<faults, acts>>
vars == <<commitVars, issueVars, repoVars, now, botVars, histVars, boundVars>>

NoIssue == 0

Labels == {"invalid", "needs-changes", "awaiting-challenge", "expired",
           "rejected", "issued"}

(* What parseForm, csr.Parse and appid.ValidateStrict make of a body.      *)
Forms == [app : Apps, repo : Repos]

(* A body whose form, CSR or CommonName is refused, and the marker in the  *)
(* part of it that the verdict quotes.                                     *)
Refused == [quotes : Values \cup {NoNonce}]

BadForm == [quotes |-> NoNonce]

Challenge == [nonce : Values, at : 0..MaxTime, quoted : BOOLEAN]

Proof == [issue : Issues \cup {NoIssue}, nonce : Values \cup {NoNonce}]

NoProof == [issue |-> NoIssue, nonce |-> NoNonce]

Working == {"info", "comments", "post", "await", "file", "ledger", "issued",
            "close", "terminal", "mark"}

-----------------------------------------------------------------------------
(* The form in process, the nonces an issue's first page shows, and the    *)
(* values a developer has to write into files and forms.                   *)
Form == snap[cur]

NoncesOf(i) == {thread[i][k].nonce : k \in 1..Len(thread[i])}

Public == UNION {NoncesOf(i) : i \in Issues}

Known == Public \cup Strays

(* A comment is appended; beyond the first page nobody reads it again.     *)
AddComment(i) ==
    comments' = [comments EXCEPT ![i] = IF @ < CommentPage THEN @ + 1 ELSE @]

(* The comment to the issue in process holds the marker of n.              *)
AddMarker(n, q) ==
    thread' = [thread EXCEPT ![cur] =
                  Append(@, [nonce |-> n, at |-> now, quoted |-> q])]

Issued(i) == "issued" \in label[i]

(* To the next call for this issue, or on to the next issue.               *)
Goto(p) == phase' = p /\ UNCHANGED <<todo, snap, cur, nonce, want, quote>>

NextIssue ==
    /\ phase' = "next" /\ cur' = NoIssue /\ nonce' = NoNonce
    /\ want' = "none" /\ quote' = NoNonce
    /\ UNCHANGED <<todo, snap>>

(* terminal(): a comment that quotes n, then label l.                      *)
Terminal(l, n) ==
    /\ phase' = "terminal" /\ want' = l /\ quote' = n
    /\ UNCHANGED <<todo, snap, cur, nonce>>

Opened == {i \in 1..filed : open[i]}

(* One page of the open issues, newest first.                              *)
Page == {i \in Opened : Cardinality({j \in Opened : j > i}) < IssuePage}

Listing(list) == [i \in Issues |-> IF i \in list THEN body[i] ELSE BadForm]

-----------------------------------------------------------------------------
List(list) ==
    /\ phase = "rest"
    /\ phase' = "next" /\ todo' = list /\ snap' = Listing(list)
    /\ UNCHANGED <<commitVars, issueVars, repoVars, now, cur, nonce, want,
                   quote, histVars, boundVars>>

(* Mutation: an issue with any verdict is final.                           *)
StartRunFresh == List({i \in Page : label[i] = {}})

(* A poll lists the open requests, with their bodies and labels; one that  *)
(* is listed as issued is skipped.                                         *)
StartRun == List({i \in Page : ~Issued(i)})

EndRun ==
    /\ phase = "next" /\ todo = {}
    /\ phase' = "rest" /\ snap' = Listing({})
    /\ UNCHANGED <<commitVars, issueVars, repoVars, now, todo, cur, nonce,
                   want, quote, histVars, boundVars>>

(* Process begins: steps 1-3, on the body as it was listed.                *)
Pick(i) ==
    /\ phase = "next" /\ i \in todo /\ \A j \in todo : j <= i
    /\ todo' = todo \ {i} /\ cur' = i
    /\ IF snap[i] \in Forms
          THEN phase' = "info" /\ UNCHANGED <<want, quote>>
          ELSE /\ phase' = "terminal" /\ want' = "invalid"
               /\ quote' = snap[i].quotes
    /\ UNCHANGED <<commitVars, issueVars, repoVars, now, snap, nonce,
                   histVars, boundVars>>

Quotable(a) == IF a \in Values THEN a ELSE NoNonce

(* Steps 4-5: the default branch's info.xml must declare the CSR's appId.  *)
ReadInfo ==
    /\ phase = "info"
    /\ IF declared[Form.repo] = Form.app
          THEN Goto("comments")
          ELSE Terminal("needs-changes", Quotable(declared[Form.repo]))
    /\ UNCHANGED <<commitVars, issueVars, repoVars, now, histVars, boundVars>>

-----------------------------------------------------------------------------
Latest(i) == thread[i][Len(thread[i])]

Expired(c) == now - c.at > Validity

Await(c) ==
    /\ phase' = "file" /\ nonce' = c.nonce
    /\ UNCHANGED <<todo, snap, cur, want, quote>>

(* Mutation: the challenge posted earlier is not recognized.               *)
ReadCommentsAfresh ==
    /\ phase = "comments"
    /\ Goto("post")
    /\ UNCHANGED <<commitVars, issueVars, repoVars, now, histVars, boundVars>>

(* Mutation: a missing challenge is not told from a posted one.            *)
ReadCommentsUnchecked ==
    /\ phase = "comments"
    /\ IF thread[cur] = <<>> THEN Goto("file") ELSE Await(Latest(cur))
    /\ UNCHANGED <<commitVars, issueVars, repoVars, now, histVars, boundVars>>

(* Mutation: expiry is looked at only when the file does not match.        *)
ReadCommentsLate ==
    /\ phase = "comments"
    /\ IF thread[cur] = <<>> THEN Goto("post")
       ELSE IF Expired(Latest(cur)) /\ served[Form.repo] # Latest(cur).nonce
       THEN Terminal("expired", NoNonce) ELSE Await(Latest(cur))
    /\ UNCHANGED <<commitVars, issueVars, repoVars, now, histVars, boundVars>>

(* priorChallenge: the last marker in a comment of the bot's, of any kind, *)
(* on the first page of comments, and its age.                             *)
ReadComments ==
    /\ phase = "comments"
    /\ CASE thread[cur] = <<>> -> Goto("post")
         [] thread[cur] # <<>> /\ Expired(Latest(cur)) ->
                Terminal("expired", NoNonce)
         [] OTHER -> Await(Latest(cur))
    /\ UNCHANGED <<commitVars, issueVars, repoVars, now, histVars, boundVars>>

(* postChallenge: a comment with a fresh nonce.  On a full first page it   *)
(* will never be read back there, and its nonce is like a stray one.       *)
PostChallenge ==
    /\ phase = "post"
    /\ IF comments[cur] < CommentPage
          THEN \E n \in Nonces \ Public : AddMarker(n, FALSE)
          ELSE UNCHANGED thread
    /\ AddComment(cur)
    /\ posted' = [posted EXCEPT ![cur] = IF @ < 2 THEN @ + 1 ELSE @]
    /\ Goto("await")
    /\ UNCHANGED <<commitVars, filed, body, label, open, repoVars, now,
                   histVars, boundVars>>

LabelAwaiting ==
    /\ phase = "await"
    /\ label' = [label EXCEPT ![cur] = @ \cup {"awaiting-challenge"}]
    /\ NextIssue
    /\ UNCHANGED <<commitVars, filed, body, open, comments, thread, posted,
                   repoVars, now, histVars, boundVars>>

(* Mutation: any challenge file will do.                                   *)
ReadChallengeAny ==
    /\ phase = "file"
    /\ IF served[Form.repo] # NoNonce
          THEN BeginIssue(Bot, Form.app, Form.repo) /\ Goto("ledger")
          ELSE NextIssue /\ UNCHANGED commitVars
    /\ UNCHANGED <<issueVars, repoVars, now, histVars, boundVars>>

(* The challenge file on the default branch must hold the nonce; if not,   *)
(* the issue waits for a later poll.                                       *)
ReadChallenge ==
    /\ phase = "file"
    /\ IF served[Form.repo] = nonce
          THEN BeginIssue(Bot, Form.app, Form.repo) /\ Goto("ledger")
          ELSE NextIssue /\ UNCHANGED commitVars
    /\ UNCHANGED <<issueVars, repoVars, now, histVars, boundVars>>

-----------------------------------------------------------------------------
(* Step 8: the ledger is read; a foreign or reserved appId is rejected.    *)
CheckLedger ==
    /\ phase = "ledger"
    /\ LoadIssue(Bot)
    /\ IF pc'[Bot] = "rejected" THEN Terminal("rejected", NoNonce)
                                ELSE UNCHANGED botVars
    /\ UNCHANGED <<issueVars, repoVars, now, histVars, boundVars>>

(* Step 9: the leaf is minted.                                             *)
SignLeaf(c) ==
    /\ phase = "ledger"
    /\ Sign(Bot, c)
    /\ spent' = [spent EXCEPT ![c] = [issue |-> cur, nonce |-> nonce]]
    /\ UNCHANGED <<issueVars, repoVars, now, botVars, delivered, boundVars>>

(* Mutation: the answer to a successful write is taken for an error.       *)
CommitTakenForError ==
    /\ phase = "ledger"
    /\ PutReplyLost(Bot)
    /\ NextIssue
    /\ UNCHANGED <<issueVars, repoVars, now, histVars, boundVars>>

(* Step 10: one write, which a conflict sends back to the ledger.  A 409   *)
(* on an unchanged file is one of the faults.                              *)
Commit ==
    /\ phase = "ledger"
    /\ Put(Bot)
    /\ UNCHANGED <<issueVars, repoVars, now, botVars, histVars, boundVars>>

CommitConflict ==
    /\ phase = "ledger"
    /\ PutConflict(Bot)
    /\ IF ledger[job[Bot].app] = base[Bot]
          THEN faults < MaxFaults /\ faults' = faults + 1 ELSE UNCHANGED faults
    /\ UNCHANGED <<issueVars, repoVars, now, botVars, histVars, acts>>

CommitRetry ==
    /\ phase = "ledger"
    /\ Reload(Bot)
    /\ IF pc'[Bot] = "failed" THEN NextIssue ELSE UNCHANGED botVars
    /\ UNCHANGED <<issueVars, repoVars, now, histVars, boundVars>>

(* Step 11: the chain is posted, the issue labelled and closed.            *)
Deliver ==
    /\ phase = "ledger" /\ pc[Bot] = "done"
    /\ delivered' = [delivered EXCEPT ![cur] = @ \cup {job[Bot].cert}]
    /\ AddComment(cur)
    /\ Goto("issued")
    /\ UNCHANGED <<commitVars, filed, body, label, open, thread, posted,
                   repoVars, now, spent, boundVars>>

LabelIssued ==
    /\ phase = "issued"
    /\ label' = [label EXCEPT ![cur] =
                    (@ \ {"awaiting-challenge"}) \cup {"issued"}]
    /\ Goto("close")
    /\ UNCHANGED <<commitVars, filed, body, open, comments, thread, posted,
                   repoVars, now, histVars, boundVars>>

CloseIssue ==
    /\ phase = "close"
    /\ open' = [open EXCEPT ![cur] = FALSE]
    /\ NextIssue
    /\ UNCHANGED <<commitVars, filed, body, label, comments, thread, posted,
                   repoVars, now, histVars, boundVars>>

-----------------------------------------------------------------------------
(* terminal(): the comment, with the marker it may quote, then the label.  *)
(* The issue stays open, and the labels it already has stay on it.         *)
PostVerdict ==
    /\ phase = "terminal"
    /\ IF quote # NoNonce /\ comments[cur] < CommentPage
          THEN AddMarker(quote, TRUE) ELSE UNCHANGED thread
    /\ AddComment(cur)
    /\ Goto("mark")
    /\ UNCHANGED <<commitVars, filed, body, label, open, posted, repoVars, now,
                   histVars, boundVars>>

(* Mutation: a terminal label closes the issue.                            *)
LabelVerdictAndClose ==
    /\ phase = "mark"
    /\ label' = [label EXCEPT ![cur] = @ \cup {want}]
    /\ open' = [open EXCEPT ![cur] = FALSE]
    /\ NextIssue
    /\ UNCHANGED <<commitVars, filed, body, comments, thread, posted,
                   repoVars, now, histVars, boundVars>>

LabelVerdict ==
    /\ phase = "mark"
    /\ label' = [label EXCEPT ![cur] = @ \cup {want}]
    /\ NextIssue
    /\ UNCHANGED <<commitVars, filed, body, open, comments, thread, posted,
                   repoVars, now, histVars, boundVars>>

(* The ledger write dies with the processing of its issue.                 *)
AbandonWrite ==
    IF pc[Bot] \in Resting THEN UNCHANGED commitVars ELSE Fail(Bot)

(* A call failed: the error is logged and the run goes on with the next    *)
(* issue.                                                                  *)
IssueError ==
    /\ phase \in Working /\ faults < MaxFaults
    /\ faults' = faults + 1
    /\ AbandonWrite
    /\ NextIssue
    /\ UNCHANGED <<issueVars, repoVars, now, histVars, acts>>

(* The runner is killed: the rest of the batch waits for a later run.      *)
RunKilled ==
    /\ phase \in Working /\ faults < MaxFaults
    /\ faults' = faults + 1
    /\ AbandonWrite
    /\ phase' = "rest" /\ todo' = {} /\ snap' = Listing({})
    /\ cur' = NoIssue /\ nonce' = NoNonce /\ want' = "none"
    /\ quote' = NoNonce
    /\ UNCHANGED <<issueVars, repoVars, now, histVars, acts>>

BotStep ==
    \/ StartRun \/ EndRun \/ \E i \in Issues : Pick(i)
    \/ ReadInfo \/ ReadComments \/ PostChallenge \/ LabelAwaiting
    \/ ReadChallenge \/ CheckLedger \/ \E c \in Certs : SignLeaf(c)
    \/ Commit \/ CommitConflict \/ CommitRetry
    \/ Deliver \/ LabelIssued \/ CloseIssue
    \/ PostVerdict \/ LabelVerdict

-----------------------------------------------------------------------------
Act == acts < MaxActs /\ acts' = acts + 1

(* A request is filed; its author edits it while it is open.               *)
File(f) ==
    /\ Act /\ filed < MaxIssues
    /\ filed' = filed + 1
    /\ body' = [body EXCEPT ![filed + 1] = f]
    /\ UNCHANGED <<commitVars, label, open, comments, thread, posted, repoVars,
                   now, botVars, histVars, faults>>

EditForm(i, f) ==
    /\ Act /\ i \in Opened /\ body[i] # f
    /\ body' = [body EXCEPT ![i] = f]
    /\ UNCHANGED <<commitVars, filed, label, open, comments, thread, posted,
                   repoVars, now, botVars, histVars, faults>>

(* Somebody else comments: the first page holds that comment too.          *)
Chat(i) ==
    /\ Act /\ i <= filed /\ comments[i] < CommentPage
    /\ AddComment(i)
    /\ UNCHANGED <<commitVars, filed, body, label, open, thread, posted,
                   repoVars, now, botVars, histVars, faults>>

(* A commit to r's default branch changes info.xml, the challenge file or  *)
(* both; a is an appId or a text with a marker in it.                      *)
Push(r, a, n) ==
    /\ Act /\ <<a, n>> # <<declared[r], served[r]>>
    /\ declared' = [declared EXCEPT ![r] = a]
    /\ served' = [served EXCEPT ![r] = n]
    /\ commits' = [commits EXCEPT ![r] = @ \cup {<<a, n>>}]
    /\ UNCHANGED <<commitVars, issueVars, now, botVars, histVars, faults>>

(* An org member edits a ledger by hand.                                   *)
Override(a, r, b) ==
    /\ Reassign(a, r, b)
    /\ UNCHANGED <<issueVars, repoVars, now, botVars, histVars, boundVars>>

Tick ==
    /\ now < MaxTime
    /\ now' = now + 1
    /\ UNCHANGED <<commitVars, issueVars, repoVars, botVars, histVars,
                   boundVars>>

Written == Forms \cup [quotes : Known \cup {NoNonce}]

EnvStep ==
    \/ \E f \in Written : File(f) \/ \E i \in Issues : EditForm(i, f)
    \/ \E i \in Issues : Chat(i)
    \/ \E r \in Repos, a \in Apps \cup {NoApp} \cup Known,
          n \in Known \cup {NoNonce} : Push(r, a, n)
    \/ \E a \in Apps, r \in Repos, b \in BOOLEAN : Override(a, r, b)
    \/ Tick

(* Some requests wait already, none of them looked at yet.                 *)
Init ==
    /\ CommitInit
    /\ filed \in 0..MaxIssues
    /\ body \in [Issues -> Forms \cup [quotes : Strays \cup {NoNonce}]]
    /\ \A i \in Issues : i > filed => body[i] = BadForm
    /\ label = [i \in Issues |-> {}]
    /\ open = [i \in Issues |-> TRUE]
    /\ comments = [i \in Issues |-> 0]
    /\ thread = [i \in Issues |-> <<>>]
    /\ posted = [i \in Issues |-> 0]
    /\ declared \in [Repos -> Apps \cup {NoApp} \cup Strays]
    /\ served = [r \in Repos |-> NoNonce]
    /\ commits = [r \in Repos |-> {<<declared[r], NoNonce>>}]
    /\ now = 0
    /\ phase = "rest" /\ todo = {} /\ snap = [i \in Issues |-> BadForm]
    /\ cur = NoIssue /\ nonce = NoNonce /\ want = "none" /\ quote = NoNonce
    /\ spent = [c \in Certs |-> NoProof]
    /\ delivered = [i \in Issues |-> {}]
    /\ faults = 0 /\ acts = 0

Next == BotStep \/ IssueError \/ RunKilled \/ EnvStep

(* The schedule keeps starting runs and a started run goes on; developers  *)
(* and org members owe nothing.                                            *)
Spec == Init /\ [][Next]_vars /\ WF_vars(BotStep)
-----------------------------------------------------------------------------
CertsOf(i) == {c \in Certs : spent[c].issue = i}

Recorded(c) == \E a \in Apps : Find(ledger[a], c)

(* Types, and what each call has at hand: an issue in process, its nonce   *)
(* from the moment the challenge file is fetched, a ledger write only in   *)
(* the ledger phase.                                                       *)
TypeOK ==
    /\ CommitTypeOK
    /\ filed \in 0..MaxIssues
    /\ body \in [Issues -> Forms \cup Refused]
    /\ label \in [Issues -> SUBSET Labels]
    /\ open \in [Issues -> BOOLEAN]
    /\ comments \in [Issues -> 0..CommentPage]
    /\ thread \in [Issues -> Seq(Challenge)]
    /\ posted \in [Issues -> 0..2]
    /\ declared \in [Repos -> Apps \cup {NoApp} \cup Values]
    /\ served \in [Repos -> Values \cup {NoNonce}]
    /\ commits \in [Repos -> SUBSET ((Apps \cup {NoApp} \cup Values)
                                     \X (Values \cup {NoNonce}))]
    /\ now \in 0..MaxTime
    /\ phase \in {"rest", "next"} \cup Working
    /\ todo \in SUBSET Issues
    /\ snap \in [Issues -> Forms \cup Refused]
    /\ cur \in Issues \cup {NoIssue}
    /\ nonce \in Values \cup {NoNonce}
    /\ want \in Labels \cup {"none"}
    /\ quote \in Values \cup {NoNonce}
    /\ spent \in [Certs -> Proof]
    /\ delivered \in [Issues -> SUBSET Certs]
    /\ faults \in 0..MaxFaults /\ acts \in 0..MaxActs
    /\ cur # NoIssue <=> phase \in Working
    /\ phase \in {"file", "ledger", "issued", "close"} => nonce # NoNonce
    /\ phase \in {"info", "comments", "post", "await", "file", "ledger"}
          => Form \in Forms
    /\ phase # "ledger" => pc[Bot] \in Resting

(* A certificate is minted only for a repo whose default branch has held   *)
(* the nonce of a marker in the bot's comments on the request, and has     *)
(* declared the appId the certificate is recorded under (spec 4 steps      *)
(* 4-9).  The marker may be one that a verdict quotes (steps.go:25-29).    *)
ProvenControl ==
    \A c \in Certs : grant[c] # NoRepo =>
        /\ spent[c].issue \in Issues
        /\ spent[c].nonce \in NoncesOf(spent[c].issue)
        /\ \E p \in commits[grant[c]] : p[2] = spent[c].nonce
        /\ \A a \in Apps : Find(ledger[a], c) =>
              \E p \in commits[grant[c]] : p[1] = a

(* A certificate posted to a request was minted for that request and is in *)
(* the ledger, where it can be found to be revoked, whatever failed,       *)
(* conflicted or was edited by hand (issue: commitLedger, then delivery).  *)
DeliveredIsRecorded ==
    \A i \in Issues : \A c \in delivered[i] : c \in CertsOf(i) /\ Recorded(c)

(* A request yields one recorded certificate, edited and answered as it    *)
(* may be; only an error after the ledger write can add another, one per   *)
(* error.                                                                  *)
DuplicatesOnlyByFault ==
    \A i \in Issues :
        Cardinality({c \in CertsOf(i) : Recorded(c)}) <= 1 + faults

(* For a request that shows a marker on the first page of its comments the *)
(* bot has generated at most one challenge and will generate no further    *)
(* one (priorChallenge finds it, whatever failed in between).              *)
ChallengeOnce == \A i \in Issues : thread[i] # <<>> => posted[i] <= 1

(* A closed request has been served: its certificate was posted to it and  *)
(* it is labelled issued (helpers.go:11: other verdicts leave it open).    *)
ClosedIsServed ==
    \A i \in Issues : ~open[i] => delivered[i] # {} /\ Issued(i)

(* A request that is labelled issued gets no further certificate, nor does *)
(* one that was told that its challenge expired, unless the last marker in *)
(* the bot's comments is one that a verdict quotes (enroll.go:67, 136-139; *)
(* steps.go:25-29).                                                        *)
VerdictIsFinal ==
    [][\A i \in Issues :
          \/ Issued(i)
          \/ "expired" \in label[i] /\ ~Latest(i).quoted
          => CertsOf(i)' \subseteq CertsOf(i)]_vars

(* From some time on the developer does what the bot asks, and the request *)
(* is among the newest open ones that a poll lists.                        *)
Cooperates(i) ==
    /\ i \in Page /\ body[i] \in Forms
    /\ declared[body[i].repo] = body[i].app
    /\ thread[i] # <<>> => served[body[i].repo] = Latest(i).nonce

Resolved(i) == label[i] \cap {"issued", "rejected", "expired"} # {}

PageFull(i) == thread[i] = <<>> /\ comments[i] = CommentPage

(* A developer who fixes the request and publishes the challenge gets the  *)
(* certificate or a final no, however often calls failed before, unless    *)
(* the first page of comments was full before the challenge was posted or  *)
(* newer open requests push this one off the page of the poll              *)
(* (rest.go:137).                                                          *)
RequestResolved ==
    \A i \in Issues :
        (<>[]Cooperates(i)) => <>(Resolved(i) \/ PageFull(i))

-----------------------------------------------------------------------------
(* Statements of the documentation that the code does not keep.            *)

(* A nonce is "single-use, issue-scoped"; the bot "compares to the nonce   *)
(* from the same issue; no cross-issue reuse" (design 5.3).                *)
NonceIssueScoped ==
    \A c, d \in Certs :
        spent[c].nonce = spent[d].nonce /\ spent[c] # NoProof
        => spent[c].issue = spent[d].issue

(* info.xml is read "on the same commit of the default branch where the    *)
(* nonce was verified (one consistent snapshot)" (design 5.2).             *)
SameSnapshot ==
    \A c \in Certs, a \in Apps :
        Find(ledger[a], c) => <<a, spent[c].nonce>> \in commits[grant[c]]
=============================================================================
