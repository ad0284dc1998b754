---------------------------- MODULE RevokeProofs ----------------------------
(***************************************************************************)
(* Self-service revocation for any number of requests, certificates,       *)
(* dispatches, edits and faults.  The bot's ledger write is a writer of    *)
(* LedgerCommit, so every step of Revoke is one of LedgerCommit or leaves  *)
(* its variables alone, and the invariant of the write protocol carries    *)
(* over; what is left is that the bot answers for what it wrote.           *)
(***************************************************************************)
EXTENDS Revoke, LedgerCommitProofs

(* The state of the issues and of the bot, by type.                        *)
IssueTypes ==
    /\ filed \in 0..MaxIssues
    /\ body \in [Issues -> Bodies]
    /\ label \in [Issues -> SUBSET {"invalid", "revoked"}]
    /\ open \in [Issues -> BOOLEAN]
    /\ answered \in [Issues -> Certs \cup {NoCert}]
    /\ shown \in SUBSET Certs
    /\ faults \in 0..MaxFaults /\ acts \in 0..MaxActs

BotTypes ==
    /\ phase \in {"rest", "next"} \cup Working
    /\ todo \in SUBSET Issues
    /\ snap \in [Issues -> Bodies]
    /\ cur \in Issues \cup {NoIssue}
    /\ want \in {"none", "invalid", "revoked"}
    /\ cur # NoIssue <=> phase \in Working
    /\ phase # "ledger" => pc[Bot] \in Resting
    /\ want = "none" <=> phase \in {"rest", "next", "ledger"}

(* The certificate in process is the one signer of the request in process. *)
WorksForSigner ==
    phase = "ledger" =>
        /\ job[Bot].cert \in Certs
        /\ job[Bot].app = AppOf(job[Bot].cert)
        /\ Eligible(snap[cur], job[Bot].cert)

(* To be answered as revoked is to be revoked.                             *)
Earned ==
    /\ want = "revoked" =>
          \E c \in Certs : Eligible(snap[cur], c) /\ IsRevoked(ledger[AppOf(c)], c)
    /\ phase = "close" => want = "revoked" /\ Revoked(cur)

Answers ==
    \A i \in Issues :
        /\ Revoked(i) => /\ answered[i] \in Certs
                         /\ AppOf(answered[i]) \in Apps
                         /\ IsRevoked(ledger[AppOf(answered[i])], answered[i])
        /\ i <= filed /\ ~open[i] => Revoked(i)

(* Who signed what is filed or being processed has shown the key.          *)
SignersShown ==
    \A i \in Issues : Verify(body[i]) \subseteq shown /\ Verify(snap[i]) \subseteq shown

OfficersNamed ==
    \A w \in PrivRevokers : pc[w] \in {"load", "put", "reload"}
                            => job[w].rev.actor # NoActor

RevInv ==
    /\ CommitInv
    /\ IssueTypes /\ BotTypes
    /\ WorksForSigner /\ Earned /\ Answers
    /\ SignersShown /\ OfficersNamed

-----------------------------------------------------------------------------
LEMMA BotIsWriter ==
    /\ Bot \in Writers /\ Bot \notin Issuers /\ Bot \notin PrivRevokers
    /\ \A w \in PrivRevokers : w \in Writers /\ w # Bot
  BY CommitAssumption, RevokeAssumption DEF Writers

LEMMA EligibleApp ==
    ASSUME NEW b, NEW c \in Certs, Eligible(b, c)
    PROVE  AppOf(c) \in Apps /\ c \in Verify(b)
  BY RevokeAssumption DEF Eligible

(* Every step is a step of the write protocol, or none of its business.    *)
LEMMA CommitMoves ==
    ASSUME [Next]_vars
    PROVE  [CommitNext]_commitVars
  <1>1. CASE \E i \in Issues : Pick(i)
    <2>1. PICK i \in Issues : Pick(i)
      BY <1>1
    <2>2. CASE UNCHANGED commitVars
      BY <2>2
    <2>3. CASE \E c \in Certs : Eligible(snap[i], c)
                                /\ BeginSelfRevoke(Bot, AppOf(c), c)
      <3>1. PICK c \in Certs : Eligible(snap[i], c)
                               /\ BeginSelfRevoke(Bot, AppOf(c), c)
        BY <2>3
      <3>2. AppOf(c) \in Apps
        BY <3>1, EligibleApp
      <3> QED
        BY <3>1, <3>2, RevokeAssumption DEF CommitNext
    <2> QED
      BY <2>1, <2>2, <2>3 DEF Pick
  <1>2. CASE WriterStep(Bot)
    BY <1>2, BotIsWriter DEF CommitNext
  <1>3. CASE CheckLedger \/ Flip \/ FlipConflict \/ FlipRetry
    BY <1>2, <1>3 DEF CheckLedger, Flip, FlipConflict, FlipRetry, WriterStep
  <1>4. CASE IssueError \/ RunKilled
    BY <1>2, <1>4 DEF IssueError, RunKilled, AbandonWrite, WriterStep
  <1>5. CASE \E w \in PrivRevokers : PrivStep(w)
    BY <1>5, BotIsWriter DEF PrivStep, CommitNext
  <1>6. CASE \E w \in PrivRevokers, a \in Apps, c \in Certs, rev \in Revocations :
                Dispatch(w, a, c, rev)
    BY <1>6 DEF Dispatch, CommitNext
  <1>7. CASE \E a \in Apps, c \in Certs, rev \in Revocations : Override(a, c, rev)
    BY <1>7 DEF Override, CommitNext
  <1>8. CASE \/ StartRun \/ EndRun \/ Flipped \/ PostComment \/ SetLabel \/ CloseIssue
             \/ \E b \in Bodies : FileRequest(b)
             \/ \E b \in Bodies, i \in Issues : EditRequest(i, b)
             \/ UNCHANGED vars
    BY <1>8 DEF StartRun, List, EndRun, Flipped, PostComment, SetLabel,
         CloseIssue, FileRequest, EditRequest, vars
  <1> QED
    BY <1>1, <1>3, <1>4, <1>5, <1>6, <1>7, <1>8 DEF Next, BotStep, EnvStep

-----------------------------------------------------------------------------
(* What a step does to the state of the bot's writer.                      *)
LEMMA BotWriterSteps ==
    ASSUME TypeInv
    PROVE  /\ LoadSelfRevoke(Bot) =>
                 \/ pc'[Bot] \in {"invalid", "already"}
                 \/ pc'[Bot] = "put" /\ job'[Bot] = job[Bot]
           /\ Put(Bot) => pc'[Bot] = "done" /\ job'[Bot] = job[Bot]
           /\ PutConflict(Bot) => pc'[Bot] = "reload" /\ job'[Bot] = job[Bot]
           /\ Reload(Bot) =>
                 \/ pc'[Bot] = "failed"
                 \/ pc'[Bot] = "put" /\ job'[Bot] = job[Bot]
           /\ AbandonWrite => pc'[Bot] \in Resting
  BY BotIsWriter
     DEF TypeInv, CommitTypeOK, LoadSelfRevoke, Put, PutConflict, Reload,
         AbandonWrite, Fail, PutReplyLost, Stop, Take, Resting, commitVars

(* The answers stand while the labels do.                                  *)
LEMMA AnswersFrame ==
    ASSUME Answers, NothingLost, UNCHANGED issueVars
    PROVE  Answers'
  BY DEF Answers, NothingLost, Revoked, IsRevoked, issueVars

LEMMA IssueFrame ==
    ASSUME IssueTypes, UNCHANGED <<issueVars, shown, acts>>,
           faults' \in 0..MaxFaults
    PROVE  IssueTypes'
  BY DEF IssueTypes, issueVars

(* The bot goes to the next issue, or its run ends.                        *)
LEMMA BotRests ==
    ASSUME BotTypes, phase' \in {"rest", "next"}, todo' \in SUBSET Issues,
           snap' \in [Issues -> Bodies], cur' = NoIssue, want' = "none",
           pc'[Bot] \in Resting
    PROVE  BotTypes' /\ WorksForSigner' /\ Earned'
  BY DEF BotTypes, WorksForSigner, Earned, Working

(* A write by another than the bot.                                        *)
LEMMA BotFrame ==
    ASSUME BotTypes, WorksForSigner, Earned, NothingLost,
           UNCHANGED <<issueVars, botVars>>,
           pc'[Bot] = pc[Bot], job'[Bot] = job[Bot]
    PROVE  BotTypes' /\ WorksForSigner' /\ Earned'
  <1>1. BotTypes' /\ WorksForSigner'
    BY DEF BotTypes, WorksForSigner, botVars
  <1>2. \A b : \A c \in Certs : Eligible(b, c) => AppOf(c) \in Apps
    BY RevokeAssumption DEF Eligible
  <1>3. Earned'
    BY <1>2 DEF Earned, NothingLost, IsRevoked, Revoked, issueVars, botVars
  <1> QED
    BY <1>1, <1>3

LEMMA ShownFrame ==
    ASSUME SignersShown, UNCHANGED <<issueVars, shown, snap>>
    PROVE  SignersShown'
  BY DEF SignersShown, issueVars

LEMMA OfficersFrame ==
    ASSUME OfficersNamed,
           \A w \in PrivRevokers : pc'[w] = pc[w] /\ job'[w] = job[w]
    PROVE  OfficersNamed'
  BY DEF OfficersNamed

LEMMA ListingType ==
    ASSUME IssueTypes, NEW list
    PROVE  /\ Listing(list) \in [Issues -> Bodies]
           /\ SignersShown => \A i \in Issues : Verify(Listing(list)[i]) \subseteq shown
  BY DEF IssueTypes, Listing, Bodies, SignersShown, Verify

-----------------------------------------------------------------------------
(* A step of the bot's writer leaves the privileged revokers alone.        *)
LEMMA BotAlone ==
    ASSUME RevInv,
           \/ WriterStep(Bot)
           \/ UNCHANGED commitVars
           \/ \E c \in Certs : AppOf(c) \in Apps /\ BeginSelfRevoke(Bot, AppOf(c), c)
    PROVE  OfficersNamed'
  <1>1. TypeInv /\ OfficersNamed
    BY DEF RevInv, CommitInv
  <1>2. CASE WriterStep(Bot)
    BY <1>1, <1>2, StepIsAlone, BotIsWriter, OfficersFrame DEF OnlyRun
  <1>3. CASE UNCHANGED commitVars
    BY <1>1, <1>3, OfficersFrame DEF commitVars
  <1>4. CASE \E c \in Certs : AppOf(c) \in Apps /\ BeginSelfRevoke(Bot, AppOf(c), c)
    <2>1. PICK c \in Certs : AppOf(c) \in Apps /\ BeginSelfRevoke(Bot, AppOf(c), c)
      BY <1>4
    <2>2. [NoJob EXCEPT !.app = AppOf(c), !.cert = c] \in Jobs
      BY <2>1, NoJobType DEF Jobs
    <2> QED
      BY <1>1, <2>1, <2>2, StepIsAlone, BotIsWriter, OfficersFrame
         DEF OnlyRun, BeginSelfRevoke
  <1> QED
    BY <1>2, <1>3, <1>4

(* The steps of the bot that write nothing to the issues.                  *)
LEMMA QuietStep ==
    ASSUME RevInv, CommitInv', NothingLost, OfficersNamed',
           BotTypes' /\ WorksForSigner' /\ Earned',
           UNCHANGED <<issueVars, shown, acts>>, faults' \in 0..MaxFaults,
           snap' = snap \/ \E list : snap' = Listing(list)
    PROVE  RevInv'
  <1>1. IssueTypes' /\ Answers'
    BY IssueFrame, AnswersFrame DEF RevInv
  <1>2. SignersShown'
    <2>1. \A i \in Issues : Verify(snap'[i]) \subseteq shown
      BY ListingType DEF RevInv, SignersShown
    <2> QED
      BY <2>1 DEF RevInv, SignersShown, issueVars
  <1> QED
    BY <1>1, <1>2 DEF RevInv

LEMMA ListingSteps ==
    ASSUME RevInv, CommitInv', NothingLost, StartRun \/ EndRun \/ RunKilled
    PROVE  RevInv'
  <1>1. /\ faults' \in 0..MaxFaults
        /\ UNCHANGED <<issueVars, shown, acts>>
        /\ phase' \in {"rest", "next"}
        /\ cur' = NoIssue /\ want' = "none"
        /\ \E list : snap' = Listing(list)
        /\ todo' \in SUBSET Issues
    <2>1. CASE StartRun
      <3>1. Page \subseteq Issues
        BY RevokeAssumption DEF RevInv, IssueTypes, Page, Opened, Issues
      <3> DEFINE list == {i \in Page : ~Revoked(i)}
      <3>2. list \in SUBSET Issues /\ List(list)
        BY <2>1, <3>1 DEF StartRun
      <3> HIDE DEF list
      <3>3. snap' = Listing(list) /\ todo' = list /\ phase = "rest"
            /\ phase' = "next" /\ UNCHANGED <<issueVars, cur, want, shown, faults, acts>>
        BY <3>2 DEF List
      <3>4. cur = NoIssue /\ want = "none" /\ faults \in 0..MaxFaults
        BY <3>3 DEF RevInv, IssueTypes, BotTypes, Working
      <3> QED
        BY <3>2, <3>3, <3>4
    <2>2. CASE EndRun
      BY <2>2 DEF EndRun, RevInv, IssueTypes, BotTypes, Working
    <2>3. CASE RunKilled
      BY <2>3, RevokeAssumption DEF RunKilled, RevInv, IssueTypes
    <2> QED
      BY <2>1, <2>2, <2>3
  <1>2. pc'[Bot] \in Resting
    BY BotWriterSteps DEF RevInv, CommitInv, StartRun, List, EndRun, RunKilled, BotTypes,
       commitVars
  <1>3. OfficersNamed'
    <2>1. WriterStep(Bot) \/ UNCHANGED commitVars
      BY DEF StartRun, List, EndRun, RunKilled, AbandonWrite, WriterStep
    <2> QED
      BY <2>1, BotAlone
  <1>4. snap' \in [Issues -> Bodies]
    BY <1>1, ListingType DEF RevInv
  <1>5. BotTypes' /\ WorksForSigner' /\ Earned'
    BY <1>1, <1>2, <1>4, BotRests DEF RevInv
  <1> QED
    BY <1>1, <1>3, <1>5, QuietStep

LEMMA PickStep ==
    ASSUME RevInv, CommitInv', NothingLost, NEW i \in Issues, Pick(i)
    PROVE  RevInv'
  <1>0. UNCHANGED <<issueVars, snap, shown, faults, acts>> /\ todo' \in SUBSET Issues
        /\ cur' = i /\ phase = "next" /\ want = "none" /\ i # NoIssue
    BY DEF Pick, RevInv, BotTypes, Issues, NoIssue, Working
  <1>1. faults' \in 0..MaxFaults
    BY <1>0 DEF RevInv, IssueTypes
  <1>2. CASE phase' = "comment" /\ want' = "invalid" /\ UNCHANGED commitVars
    <2>1. BotTypes' /\ WorksForSigner' /\ Earned'
      BY <1>0, <1>2
         DEF RevInv, BotTypes, WorksForSigner, Earned, Working, commitVars
    <2>2. OfficersNamed'
      BY <1>2, BotAlone
    <2> QED
      BY <1>0, <1>1, <2>1, <2>2, QuietStep
  <1>3. CASE \E c \in Certs : /\ Eligible(snap[i], c)
                              /\ BeginSelfRevoke(Bot, AppOf(c), c)
                              /\ phase' = "ledger" /\ UNCHANGED want
    <2>1. PICK c \in Certs : /\ Eligible(snap[i], c)
                             /\ BeginSelfRevoke(Bot, AppOf(c), c)
                             /\ phase' = "ledger" /\ UNCHANGED want
      BY <1>3
    <2>2. AppOf(c) \in Apps
      BY <2>1, EligibleApp
    <2>3. job'[Bot].cert = c /\ job'[Bot].app = AppOf(c)
      BY <2>1, BotIsWriter
         DEF BeginSelfRevoke, Begin, RevInv, CommitInv, TypeInv, CommitTypeOK, NoJob
    <2>4. BotTypes' /\ WorksForSigner' /\ Earned'
      BY <1>0, <2>1, <2>3
         DEF RevInv, BotTypes, WorksForSigner, Earned, Working
    <2>5. OfficersNamed'
      BY <2>1, <2>2, BotAlone
    <2> QED
      BY <1>0, <1>1, <2>4, <2>5, QuietStep
  <1> QED
    BY <1>2, <1>3 DEF Pick

LEMMA LedgerPhase ==
    ASSUME RevInv, CommitInv', NothingLost,
           CheckLedger \/ Flip \/ FlipConflict \/ FlipRetry \/ Flipped
    PROVE  RevInv'
  <1>0. /\ phase = "ledger" /\ want = "none" /\ cur \in Issues
        /\ UNCHANGED <<issueVars, shown, acts, snap>>
        /\ todo' = todo
        /\ TypeInv /\ BotTypes /\ WorksForSigner
        /\ Bot \in Writers /\ Bot \notin Issuers
    BY BotIsWriter
       DEF CheckLedger, Flip, FlipConflict, FlipRetry, Flipped, Answer, NextIssue,
           botVars, RevInv, CommitInv, BotTypes, Working
  <1>1. faults' \in 0..MaxFaults
    BY RevokeAssumption
       DEF CheckLedger, Flip, FlipConflict, FlipRetry, Flipped, RevInv, IssueTypes
  <1>2. OfficersNamed'
    <2>1. WriterStep(Bot) \/ UNCHANGED commitVars
      BY DEF CheckLedger, Flip, FlipConflict, FlipRetry, Flipped, WriterStep
    <2> QED
      BY <2>1, BotAlone
  <1>3. Eligible(snap[cur], job[Bot].cert) /\ job[Bot].cert \in Certs
        /\ job[Bot].app = AppOf(job[Bot].cert) /\ job[Bot].app \in Apps
    BY <1>0, EligibleApp DEF WorksForSigner
  <1>4. ASSUME UNCHANGED botVars, job'[Bot] = job[Bot]
        PROVE  BotTypes' /\ WorksForSigner' /\ Earned'
    BY <1>0, <1>4 DEF botVars, BotTypes, WorksForSigner, Earned
  <1>5. ASSUME Answer("invalid"), pc'[Bot] \in Resting
        PROVE  BotTypes' /\ WorksForSigner' /\ Earned'
    BY <1>0, <1>5 DEF Answer, BotTypes, WorksForSigner, Earned, Working
  <1>6. ASSUME Answer("revoked"), pc'[Bot] \in Resting,
               IsRevoked(ledger[job[Bot].app], job[Bot].cert)
        PROVE  BotTypes' /\ WorksForSigner' /\ Earned'
    <2>1. LET c == job[Bot].cert IN
             c \in Certs /\ Eligible(snap[cur], c) /\ IsRevoked(ledger'[AppOf(c)], c)
      BY <1>3, <1>6 DEF NothingLost, IsRevoked
    <2>2. Earned'
      BY <1>0, <1>6, <2>1 DEF Answer, Earned
    <2>3. BotTypes' /\ WorksForSigner'
      BY <1>0, <1>6 DEF Answer, BotTypes, WorksForSigner, Working
    <2> QED
      BY <2>2, <2>3
  <1>7. ASSUME NextIssue, pc'[Bot] \in Resting
        PROVE  BotTypes' /\ WorksForSigner' /\ Earned'
    BY <1>0, <1>7, BotRests DEF NextIssue, BotTypes
  <1>8. BotTypes' /\ WorksForSigner' /\ Earned'
    <2>1. CASE CheckLedger
      <3>1. LoadSelfRevoke(Bot)
        BY <2>1 DEF CheckLedger
      <3>2. CASE pc'[Bot] = "invalid"
        <4>1. Answer("invalid")
          BY <2>1, <3>2 DEF CheckLedger
        <4> QED
          BY <1>5, <3>2, <4>1 DEF Resting
      <3>3. CASE pc'[Bot] = "already"
        <4>1. Answer("revoked")
          BY <2>1, <3>3 DEF CheckLedger
        <4>2. IsRevoked(ledger[job[Bot].app], job[Bot].cert)
          BY <1>0, <3>1, <3>3
             DEF LoadSelfRevoke, Stop, Take, TypeInv, CommitTypeOK
        <4> QED
          BY <1>6, <3>3, <4>1, <4>2 DEF Resting
      <3>4. CASE pc'[Bot] \notin {"invalid", "already"}
        <4>1. UNCHANGED botVars
          BY <2>1, <3>4 DEF CheckLedger
        <4>2. job'[Bot] = job[Bot]
          BY <1>0, <3>1, <3>4, BotWriterSteps
        <4> QED
          BY <1>4, <4>1, <4>2
      <3> QED
        BY <3>2, <3>3, <3>4
    <2>2. CASE Flip \/ FlipConflict
      BY <1>0, <1>4, <2>2, BotWriterSteps DEF Flip, FlipConflict
    <2>3. CASE FlipRetry
      <3>1. CASE pc'[Bot] = "failed"
        BY <1>7, <2>3, <3>1 DEF FlipRetry, Resting
      <3>2. CASE pc'[Bot] # "failed"
        BY <1>0, <1>4, <2>3, <3>2, BotWriterSteps DEF FlipRetry
      <3> QED
        BY <3>1, <3>2
    <2>4. CASE Flipped
      <3>1. IsRevoked(ledger[job[Bot].app], job[Bot].cert)
        BY <1>0, <2>4 DEF Flipped, RevInv, CommitInv, ReportedIsCommitted
      <3>2. pc'[Bot] = "done"
        BY <2>4 DEF Flipped, commitVars
      <3> QED
        BY <1>6, <2>4, <3>1, <3>2 DEF Flipped, Resting
    <2> QED
      BY <2>1, <2>2, <2>3, <2>4
  <1> QED
    BY <1>0, <1>1, <1>2, <1>8, QuietStep

LEMMA PostStep ==
    ASSUME RevInv, CommitInv', NothingLost, PostComment \/ IssueError
    PROVE  RevInv'
  <1>1. CASE PostComment
    <2>1. BotTypes' /\ WorksForSigner' /\ Earned'
      BY <1>1
         DEF PostComment, Goto, RevInv, BotTypes, WorksForSigner, Earned, Working,
             commitVars
    <2>2. OfficersNamed'
      BY <1>1, BotAlone DEF PostComment
    <2>3. /\ UNCHANGED <<issueVars, shown, acts, snap>> /\ faults' \in 0..MaxFaults
      BY <1>1 DEF PostComment, Goto, RevInv, IssueTypes
    <2> QED
      BY <2>1, <2>2, <2>3, QuietStep
  <1>2. CASE IssueError
    <2>1. AbandonWrite /\ NextIssue
          /\ UNCHANGED <<issueVars, shown, acts>> /\ faults' \in 0..MaxFaults
      BY <1>2, RevokeAssumption DEF IssueError, RevInv, IssueTypes
    <2>2. OfficersNamed'
      BY <2>1, BotAlone DEF AbandonWrite, WriterStep
    <2>3. pc'[Bot] \in Resting
      BY <2>1, BotWriterSteps DEF RevInv, CommitInv
    <2>4. BotTypes' /\ WorksForSigner' /\ Earned' /\ snap' = snap
      BY <2>1, <2>3, BotRests DEF NextIssue, RevInv, BotTypes
    <2> QED
      BY <2>1, <2>2, <2>4, QuietStep
  <1> QED
    BY <1>1, <1>2

(* The label says what Earned says; the issue that is closed has it.       *)
LEMMA LabelStep ==
    ASSUME RevInv, CommitInv', NothingLost, SetLabel
    PROVE  RevInv'
  <1>1. /\ phase = "label" /\ cur \in Issues
        /\ label' = [label EXCEPT ![cur] = label[cur] \cup {want}]
        /\ want \in {"invalid", "revoked"} /\ pc[Bot] \in Resting
        /\ UNCHANGED commitVars
        /\ UNCHANGED <<filed, body, open, shown, faults, acts, snap, todo>>
        /\ IssueTypes /\ BotTypes
    BY DEF SetLabel, Goto, NextIssue, RevInv, BotTypes, Working
  <1>2. OfficersNamed' /\ pc'[Bot] \in Resting
    BY <1>1, BotAlone DEF commitVars
  <1>3. SignersShown'
    BY <1>1 DEF RevInv, SignersShown
  <1>4. CASE want = "revoked"
    <2>1. PICK c \in Certs : /\ Verify(snap[cur]) = {c}
                             /\ answered' = [answered EXCEPT ![cur] = c]
      BY <1>4 DEF SetLabel
    <2>2. Eligible(snap[cur], c) /\ IsRevoked(ledger[AppOf(c)], c)
      BY <1>4, <2>1 DEF RevInv, Earned, Eligible
    <2>3. AppOf(c) \in Apps /\ IsRevoked(ledger'[AppOf(c)], c)
      BY <2>2, EligibleApp DEF NothingLost, IsRevoked
    <2>4. /\ phase' = "close" /\ UNCHANGED <<cur, want>>
      BY <1>4 DEF SetLabel, Goto
    <2>5. IssueTypes'
      BY <1>1, <1>4, <2>1 DEF IssueTypes
    <2>6. BotTypes' /\ WorksForSigner'
      BY <1>1, <1>2, <1>4, <2>4 DEF BotTypes, WorksForSigner, Working
    <2>7. "revoked" \in label'[cur]
      BY <1>1, <1>4 DEF IssueTypes
    <2>8. Earned'
      BY <1>1, <1>4, <2>2, <2>3, <2>4, <2>7 DEF Earned, Revoked
    <2>9. Answers'
      <3> SUFFICES ASSUME NEW i \in Issues
                   PROVE  /\ Revoked(i)' =>
                               /\ answered'[i] \in Certs
                               /\ AppOf(answered'[i]) \in Apps
                               /\ IsRevoked(ledger'[AppOf(answered'[i])], answered'[i])
                          /\ i <= filed' /\ ~open'[i] => Revoked(i)'
        BY DEF Answers
      <3>1. CASE i = cur
        BY <1>1, <2>1, <2>3, <2>7, <3>1 DEF IssueTypes, Revoked
      <3>2. CASE i # cur
        <4>1. label'[i] = label[i] /\ answered'[i] = answered[i]
              /\ open'[i] = open[i] /\ filed' = filed
          BY <1>1, <2>1, <3>2 DEF IssueTypes
        <4> QED
          BY <4>1 DEF RevInv, Answers, NothingLost, IsRevoked, Revoked
      <3> QED
        BY <3>1, <3>2
    <2> QED
      BY <1>2, <1>3, <2>5, <2>6, <2>8, <2>9 DEF RevInv
  <1>5. CASE want = "invalid"
    <2>1. NextIssue /\ UNCHANGED answered
      BY <1>5 DEF SetLabel
    <2>2. IssueTypes'
      BY <1>1, <1>5, <2>1 DEF IssueTypes
    <2>3. BotTypes' /\ WorksForSigner' /\ Earned'
      BY <1>1, <1>2, <2>1, BotRests DEF NextIssue, BotTypes
    <2>4. \A i \in Issues : Revoked(i)' <=> Revoked(i)
      BY <1>1, <1>5 DEF IssueTypes, Revoked
    <2>5. Answers'
      BY <1>1, <2>1, <2>4 DEF RevInv, Answers, NothingLost, IsRevoked
    <2> QED
      BY <1>2, <1>3, <2>2, <2>3, <2>5 DEF RevInv
  <1> QED
    BY <1>1, <1>4, <1>5

LEMMA CloseStep ==
    ASSUME RevInv, CommitInv', NothingLost, CloseIssue
    PROVE  RevInv'
  <1>1. /\ phase = "close" /\ cur \in Issues /\ pc[Bot] \in Resting
        /\ open' = [open EXCEPT ![cur] = FALSE]
        /\ NextIssue /\ UNCHANGED commitVars
        /\ UNCHANGED <<filed, body, label, answered, shown, faults, acts>>
        /\ Revoked(cur) /\ IssueTypes /\ BotTypes
    BY DEF CloseIssue, RevInv, BotTypes, Working, Earned
  <1>2. OfficersNamed' /\ pc'[Bot] \in Resting
    BY <1>1, BotAlone DEF commitVars
  <1>3. BotTypes' /\ WorksForSigner' /\ Earned'
    BY <1>1, <1>2, BotRests DEF NextIssue, BotTypes
  <1>4. IssueTypes' /\ SignersShown'
    BY <1>1 DEF IssueTypes, NextIssue, RevInv, SignersShown
  <1>5. \A i \in Issues : /\ Revoked(i)' <=> Revoked(i)
                          /\ ~open'[i] => ~open[i] \/ i = cur
    BY <1>1 DEF IssueTypes, Revoked
  <1>6. Answers'
    BY <1>1, <1>5 DEF RevInv, Answers, NothingLost, IsRevoked
  <1> QED
    BY <1>2, <1>3, <1>4, <1>6 DEF RevInv

-----------------------------------------------------------------------------
(* Requests, dispatches, and edits by hand.                                *)
LEMMA RequestStep ==
    ASSUME RevInv, CommitInv', NothingLost,
           \E b \in Bodies : FileRequest(b) \/ \E i \in Issues : EditRequest(i, b)
    PROVE  RevInv'
  <1>1. PICK b \in Bodies : FileRequest(b) \/ \E i \in Issues : EditRequest(i, b)
    OBVIOUS
  <1>2. /\ UNCHANGED commitVars /\ UNCHANGED botVars
        /\ UNCHANGED <<label, answered, faults>>
        /\ Present(b) /\ acts < MaxActs /\ acts' = acts + 1
    BY <1>1 DEF FileRequest, EditRequest
  <1>3. Verify(b) \subseteq shown' /\ shown \subseteq shown' /\ shown' \in SUBSET Certs
    BY <1>1, <1>2, RevokeAssumption DEF Present, Verify, Bodies, RevInv, IssueTypes
  <1>4. \A w : pc'[w] = pc[w] /\ job'[w] = job[w]
    BY <1>2 DEF commitVars
  <1>5. OfficersNamed'
    BY <1>4, OfficersFrame DEF RevInv
  <1>6. BotTypes' /\ WorksForSigner' /\ Earned'
    <2>1. \A i : Revoked(i)' <=> Revoked(i)
      BY <1>2 DEF Revoked
    <2>2. ledger' = ledger
      BY <1>2 DEF commitVars
    <2> QED
      BY <1>2, <1>4, <2>1, <2>2 DEF RevInv, BotTypes, WorksForSigner, Earned, botVars
  <1>7. PICK j \in Issues :
           /\ body' = [body EXCEPT ![j] = b]
           /\ \/ open' = open /\ filed' = filed
              \/ /\ open' = [open EXCEPT ![j] = TRUE]
                 /\ filed' = filed + 1 /\ j = filed + 1
    <2>1. CASE FileRequest(b)
      <3>1. filed + 1 \in Issues
        BY <2>1, RevokeAssumption DEF FileRequest, RevInv, IssueTypes, Issues
      <3> QED
        BY <2>1, <3>1 DEF FileRequest
    <2>2. CASE \E i \in Issues : EditRequest(i, b)
      BY <2>2 DEF EditRequest
    <2> QED
      BY <1>1, <2>1, <2>2
  <1>8. IssueTypes'
    <2>1. filed' \in 0..MaxIssues /\ acts' \in 0..MaxActs /\ faults' \in 0..MaxFaults
      BY <1>2, <1>7, RevokeAssumption DEF RevInv, IssueTypes, Issues
    <2>2. body' \in [Issues -> Bodies] /\ open' \in [Issues -> BOOLEAN]
      BY <1>1, <1>7 DEF RevInv, IssueTypes
    <2> QED
      BY <1>2, <1>3, <2>1, <2>2 DEF RevInv, IssueTypes
  <1>9. SignersShown'
    <2>1. \A i \in Issues : body'[i] \in {b, body[i]} /\ snap'[i] = snap[i]
      BY <1>2, <1>7 DEF RevInv, IssueTypes, botVars
    <2> QED
      BY <1>3, <2>1 DEF RevInv, SignersShown
  <1>10. Answers'
    <2>1. \A i \in Issues : i <= filed' /\ ~open'[i] => i <= filed /\ ~open[i]
      BY <1>7, RevokeAssumption DEF RevInv, IssueTypes, Issues
    <2> QED
      BY <1>2, <2>1 DEF RevInv, Answers, NothingLost, IsRevoked, Revoked
  <1> QED
    BY <1>5, <1>6, <1>8, <1>9, <1>10 DEF RevInv

LEMMA OthersStep ==
    ASSUME RevInv, CommitInv', NothingLost,
           \/ \E w \in PrivRevokers : PrivStep(w)
           \/ \E a \in Apps, c \in Certs, rev \in Revocations :
                 \/ Override(a, c, rev)
                 \/ \E w \in PrivRevokers : Dispatch(w, a, c, rev)
    PROVE  RevInv'
  <1>0. TypeInv
    BY DEF RevInv, CommitInv
  <1>1. /\ UNCHANGED issueVars /\ UNCHANGED botVars /\ UNCHANGED <<shown, faults>>
        /\ acts' \in 0..MaxActs
    BY RevokeAssumption DEF PrivStep, Override, Dispatch, RevInv, IssueTypes
  <1>2. OfficersNamed' /\ pc'[Bot] = pc[Bot] /\ job'[Bot] = job[Bot]
    <2>1. ASSUME NEW w \in PrivRevokers, PrivStep(w)
          PROVE  OfficersNamed' /\ pc'[Bot] = pc[Bot] /\ job'[Bot] = job[Bot]
      <3>1. OnlyRun(w) /\ w \in Writers /\ w \notin Issuers
        BY <1>0, <2>1, StepIsAlone, BotIsWriter, CommitAssumption DEF PrivStep
      <3>2. pc'[w] \in {"load", "put", "reload"}
               => pc[w] \in {"load", "put", "reload"} /\ job'[w] = job[w]
        BY <1>0, <2>1, <3>1
           DEF PrivStep, WriterStep, TypeInv, CommitTypeOK, LoadIssue,
               LoadSelfRevoke, LoadPrivileged, Sign, Put, PutReplyLost,
               PutConflict, Reload, Fail, Stop, Take, Resting
      <3> QED
        BY <3>1, <3>2, BotIsWriter DEF OnlyRun, OfficersNamed, RevInv
    <2>2. ASSUME NEW a \in Apps, NEW c \in Certs, NEW rev \in Revocations,
                 Override(a, c, rev)
          PROVE  OfficersNamed' /\ pc'[Bot] = pc[Bot] /\ job'[Bot] = job[Bot]
      BY <2>2, OfficersFrame DEF Override, RevokeByHand, Edit, RevInv
    <2>3. ASSUME NEW a \in Apps, NEW c \in Certs, NEW rev \in Revocations,
                 NEW w \in PrivRevokers, Dispatch(w, a, c, rev)
          PROVE  OfficersNamed' /\ pc'[Bot] = pc[Bot] /\ job'[Bot] = job[Bot]
      <3> DEFINE j == [NoJob EXCEPT !.app = a, !.cert = c, !.rev = rev]
      <3>1. /\ j \in Jobs /\ j.rev = rev
        BY NoJobType DEF Jobs
      <3> HIDE DEF j
      <3>2. Begin(w, j) /\ rev.actor # NoActor
        BY <2>3 DEF Dispatch, BeginPrivileged, j
      <3>3. OnlyRun(w) /\ job'[w] = j
        BY <1>0, <3>1, <3>2, StepIsAlone, BotIsWriter
           DEF Begin, TypeInv, CommitTypeOK
      <3> QED
        BY <3>1, <3>2, <3>3, BotIsWriter DEF OnlyRun, OfficersNamed, RevInv
    <2> QED
      BY <2>1, <2>2, <2>3
  <1>3. BotTypes' /\ WorksForSigner' /\ Earned'
    BY <1>1, <1>2, BotFrame DEF RevInv
  <1>4. IssueTypes' /\ Answers' /\ SignersShown'
    <2>1. IssueTypes'
      BY <1>1 DEF IssueTypes, issueVars, RevInv
    <2>2. Answers'
      BY <1>1, AnswersFrame DEF RevInv
    <2>3. SignersShown'
      BY <1>1, ShownFrame DEF RevInv, botVars
    <2> QED
      BY <2>1, <2>2, <2>3
  <1> QED
    BY <1>2, <1>3, <1>4 DEF RevInv

-----------------------------------------------------------------------------
(* The invariant is one.                                                   *)
LEMMA RevInvInit == Init => RevInv
  <1> SUFFICES ASSUME Init PROVE RevInv
    OBVIOUS
  <1>1. PICK kept \in SUBSET {c \in Certs : AppOf(c) # Invalid}, r \in Repos :
           /\ ledger = [a \in Apps |->
                 IF \E c \in kept : AppOf(c) = a
                 THEN [owner |-> r, reserved |-> FALSE,
                       certs |-> [c \in Certs |->
                           IF c \in kept /\ AppOf(c) = a
                           THEN ActiveEntry ELSE MissingEntry]]
                 ELSE NoLedger]
           /\ grant = [c \in Certs |-> IF c \in kept THEN r ELSE NoRepo]
    BY DEF Init
  <1>2. /\ pc = [w \in Writers |-> "idle"]
        /\ job = [w \in Writers |-> NoJob]
        /\ base = [w \in Writers |-> NoLedger]
        /\ tries = [w \in Writers |-> 0]
        /\ edits = 0
    BY DEF Init
  <1>3. ledger \in [Apps -> Ledgers]
    BY <1>1, SeedTypes DEF Ledgers
  <1>4. CommitTypeOK
    BY <1>1, <1>2, <1>3, NoJobType, SeedTypes, CommitAssumption
       DEF CommitTypeOK, Phases, Resting
  <1>5. JobsKnown /\ RevokersFound /\ ReportedIsCommitted
    BY <1>2 DEF JobsKnown, Engaged, RevokersFound, ReportedIsCommitted
  <1>6. LeavesFresh
    <2>1. \A w \in Writers : ~Carries(w)
      BY <1>2 DEF Carries
    <2>2. \A a \in Apps, c \in Certs : Find(ledger[a], c) => c \in kept
      BY <1>1 DEF Find, NoLedger, NoCertificates, MissingEntry
    <2> QED
      BY <1>1, <2>1, <2>2, LedgerAssumption DEF LeavesFresh
  <1>7. CommitInv
    BY <1>4, <1>5, <1>6 DEF CommitInv, TypeInv
  <1>8. IssueTypes
    BY RevokeAssumption DEF Init, IssueTypes, Bodies
  <1>9. Listing({}) = [i \in Issues |-> NoBlock]
    BY DEF Listing
  <1>10. BotTypes
    BY <1>2, <1>9, BotIsWriter DEF Init, BotTypes, Bodies, Working, Resting
  <1>11. WorksForSigner /\ Earned
    BY DEF Init, WorksForSigner, Earned
  <1>12. Answers
    BY DEF Init, Answers, Revoked, Issues
  <1>13. SignersShown
    BY <1>9 DEF Init, SignersShown, Verify
  <1>14. OfficersNamed
    BY <1>2, BotIsWriter DEF OfficersNamed
  <1> QED
    BY <1>7, <1>8, <1>10, <1>11, <1>12, <1>13, <1>14 DEF RevInv

LEMMA RevInvNext == RevInv /\ [Next]_vars => RevInv'
  <1> SUFFICES ASSUME RevInv, [Next]_vars PROVE RevInv'
    OBVIOUS
  <1>1. CommitInv' /\ NothingLost
    BY CommitMoves, NextLosesNothing DEF RevInv
  <1>2. CASE UNCHANGED vars
    <2>1. /\ UNCHANGED <<filed, body, label, open, answered>>
          /\ UNCHANGED <<phase, todo, snap, cur, want, shown, faults, acts>>
          /\ UNCHANGED <<ledger, pc, job>>
      BY <1>2 DEF vars, commitVars, issueVars, botVars
    <2> QED
      BY <1>1, <2>1 DEF RevInv, IssueTypes, BotTypes, WorksForSigner, Earned,
         Answers, SignersShown, OfficersNamed, Revoked
  <1>3. CASE StartRun \/ EndRun \/ RunKilled
    BY <1>1, <1>3, ListingSteps
  <1>4. CASE \E i \in Issues : Pick(i)
    BY <1>1, <1>4, PickStep
  <1>5. CASE CheckLedger \/ Flip \/ FlipConflict \/ FlipRetry \/ Flipped
    BY <1>1, <1>5, LedgerPhase
  <1>6. CASE PostComment \/ IssueError
    BY <1>1, <1>6, PostStep
  <1>7. CASE SetLabel \/ CloseIssue
    BY <1>1, <1>7, LabelStep, CloseStep
  <1>8. CASE \E b \in Bodies : FileRequest(b) \/ \E i \in Issues : EditRequest(i, b)
    BY <1>1, <1>8, RequestStep
  <1>9. CASE \/ \E w \in PrivRevokers : PrivStep(w)
             \/ \E a \in Apps, c \in Certs, rev \in Revocations :
                   \/ Override(a, c, rev)
                   \/ \E w \in PrivRevokers : Dispatch(w, a, c, rev)
    BY <1>1, <1>9, OthersStep
  <1> QED
    BY <1>2, <1>3, <1>4, <1>5, <1>6, <1>7, <1>8, <1>9 DEF Next, BotStep, EnvStep

LEMMA RevInvHolds == Spec => []RevInv
  BY RevInvInit, RevInvNext, PTL DEF Spec

(* The variables keep their types, and the bot never gets to a ledger      *)
(* write or a verdict without one signer (revoke/steps.go).                *)
THEOREM RevokeTypeCorrect == Spec => []TypeOK
  <1>1. ASSUME RevInv PROVE TypeOK
    <2>1. phase = "ledger" \/ want = "revoked" => Acceptable(snap[cur])
      BY <1>1 DEF RevInv, WorksForSigner, Earned, Acceptable
    <2> QED
      BY <1>1, <2>1 DEF RevInv, CommitInv, TypeInv, IssueTypes, BotTypes, TypeOK
  <1> QED
    BY <1>1, RevInvHolds, PTL

(* What the bot answers is so, with any number of conflicts, failed calls, *)
(* lost replies, edited requests and concurrent edits (revoke.go:31-32).   *)
THEOREM RevokedIsTrueCorrect == Spec => []RevokedIsTrue
  <1>1. RevInv => RevokedIsTrue
    BY CommitAssumption DEF RevInv, Answers, RevokedIsTrue
  <1> QED
    BY <1>1, RevInvHolds, PTL

(* Who flips an entry: the bot for its signer, a dispatched run or a hand. *)
LEMMA Flippers ==
    ASSUME RevInv, [Next]_vars
    PROVE  \/ phase = "ledger" /\ Write(Bot)
           \/ \E w \in PrivRevokers : Write(w)
           \/ \E a \in Apps, c \in Certs, rev \in Revocations :
                 RevokeByHand(a, c, rev)
           \/ ledger' = ledger
  <1>1. CASE IssueError \/ RunKilled
    <2>1. phase # "ledger" => pc[Bot] \in Resting
      BY DEF RevInv, BotTypes
    <2> QED
      BY <1>1, <2>1
         DEF IssueError, RunKilled, AbandonWrite, Fail, PutReplyLost, commitVars
  <1>2. CASE BotStep
    BY <1>2 DEF BotStep, StartRun, List, EndRun, Pick, BeginSelfRevoke, Begin,
       CheckLedger, LoadSelfRevoke, Flip, Put, FlipConflict, PutConflict,
       FlipRetry, Reload, Flipped, PostComment, SetLabel, CloseIssue, commitVars
  <1>3. CASE EnvStep
    BY <1>3, BotIsWriter
       DEF EnvStep, FileRequest, EditRequest, PrivStep, WriterStep, LoadIssue,
       LoadSelfRevoke, LoadPrivileged, Sign, Put, PutReplyLost, PutConflict,
       Reload, Fail, Dispatch, BeginPrivileged, Begin, Override, commitVars
  <1>4. CASE UNCHANGED vars
    BY <1>4 DEF vars, commitVars
  <1> QED
    BY <1>1, <1>2, <1>3, <1>4 DEF Next

(* Nobody's certificate is revoked but on a request signed with its own    *)
(* key, or by an officer whose name the entry keeps (spec 5.1, 5.2).       *)
THEOREM HolderOrOfficerCorrect == Spec => HolderOrOfficer
  <1>1. ASSUME RevInv, [Next]_vars
        PROVE  [\A a \in Apps, c \in Certs :
                   ~IsRevoked(ledger[a], c) /\ IsRevoked(ledger'[a], c)
                   => c \in shown \/ ledger'[a].certs[c].actor # NoActor]_vars
    <2> SUFFICES ASSUME NEW a \in Apps, NEW c \in Certs,
                        ~IsRevoked(ledger[a], c), IsRevoked(ledger'[a], c)
                 PROVE  c \in shown \/ ledger'[a].certs[c].actor # NoActor
      OBVIOUS
    <2>0. TypeInv
      BY <1>1 DEF RevInv, CommitInv
    <2>1. CASE phase = "ledger" /\ Write(Bot)
      <3>1. c = job[Bot].cert
        BY <2>0, <2>1, BotIsWriter, WriteStanding DEF IsRevoked
      <3>2. Eligible(snap[cur], c) /\ cur \in Issues
        BY <1>1, <2>1, <3>1 DEF RevInv, WorksForSigner, BotTypes, Working
      <3> QED
        BY <1>1, <3>2 DEF RevInv, SignersShown, Eligible
    <2>2. ASSUME NEW w \in PrivRevokers, Write(w)
          PROVE  ledger'[a].certs[c].actor # NoActor
      <3>1. job[w].rev.actor # NoActor
        BY <1>1, <2>2 DEF RevInv, OfficersNamed, Write
      <3>2. ledger'[a].certs[c] = RevokedEntry(job[w].rev)
        BY <2>0, <2>2, BotIsWriter, WriteStanding, CommitAssumption DEF IsRevoked
      <3> QED
        BY <3>1, <3>2 DEF RevokedEntry
    <2>3. ASSUME NEW b \in Apps, NEW d \in Certs, NEW rev \in Revocations,
                 RevokeByHand(b, d, rev)
          PROVE  ledger'[a].certs[c].actor # NoActor
      <3>1. ledger'[a].certs[c] = RevokedEntry(rev)
        BY <2>0, <2>3, RevokeByHandStanding DEF IsRevoked
      <3> QED
        BY <2>3, <3>1 DEF RevokedEntry, RevokeByHand
    <2> QED
      BY <1>1, <2>1, <2>2, <2>3, Flippers
  <1>2. RevInv /\ [Next]_vars
           => [\A a \in Apps, c \in Certs :
                  ~IsRevoked(ledger[a], c) /\ IsRevoked(ledger'[a], c)
                  => c \in shown \/ ledger'[a].certs[c].actor # NoActor]_vars
    BY <1>1
  <1> QED
    BY <1>2, RevInvHolds, PTL DEF Spec, HolderOrOfficer
-----------------------------------------------------------------------------
(* The bot as a writer: a revocation it reports is in the ledger, no step  *)
(* of any request, clerk or officer drops a certificate or makes a revoked *)
(* one active again, and each call counts (applyRevocation,                *)
(* steps.go:57-99).  Certificates are on record when the bot starts, so    *)
(* that the log is refined step by step.                                   *)
THEOREM RevokeKeepsLog ==
    Spec => []ReportedIsCommitted /\ [][Log!Next]_Standing /\ EachCallCounts
  <1>1. RevInv /\ [Next]_vars => [Log!Next]_Standing
    BY CommitMoves, LogNext DEF RevInv
  <1>2. RevInv => ReportedIsCommitted
    BY DEF RevInv, CommitInv
  <1>3. RevInv /\ [Next]_vars
           => [\A w \in Writers : pc[w] \notin Resting =>
                  \/ CallsLeft(w)' < CallsLeft(w)
                  \/ UNCHANGED <<pc[w], job[w], base[w], tries[w]>>]_commitVars
    BY CommitMoves, CallsStep DEF RevInv, CommitInv
  <1> QED
    BY <1>1, <1>2, <1>3, RevInvHolds, PTL DEF Spec, EachCallCounts
=============================================================================
