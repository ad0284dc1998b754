---------------------------- MODULE EnrollProofs ----------------------------
(***************************************************************************)
(* Enrollment for any number of requests, repositories, certificates,      *)
(* faults and acts of developers.  As in RevokeProofs the invariant of the *)
(* write protocol carries over; to it come what the bot has at hand at     *)
(* each call, what the markers on an issue's first page are good for, the  *)
(* quoted ones with the posted ones, and a count of the certificates each  *)
(* request has been minted.                                                *)
(***************************************************************************)
EXTENDS Enroll, LedgerCommitProofs, FiniteSetTheorems, SequenceTheorems

(* The state of issues, repositories and histories, by type.               *)
IssueTypes ==
    /\ filed \in 0..MaxIssues
    /\ body \in [Issues -> Forms \cup Refused]
    /\ label \in [Issues -> SUBSET Labels]
    /\ open \in [Issues -> BOOLEAN]
    /\ comments \in [Issues -> 0..CommentPage]
    /\ thread \in [Issues -> Seq(Challenge)]
    /\ posted \in [Issues -> 0..2]

WorldTypes ==
    /\ declared \in [Repos -> Apps \cup {NoApp} \cup Values]
    /\ served \in [Repos -> Values \cup {NoNonce}]
    /\ commits \in [Repos -> SUBSET ((Apps \cup {NoApp} \cup Values)
                                     \X (Values \cup {NoNonce}))]
    /\ now \in 0..MaxTime
    /\ spent \in [Certs -> Proof]
    /\ delivered \in [Issues -> SUBSET Certs]
    /\ faults \in 0..MaxFaults /\ acts \in 0..MaxActs
    /\ \A r \in Repos : <<declared[r], served[r]>> \in commits[r]

BotTypes ==
    /\ phase \in {"rest", "next"} \cup Working
    /\ todo \in SUBSET Issues
    /\ snap \in [Issues -> Forms \cup Refused]
    /\ cur \in Issues \cup {NoIssue}
    /\ nonce \in Values \cup {NoNonce}
    /\ quote \in Values \cup {NoNonce}
    /\ want \in {"none", "invalid", "needs-changes", "expired", "rejected"}
    /\ cur # NoIssue <=> phase \in Working
    /\ phase \in {"file", "ledger", "issued", "close"} => nonce # NoNonce
    /\ phase \in {"info", "comments", "post", "await", "file", "ledger"}
          => Form \in Forms
    /\ phase = "ledger" => pc[Bot] \in Engaged
    /\ phase # "ledger" => pc[Bot] \in Resting
    /\ phase \in {"terminal", "mark"} <=> want # "none"

(* The requests that a run still works on are not labelled issued.         *)
Unanswered ==
    /\ cur \notin todo
    /\ \A i \in todo : ~Issued(i)
    /\ phase \in Working \ {"close"} => ~Issued(cur)
    /\ phase = "close" => Issued(cur)

(* A request that shows a marker has had one challenge at most, and one    *)
(* that shows none has had none that could be read back.                   *)
OneChallenge ==
    /\ ChallengeOnce
    /\ \A i \in Issues :
          thread[i] = <<>> => posted[i] = 0 \/ comments[i] = CommentPage

Overdue(i) == thread[i] # <<>> /\ Expired(Latest(i))

(* What a request that was told of the expiry has to show: a challenge     *)
(* that is still expired, or a marker that a verdict quotes.               *)
Told(i) ==
    "expired" \in label[i] =>
        thread[i] # <<>> /\ (Overdue(i) \/ Latest(i).quoted)

(* The nonce in process is that of the request's last marker.              *)
OwnNonce ==
    /\ phase = "post" => thread[cur] = <<>>
    /\ phase \in {"file", "ledger"} =>
          /\ thread[cur] # <<>> /\ nonce = Latest(cur).nonce
          /\ "expired" \in label[cur] => Latest(cur).quoted
    /\ want = "expired" => Overdue(cur) /\ quote = NoNonce
    /\ \A i \in Issues : Told(i)

(* What the bot has read of the repository of the form in process.         *)
InProof ==
    /\ phase \in {"comments", "post", "await", "file", "ledger"} =>
          \E p \in commits[Form.repo] : p[1] = Form.app
    /\ phase = "ledger" =>
          /\ \E p \in commits[Form.repo] : p[2] = nonce
          /\ job[Bot].app = Form.app /\ job[Bot].repo = Form.repo
          /\ pc[Bot] \in {"put", "reload", "done"} =>
                /\ spent[job[Bot].cert] = [issue |-> cur, nonce |-> nonce]
                /\ grant[job[Bot].cert] = Form.repo

(* What has been minted, and what for.                                     *)
Minted ==
    /\ ProvenControl
    /\ \A c \in Certs : grant[c] = NoRepo => spent[c] = NoProof

Delivery == DeliveredIsRecorded /\ ClosedIsServed

Handed == phase \in {"issued", "close"} => delivered[cur] # {}

(* The certificates recorded for a request, and whether the bot knows of   *)
(* the last one.                                                           *)
RecordedFor(i) == {c \in CertsOf(i) : Recorded(c)}

Aware(i) ==
    \/ Issued(i)
    \/ cur = i /\ phase \in {"issued", "close"}
    \/ cur = i /\ phase = "ledger" /\ pc[Bot] = "done"

Counted ==
    \A i \in Issues :
        /\ IsFiniteSet(RecordedFor(i))
        /\ Cardinality(RecordedFor(i)) <= faults + (IF Aware(i) THEN 1 ELSE 0)

BotInv == BotTypes /\ Unanswered /\ OwnNonce /\ InProof /\ Handed

EnrollInv ==
    /\ CommitInv
    /\ IssueTypes /\ WorldTypes /\ BotInv
    /\ OneChallenge /\ Minted /\ Delivery /\ Counted
-----------------------------------------------------------------------------
LEMMA NoIssueIsNone == NoIssue \notin Issues
  BY EnrollAssumption DEF NoIssue, Issues

LEMMA BotIsIssuer == Bot \in Writers /\ Bot \in Issuers
  BY EnrollAssumption DEF Writers

(* Every step is a step of the write protocol, or none of its business.    *)
LEMMA CommitMoves ==
    ASSUME [Next]_vars, BotTypes
    PROVE  [CommitNext]_commitVars
  <1>1. CASE WriterStep(Bot)
    BY <1>1, BotIsIssuer DEF CommitNext
  <1>2. CASE ReadChallenge
    <2>1. CASE BeginIssue(Bot, Form.app, Form.repo)
      <3>1. Form.app \in Apps /\ Form.repo \in Repos
        BY <1>2 DEF ReadChallenge, BotTypes, Forms
      <3> QED
        BY <2>1, <3>1, BotIsIssuer DEF CommitNext
    <2> QED
      BY <1>2, <2>1 DEF ReadChallenge
  <1>3. CASE CheckLedger \/ Commit \/ CommitConflict \/ CommitRetry
    BY <1>1, <1>3 DEF CheckLedger, Commit, CommitConflict, CommitRetry, WriterStep
  <1>4. CASE \E c \in Certs : SignLeaf(c)
    BY <1>1, <1>4 DEF SignLeaf, WriterStep
  <1>5. CASE IssueError \/ RunKilled
    BY <1>1, <1>5 DEF IssueError, RunKilled, AbandonWrite, WriterStep
  <1>6. CASE \E a \in Apps, r \in Repos, b \in BOOLEAN : Override(a, r, b)
    BY <1>6 DEF Override, CommitNext
  <1>7. CASE \/ StartRun \/ EndRun \/ \E i \in Issues : Pick(i)
             \/ ReadInfo \/ ReadComments \/ PostChallenge \/ LabelAwaiting
             \/ Deliver \/ LabelIssued \/ CloseIssue \/ PostVerdict \/ LabelVerdict
    BY <1>7 DEF StartRun, List, EndRun, Pick, ReadInfo, ReadComments,
         PostChallenge, LabelAwaiting, Deliver, LabelIssued, CloseIssue,
         PostVerdict, LabelVerdict
  <1>8. CASE \/ \E f : File(f)
             \/ \E i, f : EditForm(i, f)
             \/ \E i : Chat(i)
             \/ \E r, a, n : Push(r, a, n)
             \/ Tick \/ UNCHANGED vars
    BY <1>8 DEF File, EditForm, Chat, Push, Tick, vars
  <1> QED
    BY <1>2, <1>3, <1>4, <1>5, <1>6, <1>7, <1>8 DEF Next, BotStep, EnvStep

(* What a step does to the bot's writer.                                   *)
LEMMA BotWriterSteps ==
    ASSUME TypeInv
    PROVE  /\ LoadIssue(Bot) =>
                 \/ pc'[Bot] = "rejected"
                 \/ pc'[Bot] = "sign" /\ job'[Bot] = job[Bot]
           /\ \A c \in Certs : Sign(Bot, c) =>
                 /\ pc[Bot] = "sign" /\ pc'[Bot] = "put"
                 /\ job'[Bot] = [job[Bot] EXCEPT !.cert = c]
           /\ Put(Bot) => pc'[Bot] = "done" /\ job'[Bot] = job[Bot]
           /\ PutConflict(Bot) =>
                 /\ pc[Bot] = "put" /\ pc'[Bot] = "reload"
                 /\ job'[Bot] = job[Bot]
           /\ Reload(Bot) =>
                 \/ pc'[Bot] = "failed"
                 \/ /\ pc[Bot] = "reload" /\ pc'[Bot] = "put"
                    /\ job'[Bot] = job[Bot]
           /\ AbandonWrite => pc'[Bot] \in Resting
  BY BotIsIssuer
     DEF TypeInv, CommitTypeOK, LoadIssue, Sign, Put, PutConflict, Reload,
         AbandonWrite, Fail, Stop, Take, Resting, commitVars

LEMMA LatestKnown ==
    ASSUME IssueTypes, NEW i \in Issues, thread[i] # <<>>
    PROVE  /\ Latest(i) \in Challenge /\ Latest(i).nonce \in NoncesOf(i)
           /\ Latest(i).nonce \in Values
  <1>1. thread[i] \in Seq(Challenge)
    BY DEF IssueTypes
  <1>2. Len(thread[i]) \in 1..Len(thread[i])
    BY <1>1, EmptySeq, LenProperties
  <1>3. Latest(i) \in Challenge
    BY <1>1, <1>2, ElementOfSeq DEF Latest
  <1> QED
    BY <1>2, <1>3 DEF Latest, NoncesOf, Challenge

LEMMA PublicAreValues ==
    ASSUME IssueTypes
    PROVE  Public \subseteq Values
  <1> SUFFICES ASSUME NEW i \in Issues, NEW k \in 1..Len(thread[i])
               PROVE  thread[i][k].nonce \in Values
    BY DEF Public, NoncesOf
  <1>1. thread[i][k] \in Challenge
    BY ElementOfSeq DEF IssueTypes
  <1> QED
    BY <1>1 DEF Challenge

-----------------------------------------------------------------------------
(* A comment with a marker: it is the last one, and the others stay.       *)
LEMMA MarkerAdded ==
    ASSUME IssueTypes, WorldTypes, cur \in Issues, cur' = cur,
           NEW n \in Values, NEW q \in BOOLEAN, AddMarker(n, q)
    PROVE  /\ thread' \in [Issues -> Seq(Challenge)]
           /\ thread'[cur] # <<>> /\ Latest(cur)'.quoted = q
           /\ \A i \in Issues : i # cur => thread'[i] = thread[i]
           /\ \A i \in Issues : NoncesOf(i) \subseteq NoncesOf(i)'
  <1> DEFINE ch == [nonce |-> n, at |-> now, quoted |-> q]
             s == thread[cur]
  <1>1. thread \in [Issues -> Seq(Challenge)] /\ s \in Seq(Challenge)
    BY DEF IssueTypes
  <1>2. ch \in Challenge /\ ch.quoted = q
    BY DEF Challenge, WorldTypes
  <1>3. thread' = [thread EXCEPT ![cur] = Append(s, ch)]
    BY DEF AddMarker
  <1> HIDE DEF ch, s
  <1>4. /\ Append(s, ch) \in Seq(Challenge) /\ Len(Append(s, ch)) = Len(s) + 1
        /\ Append(s, ch)[Len(s) + 1] = ch /\ Len(s) \in Nat
        /\ \A k \in 1..Len(s) : Append(s, ch)[k] = s[k]
    BY <1>1, <1>2, AppendProperties, LenProperties
  <1>5. thread'[cur] = Append(s, ch)
    BY <1>1, <1>3
  <1>6. thread'[cur] # <<>> /\ Latest(cur)'.quoted = q
    BY <1>2, <1>4, <1>5, EmptySeq DEF Latest
  <1>7. \A i \in Issues : i # cur => thread'[i] = thread[i]
    BY <1>1, <1>3
  <1>8. \A i \in Issues : NoncesOf(i) \subseteq NoncesOf(i)'
    <2> SUFFICES ASSUME NEW i \in Issues, NEW k \in 1..Len(thread[i])
                 PROVE  \E l \in 1..Len(thread'[i]) :
                           thread'[i][l].nonce = thread[i][k].nonce
      BY DEF NoncesOf
    <2>1. CASE i = cur
      <3>1. k \in 1..Len(thread'[i]) /\ thread'[i][k] = thread[i][k]
        BY <1>4, <1>5, <2>1 DEF s
      <3> QED
        BY <3>1
    <2>2. CASE i # cur
      BY <1>7, <2>2
    <2> QED
      BY <2>1, <2>2
  <1> QED
    BY <1>1, <1>3, <1>4, <1>6, <1>7, <1>8

(* Steps that mint and record nothing.                                     *)
LEMMA SameRecorded ==
    ASSUME SameEntries, UNCHANGED spent
    PROVE  /\ \A c \in Certs : Recorded(c)' = Recorded(c)
           /\ \A i \in Issues : /\ CertsOf(i)' = CertsOf(i)
                                /\ RecordedFor(i)' = RecordedFor(i)
  <1>1. \A c \in Certs : Recorded(c)' = Recorded(c)
    BY DEF SameEntries, Recorded
  <1>2. \A i : CertsOf(i)' = CertsOf(i)
    BY DEF CertsOf
  <1>3. \A i : RecordedFor(i)' = RecordedFor(i)
    BY <1>1, <1>2 DEF RecordedFor, CertsOf
  <1> QED
    BY <1>1, <1>2, <1>3

LEMMA SameNonces ==
    ASSUME UNCHANGED thread
    PROVE  \A i : NoncesOf(i)' = NoncesOf(i)
  BY DEF NoncesOf

LEMMA MintedFrame ==
    ASSUME Minted, TypeInv, SameEntries, UNCHANGED <<spent, grant>>,
           \A i \in Issues : NoncesOf(i) \subseteq NoncesOf(i)',
           \A r \in Repos : commits[r] \subseteq commits'[r]
    PROVE  Minted'
  <1>1. \A c \in Certs : grant[c] # NoRepo => grant[c] \in Repos
    BY DEF TypeInv, CommitTypeOK
  <1>2. ASSUME NEW c \in Certs, grant'[c] # NoRepo
        PROVE  /\ spent'[c].issue \in Issues
               /\ spent'[c].nonce \in NoncesOf(spent[c].issue)'
               /\ \E p \in commits'[grant'[c]] : p[2] = spent'[c].nonce
               /\ \A a \in Apps : Find(ledger[a], c)' =>
                     \E p \in commits'[grant'[c]] : p[1] = a
    <2>1. commits[grant[c]] \subseteq commits'[grant'[c]]
      BY <1>1, <1>2
    <2>2. \A a \in Apps : Find(ledger[a], c)' = Find(ledger[a], c)
      BY DEF SameEntries
    <2>3. spent[c].issue \in Issues /\ spent[c].nonce \in NoncesOf(spent[c].issue)
      BY <1>2 DEF Minted, ProvenControl
    <2> QED
      BY <1>2, <2>1, <2>2, <2>3 DEF Minted, ProvenControl
  <1>3. ProvenControl'
    BY <1>2 DEF ProvenControl, Find
  <1> QED
    BY <1>3 DEF Minted

LEMMA OneChallengeFrame ==
    ASSUME OneChallenge, IssueTypes, IssueTypes', UNCHANGED <<thread, posted>>,
           \A i \in Issues : comments[i] <= comments'[i]
    PROVE  OneChallenge'
  <1>1. \A i \in Issues : comments[i] = CommentPage => comments'[i] = CommentPage
    <2> SUFFICES ASSUME NEW i \in Issues, comments[i] = CommentPage
                 PROVE  comments'[i] = CommentPage
      OBVIOUS
    <2>1. comments'[i] \in 0..CommentPage /\ comments[i] <= comments'[i]
      BY DEF IssueTypes
    <2> QED
      BY <2>1, EnrollAssumption
  <1> QED
    BY <1>1 DEF OneChallenge, ChallengeOnce

LEMMA CountedFrame ==
    ASSUME Counted, faults \in Nat,
           \A i \in Issues : RecordedFor(i)' = RecordedFor(i),
           \/ faults' = faults /\ \A i \in Issues : Aware(i) => Aware(i)'
           \/ faults' = faults + 1
    PROVE  Counted'
  <1> SUFFICES ASSUME NEW i \in Issues
               PROVE  /\ IsFiniteSet(RecordedFor(i))'
                      /\ Cardinality(RecordedFor(i)')
                            <= faults' + (IF Aware(i)' THEN 1 ELSE 0)
    BY DEF Counted
  <1> DEFINE n == Cardinality(RecordedFor(i))
  <1>1. IsFiniteSet(RecordedFor(i)) /\ n \in Nat
        /\ n <= faults + (IF Aware(i) THEN 1 ELSE 0)
    BY FS_CardinalityType DEF Counted
  <1>2. RecordedFor(i)' = RecordedFor(i)
    OBVIOUS
  <1> HIDE DEF n
  <1>3. n <= faults' + (IF Aware(i)' THEN 1 ELSE 0)
    BY <1>1
  <1> QED
    BY <1>1, <1>2, <1>3 DEF n

(* A step that mints and records nothing keeps the invariant, if it keeps  *)
(* the types, the markers and what the bot has at hand.                    *)
LEMMA Conserved ==
    ASSUME EnrollInv, CommitInv', SameEntries, UNCHANGED <<spent, grant>>,
           \A r \in Repos : commits[r] \subseteq commits'[r],
           \A i \in Issues : /\ NoncesOf(i) \subseteq NoncesOf(i)'
                             /\ delivered[i] \subseteq delivered'[i]
                             /\ Issued(i) => Issued(i)'
                             /\ ~open'[i] => \/ ~open[i]
                                             \/ delivered'[i] # {} /\ Issued(i)',
           \A i \in Issues : \A c \in delivered'[i] :
              c \in delivered[i] \/ (c \in CertsOf(i) /\ Recorded(c)),
           \/ faults' = faults /\ \A i \in Issues : Aware(i) => Aware(i)'
           \/ faults' = faults + 1,
           OneChallenge', IssueTypes', WorldTypes', BotInv'
    PROVE  EnrollInv'
  <1>0. /\ IssueTypes /\ WorldTypes /\ TypeInv /\ CommitInv
        /\ Minted /\ Delivery /\ Counted
    BY DEF EnrollInv, CommitInv
  <1>1. /\ \A c \in Certs : Recorded(c)' = Recorded(c)
        /\ \A i \in Issues : /\ CertsOf(i)' = CertsOf(i)
                             /\ RecordedFor(i)' = RecordedFor(i)
    BY SameRecorded
  <1>2. Minted'
    BY <1>0, MintedFrame
  <1>3. Delivery'
    <2>1. DeliveredIsRecorded'
      <3> SUFFICES ASSUME NEW i \in Issues, NEW c \in delivered'[i]
                   PROVE  c \in CertsOf(i)' /\ Recorded(c)'
        BY DEF DeliveredIsRecorded
      <3>1. c \in CertsOf(i) /\ Recorded(c)
        BY <1>0 DEF Delivery, DeliveredIsRecorded
      <3> QED
        BY <1>1, <3>1 DEF CertsOf
    <2>2. ClosedIsServed'
      <3> SUFFICES ASSUME NEW i \in Issues, ~open'[i]
                   PROVE  delivered'[i] # {} /\ Issued(i)'
        BY DEF ClosedIsServed
      <3>1. ~open[i] => delivered[i] # {} /\ Issued(i)
        BY <1>0 DEF Delivery, ClosedIsServed
      <3> QED
        BY <3>1
    <2> QED
      BY <2>1, <2>2 DEF Delivery
  <1>4. Counted'
    <2>1. faults \in Nat
      BY <1>0, EnrollAssumption DEF WorldTypes
    <2> QED
      BY <1>0, <1>1, <2>1, CountedFrame
  <1> QED
    BY <1>2, <1>3, <1>4 DEF EnrollInv

(* The bot alone moves, with its writer: nothing is posted, labelled or    *)
(* pushed.                                                                 *)
LEMMA BotMoves ==
    ASSUME EnrollInv, CommitInv', SameEntries, UNCHANGED grant,
           UNCHANGED <<issueVars, repoVars, now, histVars, acts>>,
           faults' \in 0..MaxFaults,
           \/ faults' = faults /\ \A i \in Issues : Aware(i) => Aware(i)'
           \/ faults' = faults + 1,
           BotInv'
    PROVE  EnrollInv'
  <1>1. /\ IssueTypes /\ WorldTypes
    BY DEF EnrollInv
  <1>2. IssueTypes'
    BY <1>1 DEF IssueTypes, issueVars
  <1>3. WorldTypes'
    BY <1>1 DEF WorldTypes, repoVars, histVars
  <1>4. /\ \A i \in Issues : /\ comments[i] <= comments'[i]
                             /\ delivered[i] \subseteq delivered'[i]
                             /\ Issued(i) => Issued(i)'
                             /\ ~open'[i] => ~open[i]
        /\ \A r \in Repos : commits[r] \subseteq commits'[r]
        /\ UNCHANGED <<thread, posted, spent>> /\ delivered' = delivered
    BY <1>1, EnrollAssumption DEF issueVars, repoVars, histVars, Issued, IssueTypes
  <1>5. OneChallenge'
    BY <1>1, <1>2, <1>4, OneChallengeFrame DEF EnrollInv
  <1> QED
    BY <1>2, <1>3, <1>4, <1>5, SameNonces, Conserved

(* The bot goes to the next issue, or its run ends.                        *)
LEMMA BotRests ==
    ASSUME phase' \in {"rest", "next"}, todo' \in SUBSET Issues,
           snap' \in [Issues -> Forms \cup Refused],
           cur' = NoIssue, nonce' \in Values \cup {NoNonce}, want' = "none",
           quote' \in Values \cup {NoNonce}, pc'[Bot] \in Resting,
           \A i \in todo' : ~Issued(i)',
           \A i \in Issues : Told(i)'
    PROVE  BotInv'
  <1>1. BotTypes'
    BY NoIssueIsNone DEF BotTypes, Working
  <1>2. Unanswered'
    BY NoIssueIsNone DEF Unanswered, Working
  <1>3. OwnNonce' /\ InProof' /\ Handed'
    BY DEF OwnNonce, InProof, Handed
  <1> QED
    BY <1>1, <1>2, <1>3 DEF BotInv

LEMMA SameCommit ==
    ASSUME UNCHANGED commitVars
    PROVE  SameEntries /\ UNCHANGED <<grant, ledger, pc, job>>
  BY DEF SameEntries, commitVars, Find

-----------------------------------------------------------------------------
(* What the bot knows at each call, in the form the steps use it.          *)
LEMMA AtHand ==
    ASSUME EnrollInv, phase \in Working
    PROVE  /\ CommitInv /\ TypeInv /\ IssueTypes /\ WorldTypes /\ BotTypes
           /\ cur \in Issues /\ cur \notin todo /\ NoIssue \notin Issues
           /\ \A i \in todo : i \in Issues /\ ~Issued(i)
           /\ \A i \in Issues : Told(i)
           /\ faults \in 0..MaxFaults /\ MaxFaults \in Nat
           /\ phase # "ledger" => pc[Bot] \in Resting
           /\ phase \in {"info", "comments", "post", "await", "file", "ledger"}
                 => Form \in Forms /\ Form.app \in Apps /\ Form.repo \in Repos
           /\ phase \in {"terminal", "mark"} <=> want # "none"
  BY EnrollAssumption, NoIssueIsNone
     DEF EnrollInv, CommitInv, BotInv, BotTypes, Unanswered, OwnNonce,
         WorldTypes, Forms

LEMMA ListingType ==
    ASSUME IssueTypes, NEW list
    PROVE  Listing(list) \in [Issues -> Forms \cup Refused]
  BY DEF IssueTypes, Listing, BadForm, Refused

LEMMA OverdueFrame ==
    ASSUME UNCHANGED <<thread, now>>
    PROVE  \A i : Overdue(i)' = Overdue(i) /\ Latest(i)' = Latest(i)
  BY DEF Overdue, Expired, Latest

LEMMA ToldFrame ==
    ASSUME \A i \in Issues : Told(i), UNCHANGED <<thread, now>>,
           \A i \in Issues : "expired" \in label'[i] => "expired" \in label[i]
    PROVE  \A i \in Issues : Told(i)'
  BY OverdueFrame DEF Told

(* A poll starts or ends.                                                  *)
LEMMA RunSteps ==
    ASSUME EnrollInv, CommitInv', StartRun \/ EndRun
    PROVE  EnrollInv'
  <1>1. /\ IssueTypes /\ WorldTypes /\ BotTypes /\ OwnNonce
        /\ UNCHANGED commitVars
        /\ UNCHANGED <<issueVars, repoVars, now, histVars, acts, faults>>
    BY DEF EnrollInv, BotInv, StartRun, EndRun, List, boundVars
  <1>2. PICK list \in SUBSET Issues :
           /\ snap' = Listing(list) /\ todo' \in SUBSET list
           /\ \A i \in list : ~Issued(i)
    <2>1. CASE StartRun
      <3> DEFINE list == {i \in Page : ~Issued(i)}
      <3>1. snap' = Listing(list) /\ todo' = list
        BY <2>1 DEF StartRun, List
      <3>2. list \in SUBSET Issues
        BY <1>1, EnrollAssumption DEF Page, Opened, Issues, IssueTypes
      <3> QED
        BY <3>1, <3>2
    <2>2. CASE EndRun
      <3>1. snap' = Listing({}) /\ todo' = {}
        BY <2>2 DEF EndRun
      <3> QED
        BY <3>1
    <2> QED
      BY <2>1, <2>2
  <1>3. /\ phase' \in {"rest", "next"} /\ phase \in {"rest", "next"}
        /\ cur' = cur /\ nonce' = nonce /\ want' = want /\ quote' = quote
    BY DEF StartRun, EndRun, List
  <1>4. cur = NoIssue /\ want = "none" /\ nonce \in Values \cup {NoNonce}
        /\ quote \in Values \cup {NoNonce} /\ pc'[Bot] \in Resting
    BY <1>1, <1>3, SameCommit DEF BotTypes, Working
  <1>5. /\ \A i \in todo' : ~Issued(i)'
        /\ \A i \in Issues : Told(i)'
    BY <1>1, <1>2, ToldFrame DEF Issued, issueVars, OwnNonce
  <1>6. BotInv'
    BY <1>1, <1>2, <1>3, <1>4, <1>5, ListingType, BotRests
  <1>7. \A i \in Issues : Aware(i) => Aware(i)'
    BY <1>1, <1>3 DEF Aware, Issued, issueVars
  <1> QED
    BY <1>1, <1>6, <1>7, SameCommit, BotMoves DEF WorldTypes

(* An error ends the work on an issue, or on all of them.                  *)
LEMMA ErrorSteps ==
    ASSUME EnrollInv, CommitInv', IssueError \/ RunKilled
    PROVE  EnrollInv'
  <1>1. /\ phase \in Working /\ AbandonWrite /\ faults < MaxFaults
        /\ faults' = faults + 1
        /\ UNCHANGED <<issueVars, repoVars, now, histVars, acts>>
        /\ phase' \in {"rest", "next"}
        /\ cur' = NoIssue /\ nonce' = NoNonce /\ want' = "none"
        /\ quote' = NoNonce
        /\ todo' \in SUBSET todo /\ (snap' = snap \/ snap' = Listing({}))
    BY DEF IssueError, RunKilled, NextIssue
  <1>2. SameEntries /\ UNCHANGED grant
    BY <1>1, SameCommit DEF AbandonWrite, Fail, SameEntries, Find
  <1>3. pc'[Bot] \in Resting
    BY <1>1, AtHand, BotWriterSteps
  <1>4. /\ \A i \in todo' : ~Issued(i)'
        /\ \A i \in Issues : Told(i)'
        /\ todo' \in SUBSET Issues
    BY <1>1, AtHand, ToldFrame DEF Issued, issueVars
  <1>5. snap' \in [Issues -> Forms \cup Refused]
    BY <1>1, AtHand, ListingType DEF BotTypes
  <1>6. BotInv'
    BY <1>1, <1>3, <1>4, <1>5, BotRests
  <1>7. faults' \in 0..MaxFaults
    BY <1>1, AtHand
  <1> QED
    BY <1>1, <1>2, <1>6, <1>7, BotMoves

LEMMA PickStep ==
    ASSUME EnrollInv, CommitInv', NEW i \in Issues, Pick(i)
    PROVE  EnrollInv'
  <1>1. /\ IssueTypes /\ WorldTypes /\ BotTypes /\ OwnNonce /\ Unanswered
        /\ UNCHANGED commitVars
        /\ UNCHANGED <<issueVars, repoVars, now, histVars, acts, faults>>
        /\ UNCHANGED <<snap, nonce>>
        /\ phase = "next" /\ i \in todo /\ todo' = todo \ {i} /\ cur' = i
        /\ \/ /\ phase' = "terminal" /\ want' = "invalid"
              /\ snap[i] \notin Forms /\ quote' = snap[i].quotes
           \/ phase' = "info" /\ UNCHANGED <<want, quote>> /\ snap[i] \in Forms
    BY DEF EnrollInv, BotInv, Pick, boundVars
  <1>2. UNCHANGED label /\ pc'[Bot] \in Resting /\ want = "none"
        /\ i \in Issues /\ i # NoIssue
    BY <1>1, SameCommit, NoIssueIsNone DEF issueVars, BotTypes
  <1>3. BotTypes'
    <2>1. quote' \in Values \cup {NoNonce}
      BY <1>1, <1>2 DEF BotTypes, Refused
    <2> QED
      BY <1>1, <1>2, <2>1 DEF BotTypes, Working, Form
  <1>4. Unanswered'
    BY <1>1, <1>2 DEF Unanswered, Issued
  <1>5. OwnNonce'
    BY <1>1, <1>2, ToldFrame DEF OwnNonce, issueVars
  <1>6. InProof' /\ Handed'
    BY <1>1 DEF InProof, Handed
  <1>7. BotInv'
    BY <1>3, <1>4, <1>5, <1>6 DEF BotInv
  <1>8. \A j \in Issues : Aware(j) => Aware(j)'
    BY <1>1, <1>2 DEF Aware, Issued
  <1> QED
    BY <1>1, <1>7, <1>8, SameCommit, BotMoves DEF WorldTypes

-----------------------------------------------------------------------------
(* The calls that read: info.xml, the comments, the challenge file.        *)
LEMMA ReadInfoStep ==
    ASSUME EnrollInv, CommitInv', ReadInfo
    PROVE  EnrollInv'
  <1>1. /\ IssueTypes /\ WorldTypes /\ BotTypes /\ OwnNonce /\ Unanswered
        /\ UNCHANGED commitVars
        /\ UNCHANGED <<issueVars, repoVars, now, histVars, acts, faults>>
        /\ UNCHANGED <<todo, snap, cur, nonce>>
        /\ phase = "info" /\ phase \in Working
        /\ \/ /\ declared[Form.repo] = Form.app
              /\ phase' = "comments" /\ UNCHANGED <<want, quote>>
           \/ /\ phase' = "terminal" /\ want' = "needs-changes"
              /\ quote' = Quotable(declared[Form.repo])
    BY DEF EnrollInv, BotInv, ReadInfo, Goto, Terminal, boundVars, Working
  <1>2. /\ cur \in Issues /\ cur \notin todo /\ NoIssue \notin Issues
        /\ Form' = Form /\ Form \in Forms /\ Form.repo \in Repos
        /\ want = "none" /\ pc'[Bot] \in Resting
        /\ label' = label /\ thread' = thread /\ commits' = commits
    BY <1>1, AtHand, SameCommit DEF Form, issueVars, repoVars
  <1>3. BotTypes'
    BY <1>1, <1>2 DEF BotTypes, Working, Quotable
  <1>4. Unanswered' /\ OwnNonce' /\ Handed'
    BY <1>1, <1>2, ToldFrame DEF Unanswered, OwnNonce, Handed, Issued, Working
  <1>5. InProof'
    <2>1. <<declared[Form.repo], served[Form.repo]>> \in commits[Form.repo]
      BY <1>1, <1>2 DEF WorldTypes
    <2>2. phase' = "comments" => \E p \in commits[Form.repo] : p[1] = Form.app
      BY <1>1, <2>1
    <2> QED
      BY <1>1, <1>2, <2>2 DEF InProof
  <1>6. BotInv'
    BY <1>3, <1>4, <1>5 DEF BotInv
  <1>7. \A j \in Issues : Aware(j) => Aware(j)'
    BY <1>1, <1>2 DEF Aware, Issued
  <1> QED
    BY <1>1, <1>6, <1>7, SameCommit, BotMoves DEF WorldTypes

LEMMA ReadCommentsStep ==
    ASSUME EnrollInv, CommitInv', ReadComments
    PROVE  EnrollInv'
  <1>1. /\ IssueTypes /\ WorldTypes /\ BotTypes /\ OwnNonce /\ Unanswered
        /\ InProof
        /\ UNCHANGED commitVars
        /\ UNCHANGED <<issueVars, repoVars, now, histVars, acts, faults>>
        /\ UNCHANGED <<todo, snap, cur>>
        /\ phase = "comments" /\ phase \in Working
        /\ \/ /\ thread[cur] = <<>>
              /\ phase' = "post" /\ UNCHANGED <<want, quote, nonce>>
           \/ /\ Overdue(cur)
              /\ phase' = "terminal" /\ want' = "expired" /\ quote' = NoNonce
              /\ nonce' = nonce
           \/ /\ thread[cur] # <<>> /\ ~Overdue(cur)
              /\ phase' = "file" /\ UNCHANGED <<want, quote>>
              /\ nonce' = Latest(cur).nonce
    BY DEF EnrollInv, BotInv, ReadComments, Goto, Terminal, Await, boundVars,
           Working, Overdue
  <1>2. /\ cur \in Issues /\ cur \notin todo /\ NoIssue \notin Issues
        /\ Form' = Form /\ Form \in Forms
        /\ want = "none" /\ pc'[Bot] \in Resting
        /\ label' = label /\ thread' = thread /\ commits' = commits
    BY <1>1, AtHand, SameCommit DEF Form, issueVars, repoVars
  <1>3. phase' = "file" => nonce' \in Values
    BY <1>1, <1>2, LatestKnown
  <1>4. /\ Latest(cur)' = Latest(cur) /\ Overdue(cur)' = Overdue(cur)
        /\ \A i \in Issues : Told(i)'
    BY <1>1, <1>2, OverdueFrame, ToldFrame DEF OwnNonce, Latest
  <1>5. BotTypes'
    BY <1>1, <1>2, <1>3, EnrollAssumption DEF BotTypes, Working
  <1>6. Unanswered' /\ Handed'
    BY <1>1, <1>2 DEF Unanswered, Handed, Issued, Working
  <1>7. OwnNonce'
    BY <1>1, <1>2, <1>4 DEF OwnNonce, Told
  <1>8. InProof'
    BY <1>1, <1>2 DEF InProof
  <1>9. BotInv'
    BY <1>5, <1>6, <1>7, <1>8 DEF BotInv
  <1>10. \A j \in Issues : Aware(j) => Aware(j)'
    BY <1>1, <1>2 DEF Aware, Issued
  <1> QED
    BY <1>1, <1>9, <1>10, SameCommit, BotMoves DEF WorldTypes

LEMMA ReadChallengeStep ==
    ASSUME EnrollInv, CommitInv', ReadChallenge
    PROVE  EnrollInv'
  <1>1. /\ IssueTypes /\ WorldTypes /\ BotTypes /\ OwnNonce /\ Unanswered
        /\ InProof /\ TypeInv
        /\ UNCHANGED <<issueVars, repoVars, now, histVars, acts, faults>>
        /\ UNCHANGED <<todo, snap>>
        /\ phase = "file" /\ phase \in Working
    BY DEF EnrollInv, CommitInv, BotInv, ReadChallenge, Goto, NextIssue,
           boundVars, Working
  <1>2. /\ cur \in Issues /\ cur \notin todo /\ NoIssue \notin Issues
        /\ Form \in Forms /\ Form.repo \in Repos /\ Form.app \in Apps
        /\ want = "none" /\ pc[Bot] \in Resting
        /\ label' = label /\ thread' = thread /\ commits' = commits
        /\ todo \in SUBSET Issues
        /\ \A i \in todo : ~Issued(i)'
        /\ \A i \in Issues : Told(i)'
    BY <1>1, AtHand, ToldFrame DEF issueVars, repoVars, Issued, BotTypes
  <1>3. CASE served[Form.repo] # nonce
    <2>1. NextIssue /\ UNCHANGED commitVars
      BY <1>3 DEF ReadChallenge
    <2>2. pc'[Bot] \in Resting /\ SameEntries /\ UNCHANGED grant
      BY <1>2, <2>1, SameCommit
    <2>3. BotInv'
      BY <1>1, <1>2, <2>1, <2>2, BotRests DEF NextIssue, BotTypes
    <2>4. \A j \in Issues : Aware(j) => Aware(j)'
      BY <1>1, <1>2 DEF Aware, Issued
    <2> QED
      BY <1>1, <2>2, <2>3, <2>4, BotMoves DEF WorldTypes
  <1>4. CASE served[Form.repo] = nonce
    <2>1. /\ BeginIssue(Bot, Form.app, Form.repo)
          /\ phase' = "ledger" /\ UNCHANGED <<cur, nonce, want, quote>>
      BY <1>4 DEF ReadChallenge, Goto
    <2>2. /\ pc'[Bot] = "load" /\ job'[Bot].app = Form.app
          /\ job'[Bot].repo = Form.repo
          /\ SameEntries /\ UNCHANGED grant
      BY <1>1, <2>1, BotIsIssuer
         DEF BeginIssue, Begin, TypeInv, CommitTypeOK, NoJob, SameEntries, Find
    <2>3. Form' = Form /\ Latest(cur)' = Latest(cur)
      BY <1>1, <1>2, <2>1 DEF Form, Latest
    <2>4. BotTypes'
      BY <1>1, <1>2, <2>1, <2>2, <2>3 DEF BotTypes, Working, Engaged
    <2>5. Unanswered' /\ Handed'
      BY <1>1, <1>2, <2>1 DEF Unanswered, Handed, Issued, Working
    <2>6. OwnNonce'
      BY <1>1, <1>2, <2>1, <2>3 DEF OwnNonce
    <2>7. InProof'
      <3>1. <<declared[Form.repo], served[Form.repo]>> \in commits[Form.repo]
        BY <1>1, <1>2 DEF WorldTypes
      <3>2. \E p \in commits[Form.repo] : p[2] = nonce
        BY <1>4, <3>1
      <3>3. \E p \in commits[Form.repo] : p[1] = Form.app
        BY <1>1 DEF InProof
      <3> QED
        BY <1>2, <2>1, <2>2, <2>3, <3>2, <3>3 DEF InProof
    <2>8. BotInv'
      BY <2>4, <2>5, <2>6, <2>7 DEF BotInv
    <2>9. \A j \in Issues : Aware(j) => Aware(j)'
      BY <1>1, <1>2 DEF Aware, Issued
    <2> QED
      BY <1>1, <2>2, <2>8, <2>9, BotMoves DEF WorldTypes
  <1> QED
    BY <1>3, <1>4

-----------------------------------------------------------------------------
(* The ledger write up to its end; only Commit changes the ledger.         *)
LEMMA CheckStep ==
    ASSUME EnrollInv, CommitInv', CheckLedger \/ CommitConflict \/ CommitRetry
    PROVE  EnrollInv'
  <1>1. /\ IssueTypes /\ WorldTypes /\ BotTypes /\ OwnNonce /\ Unanswered
        /\ InProof /\ TypeInv
        /\ UNCHANGED <<issueVars, repoVars, now, histVars, acts>>
        /\ UNCHANGED <<todo, snap>>
        /\ phase = "ledger" /\ phase \in Working
        /\ LoadIssue(Bot) \/ PutConflict(Bot) \/ Reload(Bot)
    BY DEF EnrollInv, CommitInv, BotInv, CheckLedger, CommitConflict, CommitRetry,
           Terminal, NextIssue, botVars, boundVars, Working
  <1>2. /\ cur \in Issues /\ cur \notin todo /\ NoIssue \notin Issues
        /\ Form \in Forms
        /\ want = "none"
        /\ label' = label /\ thread' = thread /\ commits' = commits
        /\ spent' = spent /\ todo \in SUBSET Issues
        /\ \A i \in todo : ~Issued(i)'
        /\ \A i \in Issues : Told(i)'
    BY <1>1, AtHand, ToldFrame
       DEF issueVars, repoVars, histVars, Issued, BotTypes
  <1>3. SameEntries /\ UNCHANGED grant
    BY <1>1 DEF LoadIssue, PutConflict, Reload, SameEntries, Find
  <1>4. faults' \in 0..MaxFaults /\ (faults' = faults \/ faults' = faults + 1)
    BY AtHand, <1>1
       DEF CheckLedger, CommitConflict, CommitRetry, boundVars
  <1>5. pc[Bot] # "done"
    BY <1>1 DEF LoadIssue, PutConflict, Reload
  <1>6. \A j \in Issues : Aware(j) => Aware(j)'
    BY <1>1, <1>2, <1>5 DEF Aware, Issued
  <1>7. BotInv'
    <2>1. CASE /\ phase' = "terminal" /\ want' = "rejected" /\ pc'[Bot] = "rejected"
               /\ quote' = NoNonce /\ UNCHANGED <<cur, nonce>>
      <3>1. BotTypes'
        BY <1>1, <1>2, <2>1 DEF BotTypes, Working, Resting
      <3>2. Unanswered' /\ OwnNonce' /\ InProof' /\ Handed'
        BY <1>1, <1>2, <2>1
           DEF Unanswered, OwnNonce, InProof, Handed, Issued, Working
      <3> QED
        BY <3>1, <3>2 DEF BotInv
    <2>2. CASE NextIssue /\ pc'[Bot] = "failed"
      BY <1>1, <1>2, <2>2, BotRests DEF NextIssue, BotTypes, Resting
    <2>3. CASE /\ UNCHANGED botVars /\ job'[Bot] = job[Bot]
               /\ pc'[Bot] \in {"sign", "put", "reload"}
               /\ pc'[Bot] \in {"put", "reload"} => pc[Bot] \in {"put", "reload"}
      <3>0. UNCHANGED <<phase, todo, snap, cur, nonce, want, quote>>
            /\ Form' = Form /\ Latest(cur)' = Latest(cur)
        BY <1>2, <2>3 DEF botVars, Form, Latest
      <3>1. BotTypes'
        BY <1>1, <1>2, <2>3, <3>0 DEF BotTypes, Engaged
      <3>2. Unanswered' /\ OwnNonce' /\ Handed'
        BY <1>1, <1>2, <3>0 DEF Unanswered, OwnNonce, Handed, Issued
      <3>3. InProof'
        BY <1>1, <1>2, <1>3, <2>3, <3>0 DEF InProof
      <3> QED
        BY <3>1, <3>2, <3>3 DEF BotInv
    <2>4. CASE CheckLedger
      <3>1. LoadIssue(Bot) /\ pc'[Bot] \in {"rejected", "sign"}
        BY <1>1, <2>4, BotWriterSteps DEF CheckLedger
      <3>2. pc'[Bot] = "rejected" => Terminal("rejected", NoNonce)
        BY <2>4 DEF CheckLedger
      <3>3. pc'[Bot] # "rejected" => UNCHANGED botVars /\ job'[Bot] = job[Bot]
        BY <1>1, <2>4, <3>1, BotWriterSteps DEF CheckLedger
      <3> QED
        BY <2>1, <2>3, <3>1, <3>2, <3>3 DEF Terminal
    <2>5. CASE CommitConflict
      BY <1>1, <2>3, <2>5, BotWriterSteps DEF CommitConflict
    <2>6. CASE CommitRetry
      <3>1. Reload(Bot) /\ (IF pc'[Bot] = "failed" THEN NextIssue ELSE UNCHANGED botVars)
        BY <2>6 DEF CommitRetry
      <3>2. CASE pc'[Bot] = "failed"
        BY <2>2, <3>1, <3>2
      <3>3. CASE pc'[Bot] # "failed"
        BY <1>1, <2>3, <3>1, <3>3, BotWriterSteps
      <3> QED
        BY <3>2, <3>3
    <2> QED
      BY <2>4, <2>5, <2>6
  <1> QED
    BY <1>1, <1>3, <1>4, <1>6, <1>7, BotMoves

-----------------------------------------------------------------------------
LEMMA NonceInProcess ==
    ASSUME EnrollInv, phase \in {"file", "ledger"}
    PROVE  nonce \in NoncesOf(cur)
  <1>1. cur \in Issues /\ IssueTypes /\ OwnNonce
    BY AtHand DEF Working, EnrollInv, BotInv
  <1> QED
    BY <1>1, LatestKnown DEF OwnNonce

(* A leaf is minted: on the nonce in process, for the repository that      *)
(* held it.                                                                *)
LEMMA SignStep ==
    ASSUME EnrollInv, CommitInv', NEW c \in Certs, SignLeaf(c)
    PROVE  EnrollInv'
  <1>1. /\ IssueTypes /\ WorldTypes /\ BotTypes /\ OwnNonce /\ Unanswered
        /\ InProof /\ Handed /\ TypeInv /\ LeavesFresh
        /\ OneChallenge /\ Minted /\ Delivery /\ Counted
        /\ UNCHANGED <<issueVars, repoVars, now, botVars, delivered, boundVars>>
        /\ phase = "ledger" /\ phase \in Working
        /\ Sign(Bot, c)
        /\ spent' = [spent EXCEPT ![c] = [issue |-> cur, nonce |-> nonce]]
    BY DEF EnrollInv, CommitInv, BotInv, SignLeaf, Working
  <1>2. /\ cur \in Issues /\ Form \in Forms /\ Form.repo \in Repos
        /\ Form.app \in Apps
        /\ nonce \in NoncesOf(cur) /\ nonce # NoNonce /\ nonce \in Values
        /\ spent \in [Certs -> Proof]
        /\ [issue |-> cur, nonce |-> nonce] \in Proof
        /\ grant \in [Certs -> Repos \cup {NoRepo}]
        /\ job[Bot] \in Jobs
    BY <1>1, AtHand, BotIsIssuer, NonceInProcess
       DEF BotTypes, WorldTypes, TypeInv, CommitTypeOK, Proof
  <1>3. /\ pc[Bot] = "sign" /\ pc'[Bot] = "put"
        /\ job'[Bot].cert = c /\ job'[Bot].app = Form.app
        /\ job'[Bot].repo = Form.repo
    BY <1>1, <1>2, BotWriterSteps DEF InProof, Jobs
  <1>4. /\ grant[c] = NoRepo /\ ledger' = ledger
        /\ grant' = [grant EXCEPT ![c] = Form.repo]
    BY <1>1, <1>2 DEF Sign, InProof
  <1>5. \A a \in Apps : ~Find(ledger[a], c)
    BY <1>1, <1>4 DEF LeavesFresh
  <1>6. /\ \A d \in Certs : Recorded(d)' = Recorded(d)
        /\ ~Recorded(c)
    BY <1>4, <1>5 DEF Recorded, Find
  <1>7. /\ \A i : NoncesOf(i)' = NoncesOf(i)
        /\ \A d \in Certs : d # c => spent'[d] = spent[d] /\ grant'[d] = grant[d]
        /\ spent'[c].issue = cur /\ spent'[c].nonce = nonce
        /\ spent'[c] = [issue |-> cur, nonce |-> nonce]
        /\ grant'[c] = Form.repo /\ commits' = commits /\ cur' = cur
    BY <1>1, <1>2, <1>4 DEF NoncesOf, issueVars, repoVars, botVars
  <1>8. \A i \in Issues : RecordedFor(i)' = RecordedFor(i)
    BY <1>6, <1>7 DEF RecordedFor, CertsOf
  <1>9. IssueTypes' /\ WorldTypes'
    BY <1>1, <1>2
       DEF IssueTypes, WorldTypes, issueVars, repoVars, boundVars
  <1>10. BotInv'
    <2>1. BotTypes'
      BY <1>1, <1>3 DEF BotTypes, botVars, Form, Engaged
    <2>2. Unanswered' /\ Handed'
      BY <1>1 DEF Unanswered, Handed, Issued, botVars, issueVars
    <2>3. OwnNonce'
      BY <1>1, ToldFrame, OverdueFrame DEF OwnNonce, botVars, issueVars
    <2>4. InProof'
      <3>1. UNCHANGED <<phase, nonce>> /\ Form' = Form
        BY <1>1 DEF botVars, Form
      <3> QED
        BY <1>1, <1>3, <1>7, <3>1 DEF InProof
    <2> QED
      BY <2>1, <2>2, <2>3, <2>4 DEF BotInv
  <1>11. OneChallenge'
    BY <1>1 DEF OneChallenge, ChallengeOnce, issueVars
  <1>12. Minted'
    <2>1. \E p \in commits[Form.repo] : p[2] = nonce
      BY <1>1 DEF InProof
    <2>2. ASSUME NEW d \in Certs, grant'[d] # NoRepo
          PROVE  /\ spent'[d].issue \in Issues
                 /\ spent'[d].nonce \in NoncesOf(spent'[d].issue)
                 /\ \E p \in commits'[grant'[d]] : p[2] = spent'[d].nonce
                 /\ \A a \in Apps : Find(ledger'[a], d) =>
                       \E p \in commits'[grant'[d]] : p[1] = a
      <3>1. CASE d = c
        BY <1>2, <1>4, <1>5, <1>7, <2>1, <3>1 DEF Find
      <3>2. CASE d # c
        BY <1>1, <1>4, <1>7, <2>2, <3>2 DEF Minted, ProvenControl
      <3> QED
        BY <3>1, <3>2
    <2>3. ProvenControl'
      <3>1. thread' = thread
        BY <1>1 DEF issueVars
      <3> QED
        BY <2>2, <3>1 DEF ProvenControl, Find, NoncesOf
    <2>4. \A d \in Certs : grant'[d] = NoRepo => spent'[d] = NoProof
      BY <1>1, <1>2, <1>7, LedgerAssumption DEF Minted
    <2> QED
      BY <2>3, <2>4 DEF Minted
  <1>13. Delivery'
    <2>1. \A i \in Issues : \A d \in delivered'[i] :
             d \in Certs /\ d \in CertsOf(i) /\ Recorded(d) /\ d # c
      BY <1>1, <1>6 DEF Delivery, DeliveredIsRecorded, CertsOf
    <2>2. DeliveredIsRecorded'
      BY <1>6, <1>7, <2>1 DEF DeliveredIsRecorded, CertsOf
    <2> QED
      BY <1>1, <2>2 DEF Delivery, ClosedIsServed, Issued, issueVars
  <1>14. Counted'
    <2>1. \A i \in Issues : Aware(i) => Aware(i)'
      BY <1>1, <1>3 DEF Aware, Issued, botVars, issueVars
    <2>2. faults \in Nat /\ faults' = faults
      BY <1>1, EnrollAssumption DEF WorldTypes, boundVars
    <2> QED
      BY <1>1, <1>8, <2>1, <2>2, CountedFrame
  <1> QED
    BY <1>9, <1>10, <1>11, <1>12, <1>13, <1>14 DEF EnrollInv

(* The write lands: the request has one certificate more on record, and    *)
(* the bot knows of it.                                                    *)
LEMMA CommitStep ==
    ASSUME EnrollInv, CommitInv', Commit
    PROVE  EnrollInv'
  <1> DEFINE c == job[Bot].cert
             a == job[Bot].app
  <1>1. /\ IssueTypes /\ WorldTypes /\ BotTypes /\ OwnNonce /\ Unanswered
        /\ InProof /\ Handed /\ TypeInv /\ LeavesFresh
        /\ OneChallenge /\ Minted /\ Delivery /\ Counted
        /\ UNCHANGED <<issueVars, repoVars, now, botVars, histVars, boundVars>>
        /\ phase = "ledger" /\ phase \in Working
        /\ Put(Bot) /\ Write(Bot) /\ pc[Bot] = "put"
    BY DEF EnrollInv, CommitInv, BotInv, Commit, Put, Write, Working
  <1>2. /\ cur \in Issues /\ cur \notin todo /\ Form \in Forms
        /\ Form.repo \in Repos
        /\ ~Issued(cur)
    BY <1>1, AtHand DEF Unanswered
  <1>3. /\ pc'[Bot] = "done" /\ job' [Bot] = job[Bot] /\ grant' = grant
        /\ c \in Certs /\ a \in Apps
        /\ a = Form.app /\ spent[c].issue = cur /\ grant[c] = Form.repo
        /\ spent[c] = [issue |-> cur, nonce |-> nonce]
    BY <1>1, BotWriterSteps, BotIsIssuer
       DEF InProof, Write, TypeInv, JobsKnown, JobKnown, Engaged
  <1>4. /\ \A b \in Apps : ~Find(ledger[b], c)
        /\ \A b \in Apps, d \in Certs :
              Find(ledger'[b], d) <=> Find(ledger[b], d) \/ (b = a /\ d = c)
    <2>1. \A b \in Apps, d \in Certs : ledger'[b].certs[d] =
             IF b = a /\ d = c THEN ActiveEntry ELSE ledger[b].certs[d]
      BY <1>1, WriteStanding, BotIsIssuer
    <2> QED
      BY <1>1, <2>1, BotIsIssuer DEF LeavesFresh, Carries, Find, ActiveEntry
  <1> HIDE DEF c, a
  <1>5. \A d \in Certs : Recorded(d)' <=> Recorded(d) \/ d = c
    BY <1>3, <1>4 DEF Recorded, Find
  <1>6. /\ \A i : NoncesOf(i)' = NoncesOf(i) /\ CertsOf(i)' = CertsOf(i)
        /\ spent' = spent /\ commits' = commits
        /\ delivered' = delivered /\ cur' = cur
    BY <1>1 DEF NoncesOf, CertsOf, issueVars, repoVars, histVars, botVars
  <1>7. /\ RecordedFor(cur)' \subseteq RecordedFor(cur) \cup {c}
        /\ \A i \in Issues : i # cur => RecordedFor(i)' = RecordedFor(i)
    <2>1. \A i \in Issues : i # cur => c \notin CertsOf(i)
      BY <1>3 DEF CertsOf
    <2> QED
      BY <1>5, <1>6, <2>1 DEF RecordedFor, CertsOf
  <1>8. IssueTypes' /\ WorldTypes'
    BY <1>1
       DEF IssueTypes, WorldTypes, issueVars, repoVars, histVars, boundVars
  <1>9. BotInv'
    <2>1. BotTypes'
      BY <1>1, <1>3 DEF BotTypes, botVars, Form, Engaged
    <2>2. Unanswered' /\ Handed'
      BY <1>1, <1>6 DEF Unanswered, Handed, Issued, botVars, issueVars
    <2>3. OwnNonce'
      BY <1>1, ToldFrame, OverdueFrame DEF OwnNonce, botVars, issueVars
    <2>4. InProof'
      <3>1. UNCHANGED <<phase, nonce>> /\ Form' = Form
        BY <1>1 DEF botVars, Form
      <3> QED
        BY <1>1, <1>3, <1>6, <3>1 DEF InProof, c
    <2> QED
      BY <2>1, <2>2, <2>3, <2>4 DEF BotInv
  <1>10. OneChallenge'
    BY <1>1 DEF OneChallenge, ChallengeOnce, issueVars
  <1>11. Minted'
    <2>1. \E p \in commits[Form.repo] : p[1] = Form.app
      BY <1>1 DEF InProof
    <2>2. ASSUME NEW d \in Certs, grant'[d] # NoRepo
          PROVE  /\ spent'[d].issue \in Issues
                 /\ spent'[d].nonce \in NoncesOf(spent[d].issue)'
                 /\ \E p \in commits'[grant'[d]] : p[2] = spent'[d].nonce
                 /\ \A b \in Apps : Find(ledger'[b], d) =>
                       \E p \in commits'[grant'[d]] : p[1] = b
      BY <1>1, <1>3, <1>4, <1>6, <2>1, <2>2 DEF Minted, ProvenControl
    <2>3. ProvenControl'
      BY <2>2 DEF ProvenControl, Find
    <2> QED
      BY <1>1, <1>3, <1>6, <2>3 DEF Minted
  <1>12. Delivery'
    <2>1. DeliveredIsRecorded'
      BY <1>1, <1>5, <1>6 DEF Delivery, DeliveredIsRecorded, CertsOf
    <2> QED
      BY <1>1, <1>6, <2>1 DEF Delivery, ClosedIsServed, Issued, issueVars
  <1>13. Counted'
    <2> SUFFICES ASSUME NEW i \in Issues
                 PROVE  /\ IsFiniteSet(RecordedFor(i)')
                        /\ Cardinality(RecordedFor(i)')
                              <= faults' + (IF Aware(i)' THEN 1 ELSE 0)
      BY DEF Counted
    <2>1. /\ faults \in Nat /\ faults' = faults
          /\ Aware(i) => Aware(i)'
          /\ Aware(cur)' /\ ~Aware(cur)
      BY <1>1, <1>2, <1>3, EnrollAssumption
         DEF WorldTypes, boundVars, Aware, Issued, botVars, issueVars
    <2> DEFINE n == Cardinality(RecordedFor(i))
               m == Cardinality(RecordedFor(i)')
    <2>2. IsFiniteSet(RecordedFor(i)) /\ n \in Nat
          /\ n <= faults + (IF Aware(i) THEN 1 ELSE 0)
      BY <1>1, FS_CardinalityType DEF Counted
    <2>3. CASE i # cur
      <3>1. RecordedFor(i)' = RecordedFor(i) /\ m = n
        BY <1>7, <2>3
      <3> HIDE DEF n, m
      <3>2. m <= faults' + (IF Aware(i)' THEN 1 ELSE 0)
        BY <2>1, <2>2, <3>1
      <3> QED
        BY <2>2, <3>1, <3>2 DEF m
    <2>4. CASE i = cur
      <3> DEFINE more == RecordedFor(i) \cup {c}
      <3>1. /\ IsFiniteSet(more)
            /\ Cardinality(more) = IF c \in RecordedFor(i) THEN n ELSE n + 1
        BY <2>2, FS_AddElement
      <3>2. RecordedFor(i)' \in SUBSET more
        BY <1>6, <1>7, <2>4
      <3> HIDE DEF more
      <3>3. IsFiniteSet(RecordedFor(i)') /\ m <= Cardinality(more)
        BY <3>1, <3>2, FS_Subset
      <3>4. m \in Nat
        BY <3>3, FS_CardinalityType
      <3> HIDE DEF n, m
      <3>5. m <= faults' + (IF Aware(i)' THEN 1 ELSE 0)
        BY <1>6, <2>1, <2>2, <2>4, <3>1, <3>3, <3>4
      <3> QED
        BY <3>3, <3>5 DEF m
    <2> QED
      BY <2>3, <2>4
  <1> QED
    BY <1>8, <1>9, <1>10, <1>11, <1>12, <1>13 DEF EnrollInv

-----------------------------------------------------------------------------
(* A challenge is posted; if it can be read back, it is the only one.      *)
LEMMA PostChallengeStep ==
    ASSUME EnrollInv, CommitInv', PostChallenge
    PROVE  EnrollInv'
  <1>1. /\ IssueTypes /\ WorldTypes /\ BotTypes /\ OwnNonce /\ Unanswered
        /\ InProof /\ OneChallenge
        /\ UNCHANGED commitVars
        /\ UNCHANGED <<filed, body, label, open, repoVars, now, histVars>>
        /\ UNCHANGED boundVars
        /\ UNCHANGED <<todo, snap, cur, nonce, want, quote>>
        /\ phase = "post" /\ phase' = "await" /\ phase \in Working
        /\ thread[cur] = <<>>
        /\ comments' = [comments EXCEPT ![cur] =
                           IF @ < CommentPage THEN @ + 1 ELSE @]
        /\ posted' = [posted EXCEPT ![cur] = IF @ < 2 THEN @ + 1 ELSE @]
    BY DEF EnrollInv, BotInv, PostChallenge, AddComment, Goto, OwnNonce, Working
  <1>2. /\ cur \in Issues /\ cur \notin todo
        /\ SameEntries /\ UNCHANGED <<grant, ledger, pc, job>>
        /\ comments[cur] \in 0..CommentPage /\ posted[cur] \in 0..2
        /\ UNCHANGED <<spent, delivered, commits, faults>>
    BY <1>1, AtHand, SameCommit DEF IssueTypes, histVars, repoVars, boundVars
  <1>3. /\ comments' \in [Issues -> 0..CommentPage]
        /\ posted' \in [Issues -> 0..2]
        /\ \A i \in Issues : i # cur => /\ posted'[i] = posted[i]
                                        /\ comments'[i] = comments[i]
    BY <1>1, <1>2, EnrollAssumption DEF IssueTypes
  <1>4. /\ thread' \in [Issues -> Seq(Challenge)]
        /\ \A i \in Issues : i # cur => thread'[i] = thread[i]
        /\ \A i \in Issues : NoncesOf(i) \subseteq NoncesOf(i)'
        /\ \/ thread'[cur] # <<>> /\ posted'[cur] = 1
           \/ thread'[cur] = <<>> /\ comments'[cur] = CommentPage
    <2>1. CASE comments[cur] < CommentPage
      <3>1. PICK n \in Nonces \ Public : AddMarker(n, FALSE)
        BY <2>1 DEF PostChallenge
      <3>2. n \in Values
        BY <3>1 DEF Values
      <3>3. posted[cur] = 0
        BY <1>1, <1>2, <2>1, EnrollAssumption DEF OneChallenge
      <3>4. posted'[cur] = 1
        BY <1>1, <1>2, <3>3 DEF IssueTypes
      <3> QED
        BY <1>1, <1>2, <3>1, <3>2, <3>4, MarkerAdded
    <2>2. CASE comments[cur] = CommentPage
      <3>1. ~(comments[cur] < CommentPage)
        BY <1>2, <2>2, EnrollAssumption
      <3>2. thread' = thread
        BY <3>1 DEF PostChallenge
      <3>3. comments'[cur] = CommentPage
        BY <1>1, <1>2, <2>2, <3>1 DEF IssueTypes
      <3> QED
        BY <1>1, <3>2, <3>3, SameNonces DEF IssueTypes
    <2> QED
      BY <1>2, <2>1, <2>2, EnrollAssumption
  <1>5. IssueTypes' /\ WorldTypes'
    BY <1>1, <1>3, <1>4
       DEF IssueTypes, WorldTypes, repoVars, histVars, boundVars
  <1>6. OneChallenge'
    <2> SUFFICES ASSUME NEW i \in Issues
                 PROVE  /\ thread'[i] # <<>> => posted'[i] <= 1
                        /\ thread'[i] = <<>> => \/ posted'[i] = 0
                                               \/ comments'[i] = CommentPage
      BY DEF OneChallenge, ChallengeOnce
    <2>1. CASE i = cur
      BY <1>4, <2>1
    <2>2. CASE i # cur
      BY <1>1, <1>3, <1>4, <2>2 DEF OneChallenge, ChallengeOnce
    <2> QED
      BY <2>1, <2>2
  <1>7. \A i \in Issues : Told(i)'
    <2>1. \A i \in Issues : i # cur => Latest(i)' = Latest(i)
      BY <1>4 DEF Latest
    <2> QED
      BY <1>1, <1>4, <2>1 DEF OwnNonce, Told, Overdue, Expired
  <1>8. BotInv'
    <2>1. BotTypes' /\ Unanswered' /\ Handed'
      BY <1>1, <1>2, AtHand DEF BotTypes, Unanswered, Handed, Issued, Form, Working
    <2>2. OwnNonce' /\ InProof'
      BY <1>1, <1>2, <1>7 DEF OwnNonce, InProof, BotTypes, Form
    <2> QED
      BY <2>1, <2>2 DEF BotInv
  <1>9. \A i \in Issues : Issued(i)' = Issued(i) /\ (Aware(i) => Aware(i)')
    BY <1>1 DEF Aware, Issued
  <1> QED
    BY <1>1, <1>2, <1>4, <1>5, <1>6, <1>8, <1>9, Conserved

-----------------------------------------------------------------------------
(* Comments, labels and the closing of an issue.                           *)

(* The bot writes to the issue in process, and no marker.                  *)
LEMMA PaperMoves ==
    ASSUME EnrollInv, CommitInv',
           UNCHANGED <<commitVars, repoVars, now, thread, posted, spent>>,
           UNCHANGED boundVars,
           IssueTypes', delivered' \in [Issues -> SUBSET Certs],
           \A i \in Issues : /\ comments[i] <= comments'[i]
                             /\ delivered[i] \subseteq delivered'[i]
                             /\ Issued(i) => Issued(i)'
                             /\ ~open'[i] => \/ ~open[i]
                                             \/ delivered'[i] # {} /\ Issued(i)'
                             /\ Aware(i) => Aware(i)',
           \A i \in Issues : \A c \in delivered'[i] :
              c \in delivered[i] \/ (c \in CertsOf(i) /\ Recorded(c)),
           BotInv'
    PROVE  EnrollInv'
  <1>1. SameEntries /\ UNCHANGED grant
    BY SameCommit
  <1>2. WorldTypes'
    BY DEF EnrollInv, WorldTypes, repoVars, boundVars
  <1>3. UNCHANGED <<commits, faults>>
    BY DEF repoVars, boundVars
  <1>4. OneChallenge'
    BY OneChallengeFrame DEF EnrollInv
  <1> QED
    BY <1>1, <1>2, <1>3, <1>4, SameNonces, Conserved

LEMMA AddCommentFact ==
    ASSUME IssueTypes, NEW i \in Issues, AddComment(i)
    PROVE  /\ comments' \in [Issues -> 0..CommentPage]
           /\ \A j \in Issues : comments[j] <= comments'[j]
  BY EnrollAssumption DEF IssueTypes, AddComment

LEMMA AwaitStep ==
    ASSUME EnrollInv, CommitInv', LabelAwaiting
    PROVE  EnrollInv'
  <1>1. /\ IssueTypes /\ BotTypes /\ OwnNonce
        /\ UNCHANGED commitVars
        /\ UNCHANGED <<filed, body, open, comments, thread, posted, repoVars, now,
                       histVars, boundVars>>
        /\ phase = "await" /\ phase \in Working
        /\ label' = [label EXCEPT ![cur] = @ \cup {"awaiting-challenge"}]
        /\ NextIssue
    BY DEF EnrollInv, BotInv, LabelAwaiting, Working
  <1>2. /\ cur \in Issues /\ cur \notin todo /\ pc'[Bot] \in Resting
        /\ \A i \in todo : i \in Issues /\ ~Issued(i)
    BY <1>1, AtHand, SameCommit
  <1>3. IssueTypes'
    BY <1>1, <1>2 DEF IssueTypes, Labels
  <1>4. \A i \in Issues : /\ Issued(i)' = Issued(i)
                          /\ "expired" \in label'[i] <=> "expired" \in label[i]
    BY <1>1, <1>2 DEF IssueTypes, Issued
  <1>5. BotInv'
    BY <1>1, <1>2, <1>4, ToldFrame, BotRests
       DEF NextIssue, BotTypes, OwnNonce, Issued
  <1>6. \A i \in Issues : Aware(i) => Aware(i)'
    BY <1>1, <1>4 DEF Aware
  <1>7. UNCHANGED <<delivered, spent>> /\ delivered \in [Issues -> SUBSET Certs]
        /\ \A i \in Issues : comments[i] <= comments'[i]
    BY <1>1, EnrollAssumption DEF histVars, EnrollInv, WorldTypes, IssueTypes
  <1> QED
    BY <1>1, <1>3, <1>4, <1>5, <1>6, <1>7, PaperMoves

LEMMA DeliverStep ==
    ASSUME EnrollInv, CommitInv', Deliver
    PROVE  EnrollInv'
  <1> DEFINE c == job[Bot].cert
  <1>1. /\ IssueTypes /\ BotTypes /\ OwnNonce /\ Unanswered /\ InProof
        /\ CommitInv /\ TypeInv
        /\ UNCHANGED commitVars
        /\ UNCHANGED <<filed, body, label, open, thread, posted, repoVars, now, spent,
                       boundVars>>
        /\ phase = "ledger" /\ phase \in Working /\ pc[Bot] = "done"
        /\ delivered' = [delivered EXCEPT ![cur] = @ \cup {c}]
        /\ AddComment(cur)
        /\ phase' = "issued" /\ UNCHANGED <<todo, snap, cur, nonce, want, quote>>
    BY DEF EnrollInv, CommitInv, BotInv, Deliver, Goto, Working
  <1>2. /\ cur \in Issues /\ cur \notin todo
        /\ delivered \in [Issues -> SUBSET Certs]
        /\ spent[c].issue = cur /\ pc'[Bot] \in Resting
    BY <1>1, AtHand, SameCommit DEF EnrollInv, WorldTypes, InProof, Resting
  <1>3. /\ c \in Certs /\ job[Bot].app \in Apps /\ Find(ledger[job[Bot].app], c)
    BY <1>1, BotIsIssuer
       DEF CommitInv, ReportedIsCommitted, TypeInv, JobsKnown, JobKnown, Engaged
  <1>4. c \in CertsOf(cur) /\ Recorded(c)
    BY <1>2, <1>3 DEF CertsOf, Recorded
  <1> HIDE DEF c
  <1>5. /\ delivered' \in [Issues -> SUBSET Certs]
        /\ delivered'[cur] # {}
        /\ \A i \in Issues : /\ delivered[i] \subseteq delivered'[i]
                             /\ \A d \in delivered'[i] :
                                   d \in delivered[i] \/ (i = cur /\ d = c)
    BY <1>1, <1>2, <1>3
  <1>6. IssueTypes'
    BY <1>1, <1>2, AddCommentFact DEF IssueTypes
  <1>7. BotInv'
    <2>1. BotTypes' /\ Unanswered' /\ Handed'
      BY <1>1, <1>2, <1>5 DEF BotTypes, Unanswered, Handed, Issued, Working
    <2>2. OwnNonce' /\ InProof'
      BY <1>1, <1>2, ToldFrame DEF OwnNonce, InProof, BotTypes
    <2> QED
      BY <2>1, <2>2 DEF BotInv
  <1>8. \A i \in Issues : Issued(i)' = Issued(i) /\ (Aware(i) => Aware(i)')
    BY <1>1 DEF Aware, Issued
  <1>9. \A i \in Issues : comments[i] <= comments'[i]
    BY <1>1, <1>2, AddCommentFact
  <1> QED
    BY <1>1, <1>4, <1>5, <1>6, <1>7, <1>8, <1>9, PaperMoves

LEMMA LabelIssuedStep ==
    ASSUME EnrollInv, CommitInv', LabelIssued
    PROVE  EnrollInv'
  <1>1. /\ IssueTypes /\ BotTypes /\ OwnNonce /\ Unanswered /\ Handed
        /\ UNCHANGED commitVars
        /\ UNCHANGED <<filed, body, open, comments, thread, posted, repoVars, now,
                       histVars, boundVars>>
        /\ phase = "issued" /\ phase \in Working
        /\ label' = [label EXCEPT ![cur] =
                        (@ \ {"awaiting-challenge"}) \cup {"issued"}]
        /\ phase' = "close" /\ UNCHANGED <<todo, snap, cur, nonce, want, quote>>
    BY DEF EnrollInv, BotInv, LabelIssued, Goto, Working
  <1>2. /\ cur \in Issues /\ cur \notin todo /\ pc'[Bot] \in Resting
        /\ \A i \in todo : i \in Issues /\ ~Issued(i)
        /\ UNCHANGED <<delivered, spent>>
    BY <1>1, AtHand, SameCommit DEF histVars
  <1>3. IssueTypes'
    BY <1>1, <1>2 DEF IssueTypes, Labels
  <1>4. /\ \A i \in Issues : /\ i # cur => Issued(i)' = Issued(i)
                             /\ "expired" \in label'[i] <=> "expired" \in label[i]
        /\ Issued(cur)'
    BY <1>1, <1>2 DEF IssueTypes, Issued
  <1>5. BotInv'
    <2>1. BotTypes' /\ Handed'
      BY <1>1, <1>2 DEF BotTypes, Handed, Working
    <2>2. Unanswered'
      BY <1>1, <1>2, <1>4 DEF Unanswered
    <2>3. OwnNonce' /\ InProof'
      BY <1>1, <1>2, <1>4, ToldFrame DEF OwnNonce, InProof, BotTypes
    <2> QED
      BY <2>1, <2>2, <2>3 DEF BotInv
  <1>6. \A i \in Issues : (Issued(i) => Issued(i)') /\ (Aware(i) => Aware(i)')
    BY <1>1, <1>4 DEF Aware
  <1>7. delivered \in [Issues -> SUBSET Certs]
        /\ \A i \in Issues : comments[i] <= comments'[i]
    BY <1>1, EnrollAssumption DEF EnrollInv, WorldTypes, IssueTypes
  <1> QED
    BY <1>1, <1>2, <1>3, <1>5, <1>6, <1>7, PaperMoves

LEMMA CloseStep ==
    ASSUME EnrollInv, CommitInv', CloseIssue
    PROVE  EnrollInv'
  <1>1. /\ IssueTypes /\ BotTypes /\ OwnNonce /\ Unanswered /\ Handed
        /\ UNCHANGED commitVars
        /\ UNCHANGED <<filed, body, label, comments, thread, posted, repoVars, now,
                       histVars, boundVars>>
        /\ phase = "close" /\ phase \in Working
        /\ open' = [open EXCEPT ![cur] = FALSE]
        /\ NextIssue
    BY DEF EnrollInv, BotInv, CloseIssue, Working
  <1>2. /\ cur \in Issues /\ cur \notin todo /\ pc'[Bot] \in Resting
        /\ \A i \in todo : i \in Issues /\ ~Issued(i)
        /\ Issued(cur) /\ delivered[cur] # {}
        /\ UNCHANGED <<delivered, spent>>
    BY <1>1, AtHand, SameCommit DEF histVars, Unanswered, Handed
  <1>3. IssueTypes'
    BY <1>1, <1>2 DEF IssueTypes
  <1>4. \A i \in Issues : /\ Issued(i)' = Issued(i)
                          /\ ~open'[i] => ~open[i] \/ i = cur
                          /\ Aware(i) => Aware(i)'
    BY <1>1, <1>2 DEF IssueTypes, Issued, Aware
  <1>5. BotInv'
    BY <1>1, <1>2, <1>4, ToldFrame, BotRests
       DEF NextIssue, BotTypes, OwnNonce, Issued
  <1>6. delivered \in [Issues -> SUBSET Certs]
        /\ \A i \in Issues : comments[i] <= comments'[i]
    BY <1>1, EnrollAssumption DEF EnrollInv, WorldTypes, IssueTypes
  <1> QED
    BY <1>1, <1>2, <1>3, <1>4, <1>5, <1>6, PaperMoves

(* A verdict is posted; with a marker it quotes it shows one more.         *)
LEMMA PostVerdictStep ==
    ASSUME EnrollInv, CommitInv', PostVerdict
    PROVE  EnrollInv'
  <1>1. /\ IssueTypes /\ WorldTypes /\ BotTypes /\ OwnNonce /\ Unanswered
        /\ OneChallenge
        /\ UNCHANGED commitVars
        /\ UNCHANGED <<filed, body, label, open, posted, repoVars, now, histVars>>
        /\ UNCHANGED boundVars
        /\ UNCHANGED <<todo, snap, cur, nonce, want, quote>>
        /\ phase = "terminal" /\ phase' = "mark" /\ phase \in Working
        /\ AddComment(cur)
    BY DEF EnrollInv, BotInv, PostVerdict, Goto, Working
  <1>2. /\ cur \in Issues /\ cur \notin todo
        /\ pc'[Bot] \in Resting /\ SameEntries /\ UNCHANGED grant
        /\ UNCHANGED <<spent, delivered, commits, faults>>
        /\ comments' \in [Issues -> 0..CommentPage]
        /\ \A i \in Issues : comments[i] <= comments'[i]
    BY <1>1, AtHand, SameCommit, AddCommentFact DEF histVars, repoVars, boundVars
  <1>3. CASE quote # NoNonce /\ comments[cur] < CommentPage
    <2>1. AddMarker(quote, TRUE) /\ quote \in Values
      BY <1>1, <1>3 DEF PostVerdict, BotTypes
    <2>2. /\ thread' \in [Issues -> Seq(Challenge)]
          /\ thread'[cur] # <<>> /\ Latest(cur)'.quoted
          /\ \A i \in Issues : i # cur => thread'[i] = thread[i]
          /\ \A i \in Issues : NoncesOf(i) \subseteq NoncesOf(i)'
      BY <1>1, <1>2, <2>1, MarkerAdded
    <2>3. IssueTypes' /\ WorldTypes'
      BY <1>1, <1>2, <2>2
         DEF IssueTypes, WorldTypes, repoVars, histVars, boundVars
    <2>4. OneChallenge'
      <3>1. posted[cur] <= 1
        <4>1. comments[cur] \in 0..CommentPage /\ comments[cur] # CommentPage
          BY <1>1, <1>2, <1>3, EnrollAssumption DEF IssueTypes
        <4> QED
          BY <1>1, <1>2, <4>1 DEF OneChallenge, ChallengeOnce
      <3>2. \A i \in Issues : i # cur => comments'[i] = comments[i]
        BY <1>1 DEF AddComment, IssueTypes
      <3> QED
        BY <1>1, <2>2, <3>1, <3>2 DEF OneChallenge, ChallengeOnce
    <2>5. \A i \in Issues : Told(i)'
      <3>1. \A i \in Issues : i # cur => Latest(i)' = Latest(i)
        BY <2>2 DEF Latest
      <3> QED
        BY <1>1, <1>2, <2>2, <3>1 DEF OwnNonce, Told, Overdue, Expired
    <2>6. BotInv'
      <3>1. BotTypes' /\ Unanswered' /\ Handed'
        BY <1>1, <1>2 DEF BotTypes, Unanswered, Handed, Issued, Working
      <3>2. OwnNonce' /\ InProof'
        BY <1>1, <1>3, <2>5 DEF OwnNonce, InProof
      <3> QED
        BY <3>1, <3>2 DEF BotInv
    <2>7. \A i \in Issues : Issued(i)' = Issued(i) /\ (Aware(i) => Aware(i)')
      BY <1>1 DEF Aware, Issued
    <2> QED
      BY <1>1, <1>2, <2>2, <2>3, <2>4, <2>6, <2>7, Conserved
  <1>4. CASE ~(quote # NoNonce /\ comments[cur] < CommentPage)
    <2>1. thread' = thread
      BY <1>4 DEF PostVerdict
    <2>2. IssueTypes'
      BY <1>1, <1>2, <2>1 DEF IssueTypes
    <2>3. BotInv'
      <3>1. BotTypes' /\ Unanswered' /\ Handed'
        BY <1>1, <1>2 DEF BotTypes, Unanswered, Handed, Issued, Working
      <3>2. OwnNonce' /\ InProof'
        BY <1>1, <1>2, <2>1, OverdueFrame, ToldFrame DEF OwnNonce, InProof
      <3> QED
        BY <3>1, <3>2 DEF BotInv
    <2>4. \A i \in Issues : Issued(i)' = Issued(i) /\ (Aware(i) => Aware(i)')
      BY <1>1 DEF Aware, Issued
    <2>5. delivered \in [Issues -> SUBSET Certs]
      BY <1>1 DEF WorldTypes
    <2> QED
      BY <1>1, <1>2, <2>1, <2>2, <2>3, <2>4, <2>5, PaperMoves
  <1> QED
    BY <1>3, <1>4

LEMMA LabelVerdictStep ==
    ASSUME EnrollInv, CommitInv', LabelVerdict
    PROVE  EnrollInv'
  <1>1. /\ IssueTypes /\ BotTypes /\ OwnNonce /\ Unanswered
        /\ UNCHANGED commitVars
        /\ UNCHANGED <<filed, body, open, comments, thread, posted, repoVars, now,
                       histVars, boundVars>>
        /\ phase = "mark" /\ phase \in Working /\ UNCHANGED <<todo, snap>>
        /\ label' = [label EXCEPT ![cur] = @ \cup {want}] /\ NextIssue
    BY DEF EnrollInv, BotInv, LabelVerdict, NextIssue, Working
  <1>2. /\ cur \in Issues /\ cur \notin todo /\ pc'[Bot] \in Resting
        /\ \A i \in todo : i \in Issues /\ ~Issued(i)
        /\ want \in {"invalid", "needs-changes", "expired", "rejected"}
        /\ UNCHANGED <<delivered, spent>>
    BY <1>1, AtHand, SameCommit DEF histVars, BotTypes
  <1>3. delivered \in [Issues -> SUBSET Certs]
    BY DEF EnrollInv, WorldTypes
  <1>4. IssueTypes' /\ \A i \in Issues : comments[i] <= comments'[i]
    BY <1>1, <1>2, EnrollAssumption DEF IssueTypes, Labels
  <1>5. \A i \in Issues :
           /\ Issued(i)' = Issued(i)
           /\ "expired" \in label'[i] =>
                 "expired" \in label[i] \/ (i = cur /\ want = "expired")
    BY <1>1, <1>2 DEF IssueTypes, Issued
  <1>6. \A i \in Issues : Told(i)'
    BY <1>1, <1>5, OverdueFrame DEF OwnNonce, Told, Overdue
  <1>7. BotInv'
    BY <1>1, <1>2, <1>5, <1>6, BotRests DEF NextIssue, BotTypes
  <1>8. \A i \in Issues : Aware(i) => Aware(i)'
    BY <1>1, <1>5 DEF Aware
  <1> QED
    BY <1>1, <1>2, <1>3, <1>4, <1>5, <1>7, <1>8, PaperMoves

-----------------------------------------------------------------------------
(* What goes on around the bot: forms, chat, pushes, overrides, time.      *)

LEMMA BotStays ==
    ASSUME BotInv, UNCHANGED <<botVars, label, thread, spent, grant, delivered>>,
           pc'[Bot] = pc[Bot], job'[Bot] = job[Bot],
           \A r \in Repos : commits[r] \subseteq commits'[r],
           \A i \in Issues : Overdue(i) => Overdue(i)',
           cur # NoIssue => cur \in Issues
    PROVE  BotInv'
  <1>1. /\ UNCHANGED <<phase, todo, snap, cur, nonce, want, quote>>
        /\ UNCHANGED <<label, thread, spent, grant, delivered>>
        /\ Form' = Form /\ \A i : Latest(i)' = Latest(i)
    BY DEF botVars, Form, Latest
  <1>2. BotTypes' /\ Unanswered' /\ Handed'
    BY <1>1 DEF BotInv, BotTypes, Unanswered, Handed, Issued
  <1>3. OwnNonce'
    <2>1. want = "expired" => cur \in Issues
      BY DEF BotInv, BotTypes, Working
    <2>2. \A i \in Issues : Told(i)'
      BY <1>1 DEF BotInv, OwnNonce, Told
    <2> QED
      BY <1>1, <2>1, <2>2 DEF BotInv, OwnNonce
  <1>4. InProof'
    <2>1. phase \in {"comments", "post", "await", "file", "ledger"}
             => commits[Form.repo] \subseteq commits'[Form.repo]
      BY DEF BotInv, BotTypes, Forms
    <2> QED
      BY <1>1, <2>1 DEF BotInv, InProof
  <1> QED
    BY <1>2, <1>3, <1>4 DEF BotInv

LEMMA WorldMoves ==
    ASSUME EnrollInv, CommitInv', SameEntries,
           UNCHANGED <<botVars, label, open, thread, posted, histVars, grant,
                       faults>>,
           pc'[Bot] = pc[Bot], job'[Bot] = job[Bot],
           \A r \in Repos : commits[r] \subseteq commits'[r],
           \A i \in Issues : comments[i] <= comments'[i],
           \A i \in Issues : Overdue(i) => Overdue(i)',
           IssueTypes', WorldTypes'
    PROVE  EnrollInv'
  <1>1. /\ UNCHANGED <<spent, delivered>>
        /\ cur # NoIssue => cur \in Issues
        /\ BotInv
    BY DEF histVars, EnrollInv, BotInv, BotTypes
  <1>2. BotInv'
    BY <1>1, BotStays
  <1>3. \A i \in Issues : Issued(i)' = Issued(i) /\ (Aware(i) => Aware(i)')
    BY DEF Issued, Aware, botVars
  <1>4. OneChallenge'
    BY OneChallengeFrame DEF EnrollInv
  <1> QED
    BY <1>1, <1>2, <1>3, <1>4, SameNonces, Conserved

LEMMA WorldSteps ==
    ASSUME EnrollInv, CommitInv', EnvStep
    PROVE  EnrollInv'
  <1>0. /\ IssueTypes /\ WorldTypes /\ TypeInv
        /\ \A i \in Issues : comments[i] <= comments[i]
    BY EnrollAssumption DEF EnrollInv, CommitInv, IssueTypes
  <1>1. ASSUME NEW f \in Written, File(f) \/ \E i \in Issues : EditForm(i, f)
        PROVE  EnrollInv'
    <2>1. f \in Forms \cup Refused
      BY <1>0, PublicAreValues DEF Written, Known, Values, Refused
    <2>2. body' \in [Issues -> Forms \cup Refused] /\ filed' \in 0..MaxIssues
      <3>1. CASE File(f)
        <4>1. /\ filed < MaxIssues /\ filed' = filed + 1
              /\ body' = [body EXCEPT ![filed + 1] = f]
          BY <3>1 DEF File
        <4>2. filed' \in 0..MaxIssues
          BY <1>0, <4>1, EnrollAssumption DEF IssueTypes
        <4>3. body' \in [Issues -> Forms \cup Refused]
          BY <1>0, <2>1, <4>1 DEF IssueTypes
        <4> QED
          BY <4>2, <4>3
      <3>2. CASE \E i \in Issues : EditForm(i, f)
        BY <1>0, <2>1, <3>2 DEF EditForm, IssueTypes
      <3> QED
        BY <1>1, <3>1, <3>2
    <2>3. /\ UNCHANGED <<thread, now, commits, comments, faults, label, open, posted>>
          /\ UNCHANGED <<declared, served>> /\ acts < MaxActs /\ acts' = acts + 1
          /\ UNCHANGED commitVars /\ UNCHANGED botVars /\ UNCHANGED histVars
      BY <1>1 DEF File, EditForm, Act, repoVars
    <2>4. IssueTypes' /\ WorldTypes'
      BY <1>0, <2>2, <2>3, EnrollAssumption DEF IssueTypes, WorldTypes, histVars
    <2> QED
      BY <1>0, <2>3, <2>4, OverdueFrame, SameCommit, WorldMoves
  <1>2. ASSUME NEW i \in Issues, Chat(i)
        PROVE  EnrollInv'
    <2>1. AddComment(i) /\ acts < MaxActs /\ acts' = acts + 1
      BY <1>2 DEF Chat, Act
    <2>2. IssueTypes' /\ WorldTypes'
      BY <1>0, <1>2, <2>1, AddCommentFact, EnrollAssumption
         DEF Chat, IssueTypes, WorldTypes, repoVars, histVars
    <2>3. /\ UNCHANGED <<thread, now, commits, faults, label, open, posted>>
          /\ UNCHANGED commitVars /\ UNCHANGED botVars /\ UNCHANGED histVars
          /\ \A j \in Issues : comments[j] <= comments'[j]
      BY <1>0, <1>2, <2>1, AddCommentFact DEF Chat, repoVars
    <2> QED
      BY <2>2, <2>3, OverdueFrame, SameCommit, WorldMoves
  <1>3. ASSUME NEW r \in Repos, NEW a \in Apps \cup {NoApp} \cup Known,
               NEW n \in Known \cup {NoNonce}, Push(r, a, n)
        PROVE  EnrollInv'
    <2>1. n \in Values \cup {NoNonce} /\ a \in Apps \cup {NoApp} \cup Values
      BY <1>0, PublicAreValues DEF Known, Values
    <2>2. /\ declared' = [declared EXCEPT ![r] = a]
          /\ served' = [served EXCEPT ![r] = n]
          /\ commits' = [commits EXCEPT ![r] = @ \cup {<<a, n>>}]
          /\ UNCHANGED issueVars /\ UNCHANGED <<now, faults>>
          /\ acts < MaxActs /\ acts' = acts + 1
          /\ UNCHANGED commitVars /\ UNCHANGED botVars /\ UNCHANGED histVars
      BY <1>3 DEF Push, Act
    <2>3. UNCHANGED <<thread, comments, label, open, posted>> /\ IssueTypes'
      BY <1>0, <2>2 DEF issueVars, IssueTypes
    <2>4. commits' \in [Repos -> SUBSET ((Apps \cup {NoApp} \cup Values)
                                         \X (Values \cup {NoNonce}))]
      BY <1>0, <2>1, <2>2 DEF WorldTypes
    <2>5. \A q \in Repos : /\ commits[q] \subseteq commits'[q]
                           /\ <<declared'[q], served'[q]>> \in commits'[q]
      BY <1>0, <2>2 DEF WorldTypes
    <2>6. WorldTypes'
      BY <1>0, <2>1, <2>2, <2>4, <2>5, EnrollAssumption DEF WorldTypes, histVars
    <2> QED
      BY <1>0, <2>2, <2>3, <2>5, <2>6, OverdueFrame, SameCommit, WorldMoves
  <1>4. ASSUME NEW a \in Apps, NEW r \in Repos, NEW b \in BOOLEAN, Override(a, r, b)
        PROVE  EnrollInv'
    <2>1. /\ Reassign(a, r, b)
          /\ UNCHANGED <<issueVars, repoVars, now, botVars, histVars, boundVars>>
      BY <1>4 DEF Override
    <2>2. SameEntries /\ UNCHANGED <<grant, pc, job>>
      BY <1>0, <2>1, ReassignStanding DEF SameEntries, Find, Reassign, Edit
    <2>3. UNCHANGED <<thread, comments, label, open, posted, commits, faults>>
          /\ IssueTypes' /\ WorldTypes'
      BY <1>0, <2>1
         DEF issueVars, repoVars, histVars, boundVars, IssueTypes, WorldTypes
    <2> QED
      BY <1>0, <2>1, <2>2, <2>3, OverdueFrame, WorldMoves
  <1>5. ASSUME Tick
        PROVE  EnrollInv'
    <2>1. /\ now < MaxTime /\ now' = now + 1
          /\ UNCHANGED commitVars /\ UNCHANGED issueVars
          /\ UNCHANGED <<repoVars, botVars, histVars, boundVars>>
      BY <1>5 DEF Tick
    <2>2. UNCHANGED <<thread, comments, label, open, posted, commits, faults>>
          /\ IssueTypes' /\ WorldTypes'
      BY <1>0, <2>1, EnrollAssumption
         DEF issueVars, repoVars, histVars, boundVars, IssueTypes, WorldTypes
    <2>3. \A i \in Issues : Overdue(i) => Overdue(i)'
      <3> SUFFICES ASSUME NEW i \in Issues, Overdue(i) PROVE Overdue(i)'
        OBVIOUS
      <3>1. Latest(i).at \in Nat /\ now \in Nat
        BY <1>0, LatestKnown, EnrollAssumption
           DEF Overdue, Challenge, WorldTypes
      <3>2. now - Latest(i).at > Validity /\ thread[i] # <<>>
        BY DEF Overdue, Expired
      <3>3. thread' = thread /\ Latest(i)' = Latest(i)
        BY <2>2 DEF Latest
      <3>4. now' - Latest(i).at > Validity
        BY <2>1, <3>1, <3>2, EnrollAssumption
      <3> QED
        BY <3>2, <3>3, <3>4 DEF Overdue, Expired
    <2> QED
      BY <1>0, <2>1, <2>2, <2>3, SameCommit, WorldMoves
  <1> QED
    BY <1>1, <1>2, <1>3, <1>4, <1>5 DEF EnvStep

-----------------------------------------------------------------------------
(* The invariant is one.                                                   *)
LEMMA EnrollInvInit == Init => EnrollInv
  <1> SUFFICES ASSUME Init PROVE EnrollInv
    OBVIOUS
  <1>1. CommitInv
    BY CommitInvInit DEF Init
  <1>2. /\ \A c \in Certs : grant[c] = NoRepo /\ spent[c] = NoProof
        /\ \A a \in Apps, c \in Certs : ~Find(ledger[a], c)
        /\ pc[Bot] = "idle"
    BY <1>1, BotIsIssuer DEF Init, CommitInit, CommitInv, LeavesFresh
  <1>3. IssueTypes
    BY EmptySeq, EnrollAssumption DEF Init, IssueTypes, Refused, Values
  <1>4. WorldTypes
    BY EnrollAssumption DEF Init, WorldTypes, Values, Proof, NoProof
  <1>5. BotTypes
    BY <1>2, NoIssueIsNone DEF Init, BotTypes, Working, Resting, BadForm, Refused
  <1>6. Unanswered /\ Handed /\ OwnNonce /\ InProof
    BY NoIssueIsNone
       DEF Init, Unanswered, Handed, OwnNonce, Told, InProof, Working
  <1>7. OneChallenge
    BY DEF Init, OneChallenge, ChallengeOnce
  <1>8. Minted
    BY <1>2 DEF Minted, ProvenControl
  <1>9. Delivery
    BY DEF Init, Delivery, DeliveredIsRecorded, ClosedIsServed
  <1>10. Counted
    <2> SUFFICES ASSUME NEW i \in Issues
                 PROVE  /\ IsFiniteSet(RecordedFor(i))
                        /\ Cardinality(RecordedFor(i))
                              <= faults + (IF Aware(i) THEN 1 ELSE 0)
      BY DEF Counted
    <2>1. RecordedFor(i) = {}
      BY <1>2 DEF RecordedFor, CertsOf, Recorded
    <2>2. faults = 0
      BY DEF Init
    <2> QED
      BY <2>1, <2>2, FS_EmptySet
  <1> QED
    BY <1>1, <1>3, <1>4, <1>5, <1>6, <1>7, <1>8, <1>9, <1>10
       DEF EnrollInv, BotInv

LEMMA EnrollInvNext == EnrollInv /\ [Next]_vars => EnrollInv'
  <1> SUFFICES ASSUME EnrollInv, [Next]_vars PROVE EnrollInv'
    OBVIOUS
  <1>1. CommitInv' /\ NothingLost
    BY CommitMoves, NextLosesNothing DEF EnrollInv, BotInv
  <1>2. CASE UNCHANGED vars
    <2>1. /\ UNCHANGED commitVars
          /\ UNCHANGED <<issueVars, repoVars, now, histVars, acts>>
          /\ UNCHANGED <<botVars, label, thread, spent, delivered, commits, faults>>
      BY <1>2 DEF vars, issueVars, repoVars, histVars, boundVars
    <2>2. BotInv' /\ faults' \in 0..MaxFaults
      BY <2>1, SameCommit, OverdueFrame, BotStays
         DEF EnrollInv, BotInv, BotTypes, WorldTypes
    <2>3. \A i \in Issues : Aware(i) => Aware(i)'
      BY <2>1, SameCommit DEF Aware, Issued, botVars
    <2> QED
      BY <1>1, <2>1, <2>2, <2>3, SameCommit, BotMoves
  <1>3. CASE StartRun \/ EndRun
    BY <1>1, <1>3, RunSteps
  <1>4. CASE IssueError \/ RunKilled
    BY <1>1, <1>4, ErrorSteps
  <1>5. CASE \E i \in Issues : Pick(i)
    BY <1>1, <1>5, PickStep
  <1>6. CASE ReadInfo \/ ReadComments \/ ReadChallenge
    BY <1>1, <1>6, ReadInfoStep, ReadCommentsStep, ReadChallengeStep
  <1>7. CASE CheckLedger \/ CommitConflict \/ CommitRetry
    BY <1>1, <1>7, CheckStep
  <1>8. CASE \E c \in Certs : SignLeaf(c)
    BY <1>1, <1>8, SignStep
  <1>9. CASE Commit
    BY <1>1, <1>9, CommitStep
  <1>10. CASE PostChallenge
    BY <1>1, <1>10, PostChallengeStep
  <1>11. CASE LabelAwaiting \/ Deliver \/ LabelIssued \/ CloseIssue
    BY <1>1, <1>11, AwaitStep, DeliverStep, LabelIssuedStep, CloseStep
  <1>12. CASE PostVerdict \/ LabelVerdict
    BY <1>1, <1>12, PostVerdictStep, LabelVerdictStep
  <1>13. CASE EnvStep
    BY <1>1, <1>13, WorldSteps
  <1> QED
    BY <1>2, <1>3, <1>4, <1>5, <1>6, <1>7, <1>8, <1>9, <1>10, <1>11, <1>12,
       <1>13 DEF Next, BotStep

LEMMA EnrollInvHolds == Spec => []EnrollInv
  BY EnrollInvInit, EnrollInvNext, PTL DEF Spec

-----------------------------------------------------------------------------
(* The variables keep their types, and the bot has at hand what each call  *)
(* of enroll.Process needs.                                                *)
THEOREM EnrollTypeCorrect == Spec => []TypeOK
  <1>1. EnrollInv => TypeOK
    <2> SUFFICES ASSUME EnrollInv PROVE TypeOK
      OBVIOUS
    <2>1. CommitTypeOK /\ want \in Labels \cup {"none"}
      BY DEF EnrollInv, CommitInv, TypeInv, BotInv, BotTypes, Labels
    <2> QED
      BY <2>1 DEF EnrollInv, BotInv, IssueTypes, WorldTypes, BotTypes, TypeOK
  <1> QED
    BY <1>1, EnrollInvHolds, PTL

(* Nobody gets a certificate for a repository whose default branch never   *)
(* held a nonce that the bot's comments on the request show, quoted ones   *)
(* included, or never declared the appId, with any number of requests,     *)
(* pushes and edited forms (spec 4 steps 4-9, steps.go:25-29).             *)
THEOREM ProvenControlCorrect == Spec => []ProvenControl
  <1>1. EnrollInv => ProvenControl
    BY DEF EnrollInv, Minted
  <1> QED
    BY <1>1, EnrollInvHolds, PTL

(* What is posted to a request was minted for that request and stands in   *)
(* the ledger, whatever failed (commitLedger before delivery).             *)
THEOREM DeliveredIsRecordedCorrect == Spec => []DeliveredIsRecorded
  <1>1. EnrollInv => DeliveredIsRecorded
    BY DEF EnrollInv, Delivery
  <1> QED
    BY <1>1, EnrollInvHolds, PTL

(* A closed request has its certificate and its label.                     *)
THEOREM ClosedIsServedCorrect == Spec => []ClosedIsServed
  <1>1. EnrollInv => ClosedIsServed
    BY DEF EnrollInv, Delivery
  <1> QED
    BY <1>1, EnrollInvHolds, PTL

(* The bot generates one challenge at most for a request whose comments    *)
(* show a marker, with any number of errors and quoted markers             *)
(* (priorChallenge).                                                       *)
THEOREM ChallengeOnceCorrect == Spec => []ChallengeOnce
  <1>1. EnrollInv => ChallengeOnce
    BY DEF EnrollInv, OneChallenge
  <1> QED
    BY <1>1, EnrollInvHolds, PTL

(* Second certificates come from errors only, one from each, with any      *)
(* number of errors.                                                       *)
THEOREM DuplicatesCorrect == Spec => []DuplicatesOnlyByFault
  <1>1. EnrollInv => DuplicatesOnlyByFault
    <2> SUFFICES ASSUME EnrollInv, NEW i \in Issues
                 PROVE  Cardinality(RecordedFor(i)) <= 1 + faults
      BY DEF DuplicatesOnlyByFault, RecordedFor
    <2> DEFINE n == Cardinality(RecordedFor(i))
    <2>1. IsFiniteSet(RecordedFor(i)) /\ n \in Nat
          /\ n <= faults + (IF Aware(i) THEN 1 ELSE 0)
      BY FS_CardinalityType DEF EnrollInv, Counted
    <2>2. faults \in Nat
      BY EnrollAssumption DEF EnrollInv, WorldTypes
    <2> HIDE DEF n
    <2>3. n <= 1 + faults
      BY <2>1, <2>2
    <2> QED
      BY <2>3 DEF n
  <1> QED
    BY <1>1, EnrollInvHolds, PTL

(* Only a minted leaf can add to a request's certificates.                 *)
LEMMA Minters ==
    ASSUME [Next]_vars
    PROVE  (\E c \in Certs : SignLeaf(c)) \/ UNCHANGED spent
  BY DEF Next, BotStep, EnvStep, StartRun, List, EndRun, Pick, ReadInfo,
     ReadComments, PostChallenge, LabelAwaiting, ReadChallenge, CheckLedger,
     Commit, CommitConflict, CommitRetry, Deliver, LabelIssued, CloseIssue,
     PostVerdict, LabelVerdict, IssueError, RunKilled, File, EditForm, Chat, Push,
     Override, Tick, vars, histVars

(* A request told that it was served gets no further certificate, nor does *)
(* one told that its challenge expired, unless its last marker is one that *)
(* a verdict quotes (enroll.go:67, 136-139, steps.go:25-29).               *)
THEOREM VerdictIsFinalCorrect == Spec => VerdictIsFinal
  <1> DEFINE Final(i) == Issued(i) \/ ("expired" \in label[i] /\ ~Latest(i).quoted)
  <1>1. ASSUME EnrollInv, [Next]_vars, NEW i \in Issues, Final(i)
        PROVE  CertsOf(i)' \subseteq CertsOf(i)
    <2>1. ASSUME NEW c \in Certs, SignLeaf(c)
          PROVE  CertsOf(i)' \subseteq CertsOf(i)
      <3>1. /\ phase = "ledger" /\ spent \in [Certs -> Proof]
            /\ spent' = [spent EXCEPT ![c] = [issue |-> cur, nonce |-> nonce]]
        BY <1>1, <2>1 DEF SignLeaf, EnrollInv, WorldTypes
      <3>2. cur # i
        BY <1>1, <3>1 DEF EnrollInv, BotInv, OwnNonce, Unanswered, Working
      <3> QED
        BY <3>1, <3>2 DEF CertsOf
    <2>2. CASE UNCHANGED spent
      BY <2>2 DEF CertsOf
    <2> QED
      BY <1>1, <2>1, <2>2, Minters
  <1>2. EnrollInv /\ [Next]_vars
           => [\A i \in Issues :
                  \/ Issued(i)
                  \/ "expired" \in label[i] /\ ~Latest(i).quoted
                  => CertsOf(i)' \subseteq CertsOf(i)]_vars
    BY <1>1
  <1> QED
    BY <1>2, EnrollInvHolds, PTL DEF Spec, VerdictIsFinal
-----------------------------------------------------------------------------
(* The bot as a writer: whatever its requests, repositories and challenges *)
(* bring, a certificate it reports as issued is in the ledger, the ledger  *)
(* stays the append-only log, and each call counts (commitLedger,          *)
(* steps.go:121-155).                                                      *)
THEOREM EnrollKeepsLog ==
    Spec => []ReportedIsCommitted /\ ImplementsLog /\ EachCallCounts
  <1>1. EnrollInv /\ [Next]_vars => [CommitNext]_commitVars
    BY CommitMoves DEF EnrollInv, BotInv
  <1>2. Init => CommitInit
    BY DEF Init
  <1>3. Spec => CommitSpec
    BY <1>1, <1>2, EnrollInvHolds, PTL DEF Spec, CommitSpec
  <1> QED
    BY <1>3, ReportedCorrect, LogImplemented, EachCallCountsCorrect
=============================================================================
