# A TLA+ verification of the developer-certificate service

This directory models the programs of this repository that issue, record and
revoke developer certificates, checks the models with TLC and proves the
central results with TLAPS. Paths below are relative to the repository root.

## 1. The system

| Component | Where | State | Operations |
|---|---|---|---|
| Issuer bot | `cmd/issuer`, `internal/enroll` | none of its own: issues, labels and its own comments on GitHub | per poll and open request: parse, fetch `info.xml`, post or recover a nonce challenge, match the challenge file, ownership check, sign, commit, deliver, label, close |
| Self-service revocation bot | `cmd/revoker`, `internal/revoke` (`Process`) | as above | parse, verify the CMS, find the certificate by fingerprint, flip, comment, label, close |
| Privileged revocation | `cmd/privrevoke`, `internal/revoke` (`PrivilegedProcess`) | none | validate inputs, find by serial, flip (also over an earlier flip), record the actor |
| Ledger | `ledger/*.json`, `internal/ledger` | per appId: owner, reserved mark, certificates | `Parse`, `Decide`, append, flip, `Marshal` |
| Ledger write protocol | `commitLedger`, `applyRevocation`, `rest.putContents` | the copy read and its blob SHA, the number of attempts | read, decide, conditional PUT, re-read and retry on 409, give up after five |
| CRL generator | `cmd/crlgen`, `internal/crl` | `crl/developers.crl` on main | load every ledger of its checkout, choose the signer, build, sign, publish |
| CRL hosting | `.github/workflows/pages.yml` | the Pages site | deploy on a push of a CRL or by hand; a newer deployment cancels the one in progress |
| Workflows | `.github/workflows` | one concurrency group `ledger-write` for all writers and the CRL; `pages` for the site | schedule, issue events, dispatch, completion of a revocation run, push |
| Pure parts | `internal/appid`, `appinfo`, `csr`, `certtmpl`, `challenge`, `signer` | none | canonical appIds, CSR checks, leaf template, nonce, serial text |
| External | GitHub API, Vault, openssl, org members, developers | issues, repositories, ledger files | edits, commits, comments, failures |

The programs never talk to each other: they meet in the ledger files on `main`
(through the Contents API), in issues and in target repositories. There is no
process that lives longer than one workflow run, and everything a run knows it
has read from GitHub during that run.

What is hard about it:

* a run is a sequence of remote calls; between two of them developers push,
  authors edit their issue, org members edit the ledger, and every call may
  fail with or without its effect, or be the last one of a killed runner;
* a decision (ownership, already revoked, challenge matched) is taken on one
  read and acted on after another;
* progress is kept only in comments and labels that are written one by one;
* a CRL is made of the checkout that triggered its run, may wait behind other
  runs, be replaced while it waits, and be deployed late or again;
* bounds: five attempts at a write, one page of comments, one page of issues,
  72 hours for a challenge, one pending run in a concurrency group.

What makes each component correct is in section 4. `PROJECT.json` lists the hazards line by line
with the properties that cover them.

## 2. Modules

| Module | Models | Extends |
|---|---|---|
| `Ledger` | the ledger record and its pure functions | |
| `LedgerCommit` | the write protocol: issuers, self-service and privileged revokers, edits by hand | `Ledger` |
| `TransparencyLog` | abstract: what the ledger promises its readers | |
| `Enroll` | the issuer bot's pipeline with developers, repositories, time and faults; its ledger write is an issuer of `LedgerCommit` | `LedgerCommit` |
| `AppId` | the appId grammar and its two readings, `info.xml`'s id | |
| `Profile` | CSR checks, leaf window and serial, timestamps and serial text of the ledger | `AppId` |
| `Revoke` | the self-service revocation bot with requesters, faults, privileged dispatches and edits by hand; its ledger write is the self-service revoker of `LedgerCommit` | `LedgerCommit`, `AppId` |
| `Crl` | the `ledger-write` group with its pending place, the CRL generator, the Pages deployments | `Ledger` |
| `WriteGroup` | the workflows of the group as a whole: the runs `Crl` queues carry out the writes of `LedgerCommit` | `LedgerCommit`, instance of `Crl` |
| `LedgerFile` | a ledger file as it is stored: a list of entries, serials as text, times in seconds, and the CRL built from it | `Profile` |
| `MCLedgerCommit`, `MCEnroll`, `MCRevoke`, `MCCrl`, `MCWriteGroup`, `MCLedgerFile` | instances for TLC; `MCRevoke` also evaluates `AppId` and `Profile` | |
| `LedgerCommitProofs`, `EnrollProofs`, `RevokeProofs`, `CrlProofs`, `ProfileProofs`, `WriteGroupProofs`, `LedgerFileProofs` | theorems about the module in the name | that module, `TLAPS` |

`Enroll` and `Revoke` compose with `LedgerCommit` by running its actions for
one writer, the bot; `EnrollProofs` and `RevokeProofs` use the theorems about
`LedgerCommit` through that. `Crl` needs only what a finished write leaves, so
it has the ledger writes as single steps on `Ledger`'s operators; that these
steps are what the runs do call by call is what `WriteGroup` shows. `LedgerFile`
shows the same for the other abstraction they all share, the ledger as a map.

### Ledger

Serials are random 128-bit numbers and fingerprints SHA-256 hashes, so a
certificate *is* its serial and its fingerprint, and the list
`Ledger.Certificates` becomes a map `certs` from certificates to entries,
`missing` where the list has none. `Decide`, `AppendCert` (one attempt of
`commitLedger`), `ApplyRev` (one attempt of `applyRevocation`), `Find`
(`findByFingerprint`, `findBySerial`) are the code's functions. `revokedFrom`
is counted from the certificate's `notBefore`, because that is what the code
compares it with. The reason text goes with the actor and is left out. Initial
ledgers are the reservations of `ledger/*.json`; the certificates those files
already hold are not among `Certs`.

### LedgerCommit

| Variable | Code |
|---|---|
| `ledger` | the files `ledger/<appId>.json` on main |
| `pc[w]`, `job[w]` | the next call of run `w`, and what it was asked to do |
| `base[w]` | the ledger the run holds, and with it `prevSHA`: a blob SHA is a hash of the content |
| `tries[w]` | `attempt` |
| `grant[c]` | the repository the leaf `c` was signed for (history) |
| `edits` | number of edits by hand (bound) |

`LoadIssue`, `LoadSelfRevoke`, `LoadPrivileged` are the reads with the decision
taken on them; `Sign` mints; `Write` is GitHub's side of a PUT, which is
applied only if the current content is `base`; `Put`, `PutReplyLost` and
`PutConflict` are what the run sees of it; `Reload` is the rest of the retry
loop, and there the issuer does *not* decide again and a revoker looks for its
certificate but not at its status, as in the code. `PutConflict` is enabled on
an unchanged file too: GitHub answers 409 for rulesets as well
(`rest.go:105-109`). `Fail` stands for every other error and for a killed run.
`Reassign` and `RevokeByHand` are org members' commits (enrollment spec 8).

GitHub answers a create that lost a race with 422, which `rest.do` does not
turn into `ErrConflict`; that is `Fail`. A PUT whose reply is lost lands at
once or never: one that lands later, after another write, is not modelled (it
would carry a stale SHA and be refused). `Vanished` is in the model because it
is in the code; nobody removes an entry, so it never holds.

### Enroll

One bot run lists the open requests (`StartRun`), takes them one by one
(`Pick`), newest first, and makes one GitHub call per step.

| Variable | Code |
|---|---|
| `filed`, `body[i]`, `label[i]`, `open[i]` | the issues with label `cert-request`, numbered in the order of filing |
| `comments[i]`, `thread[i]`, `posted[i]` | the first page of an issue's comments: how many there are, the markers in those of the bot; how many challenges were generated for it (history) |
| `declared[r]`, `served[r]`, `commits[r]` | the id in `info.xml` and the nonce in the challenge file on the default branch of `r`; every pair it ever held (history) |
| `phase`, `todo`, `snap`, `cur`, `nonce` | the run: next call, issues left, bodies as listed, issue in process, its nonce as read back |
| `want`, `quote` | the verdict that `terminal` is about to post: its label, and the marker its comment quotes |
| `spent[c]`, `delivered[i]` | the issue and the nonce a certificate was minted on; the certificates posted to an issue (history) |

The environment files and edits forms, pushes `info.xml` and challenge files,
comments, and edits ledgers at any time. `IssueError` ends one issue (the batch
goes on, `cmd/issuer/main.go:75-82`) and `RunKilled` the run, before any call,
which is the same as after the call before it, so calls that took effect and
were reported as failed are covered.

* `SetLabels` adds and removes labels with several requests; it is one step,
  since the code never reads the label that may remain in between
  (`awaiting-challenge`). The close is a step of its own.
* Verdicts quote what they refuse: the repository field (`form.go:41`), the
  CommonName (`enroll.go:86`), the id of `info.xml` (`enroll.go:117`). And
  `priorChallenge` takes the last marker in *any* comment of the bot
  (`steps.go:25-29`). So a refused body is a record of the value whose marker
  stands in the quoted part (`Refused`; `BadForm` quotes none), `info.xml` may
  declare such a value instead of an appId, and `PostVerdict` adds it to the
  thread, with the time of the verdict, like a challenge. `quoted` tells the two
  kinds of markers apart; the code cannot, and no guard of the bot reads it.
  What people can write is `Known`: the nonces shown in any request's comments
  and a few `Strays` that the bot never generated.
* `StartRun` lists the newest `IssuePage` open issues (`rest.go:137`), and
  verdicts leave issues open, so an older request may be off the page.
* `comments[i]` counts comments up to `CommentPage`, the page the API returns;
  what is on later pages is never read by anybody, so counting further adds
  nothing. A challenge or verdict beyond the page is not read back. The nonce of
  such a challenge counts among the `Strays`.
* Missing and inaccessible files, unusable and foreign ids all lead to
  `needs-changes` and are one outcome of `ReadInfo`.
* Not modelled: people closing or labelling issues by hand, and renaming or
  deleting repositories.

### Revoke

| Variable | Code |
|---|---|
| `filed`, `body[i]`, `label[i]`, `open[i]` | the issues with label `revocation-request` |
| `phase`, `todo`, `snap`, `cur`, `want` | the bot's run: next call, issues left, bodies as listed, issue in process, label to set |
| `answered[i]` | the certificate an issue was labelled `revoked` for (history) |
| `shown` | the certificates whose key has signed a request (history) |

A body is either no PEM block or a CMS blob, and of a blob only `signers`
(whose keys made its signature; empty if it does not verify) and `bundled`
(the certificates that come with it) matter. `StartRun` lists the newest
`IssuePage` open issues and skips those labelled `revoked`
(`cmd/revoker/main.go`); `Pick` is `parseForm`, `Verify`, `onlyCertificate` and
the folded CommonName; `CheckLedger`, `Flip`, `FlipConflict`, `FlipRetry`,
`Flipped` are `LoadSelfRevoke`, `Put`, `PutConflict`, `Reload` of
`LedgerCommit` with what `Process` does next; then come the comment, the label
and, for `revoked` only, the close. `IssueError` and `RunKilled` may come
before any call; if a write is under way it is lost or, unseen by the run, has
landed (`AbandonWrite`). A 409 on an unchanged file counts as a fault, so
`HolderServed` is not defeated by GitHub refusing for ever. `shown` grows when
a signed blob is filed: a blob stays valid for ever and can be replayed by
anybody, so what the code can promise is that the holder signed *once*.
Nobody reopens, closes or labels issues by hand.

### Crl

| Variable | Code |
|---|---|
| `ledger`, `broken` | the ledger files on main; those `ledger.Parse` refuses |
| `running`, `pending`, `due` | the runs of concurrency group `ledger-write`, and a completed revocation workflow to which `crl.yml` will react |
| `crl` | `crl/developers.crl` on main |
| `deploying`, `hung`, `hosted` | group `pages` and the site |
| `past`, `hist` | checkouts and CRLs an old run can be re-run with |

A run is triggered on a commit, and `actions/checkout` without a `ref` gets
that one; `Checkout` is what `LoadAll` and `Build` will make of it, and is kept
with the run. `Join` is GitHub's rule for a group with
`cancel-in-progress: false`: one running, one pending, the newer pending run
replaces the older. `Generate` is `crlgen` up to the signature with its choice
of the signer, `Publish` the conditional write and the push event it causes.
The CRL file is written only in the group, so its SHA is current, and a 409 is
one of the failures (`CrlRunFails`; there is no retry). Actors of revocations
are left out here because no CRL depends on them; number, dates and DER form of
a CRL are left out too. `past` and `hist` are emptied when the bound on mishaps
is reached, which changes nothing that can still happen. The static root and
intermediate CRLs only matter as causes of `DeployHead`.

The steps of `SafeSpec` are those of `Spec` and the retry of a self-service
revocation, which writes over an entry that became revoked in between.

### WriteGroup

The writers are named for their workflows (`issuer`, `revocation`,
`privileged`), and the state is that of `LedgerCommit`, that of `Crl` without
its ledger, and `asked`, whether the run in progress has taken up a request.
`TakeUp` starts a write in the run that has its turn: a bot's run one after the
other, a dispatched one only once. `Read`, `Call` and `Commit` are the calls of
`LedgerCommit`, refused on a malformed file; `EndRun` lets the next run in when
the process has ended; `Elsewhere` is everything of `Crl` that leaves the
ledger alone. No action looks at another writer: `Serialized` is `FALSE` here.

Two refinement mappings read it. `Guarded` is `LedgerCommit` with `Serialized`
set, over the same variables. `Site` is `Crl` with `ledger <- Bare`, the
ledgers without what no CRL depends on: owners, actors, and files that hold
no certificate yet.

### LedgerFile

| Variable | Code |
|---|---|
| `file[a]` | `Ledger.Certificates` of `ledger/<a>.json` |
| `signed` | the leaves `Sign` has answered, recorded or not |
| `crl` | the number and the list that the last `Build` made |
| `now` | the clock, in nanoseconds |

A leaf is what `certtmpl.Leaf` and `CreateCertificate` make, with its times cut
to seconds, and stands for its own fingerprint. An entry is the record of
`issue`. `FindByFingerprint` and `FindBySerial` find the first entry that
matches, `Flipped` keeps what `Marshal` keeps of a time. `Build` reads the text
of each serial back. A commit is one step: that concurrent writes come to the
same is the subject of `LedgerCommit`, and what a run takes from the file it
read first, the `notBefore` of an entry, no later commit changes. Serials are
drawn at random and not twice; `MCLedgerFile` has operators type the text of a
serial as it stands, and with a leading 0.

### AppId and Profile

Strings are sequences of bytes, a Go `[]byte` loop as in `appid.Fold`. Blanks
outside ASCII, which `strings.TrimSpace` also removes, are left out: an id that
contains one is refused before and an id without them is not changed. Times are
counted in nanoseconds. A CSR is a record of what `csr.Parse` looks at.

## 3. Faithfulness of the abstractions

`PROJECT.json` maps each definition to the lines it stands for. Definitions
whose comment begins with *Mutation* are not part of the model: each is a
changed copy of the definition after it, with a bug that code could have, and
shows that a property would notice. Definitions that model the outside world
are marked external in the map.

## 4. What the runs check

| Run | Configuration | Properties |
|---|---|---|
| `commit_unlocked` | a writer of each kind, no concurrency group, an edit at any time; `CommitFairSpec` | `CommitTypeOK`, `ReportedIsCommitted`, `ImplementsLog`, `EachCallCounts`, `WriterFinishes` |
| `enroll_one` | one request and one that may be filed later, a page of one issue, an expiry, an override, one fault, two acts of developers | `TypeOK`, `ClosedIsServed`, `VerdictIsFinal`, `RequestResolved` |
| `enroll_two` | two requests that may name the same repository, a stray marker, three certificates, one fault, two acts | `ProvenControl`, `DeliveredIsRecorded`, `DuplicatesOnlyByFault`, `ChallengeOnce` |
| `revoke` | two certificates of one app, two requests of which one is listed, an officer, an edit by hand, one fault, three acts | `TypeOK`, `RevokedIsTrue`, `HolderOrOfficer`, `HolderServed` |
| `crl` | two ledgers, one certificate with two possible revocation times, one mishap | `TypeOK`, `CrlSound`, `NeverUnlisted`, `ListedAsRecorded` |
| `write_group` | the issuer's and the revocation bot's runs, one certificate, one edit, one mishap | `TypeOK`, `ImplementsGuarded`, `ImplementsSite` |
| `write_group_claims` | runs of all three workflows, two repositories that claim one appId, one edit between runs, no mishap | `FirstComeFirstServed`, `AuditTrailKept`, `ImplementsSite` |
| `ledger_file` | two appIds, serials of one and of two digits, an intermediate that ends before the clock does | `TypeOK`, `NeverOutlivesIssuer`, `ActiveIsNotListed`, `ListedFromValidity`, `ImplementsLog` |

* `FirstComeFirstServed`: an entry appears only in a ledger bound to the
  repository it was granted to. It needs the concurrency group *and* that
  nobody edits a file during a run.
* `AuditTrailKept`: the actor of an authoritative revocation is not erased.
* `WriterFinishes`: a started write ends, whatever GitHub answers.
* `EachCallCounts`: every call of a run lowers the number of calls it can still
  make, and nobody else changes what the run holds. This is the part of
  `WriterFinishes` that needs no fairness.
* `ReportedIsCommitted`, `ImplementsLog`: no write loses an entry or brings a
  revoked certificate back, even with all writers at once.
* `ProvenControl`: a certificate goes to a repository whose branch held the
  nonce of a marker in the bot's comments on the request, and declared the
  appId. It does not say that the bot generated that nonce.
* `DeliveredIsRecorded`: what is posted to a request was minted for it and can
  be found in the ledger.
* `DuplicatesOnlyByFault`: at most one certificate per request and one more per
  error, with any markers. An error of the delivery comment or of the label
  `issued`, after the ledger write, is what makes the next poll issue again on
  the same nonce, though PKI design 5.3 calls it single-use.
* `ChallengeOnce`: once a request shows a marker on its first page of comments,
  no further challenge is generated for it.
* `ClosedIsServed`: what a closed issue promises.
* `VerdictIsFinal`: a request labelled `issued` gets no further certificate. One
  labelled `expired` gets none either, unless the last marker is one that a
  later verdict quotes, which has a later date. The exception is needed: without
  it `enroll_one` finds such a request served.
* `RequestResolved`: a developer who does what the bot asks is answered, if the
  request stays on the page of issues a poll lists. Without that condition
  `enroll_one` finds the request never answered.

* `RevokedIsTrue`: an issue labelled `revoked` was answered for a certificate
  that stands revoked, and only such an issue is closed.
* `HolderOrOfficer`: a certificate becomes revoked only if its own key signed a
  request, or with the name of an officer in the ledger. The request with a
  foreign certificate in its bundle is what would break it.
* `HolderServed`: a request that proves possession and stays listed is answered
  with `revoked`, whatever the bot said to an earlier version of it.
* `CrlSound`: what is published is signed by the intermediate and lists revoked
  certificates only.
* `NeverUnlisted`: what relying parties saw listed stays listed; only an old
  run or deployment re-run by hand can go back, and the property names it.
* `ListedAsRecorded`: a revocation that stays in the ledger is listed with its
  date from some time on, also after such a re-run, or else CRL runs that wait
  for the group are dropped again and again.

* `ImplementsGuarded`: the group's queue is a lock on the ledger, though no run
  looks for another one.
* `ImplementsSite`: the runs, call by call, do what `Crl` has as single steps.
* `NeverOutlivesIssuer`: a leaf ends with the intermediate, and has an empty
  window only if that had expired when the leaf was signed.
* `ActiveIsNotListed`: the CRL never names a certificate that stands active:
  text, search and reading back take no serial for another.
* `ListedFromValidity`: a date in a CRL is not before the leaf, though it is
  compared with fractions of a second and stored without.

The `ImplementsLog` of `LedgerFile` is that of `LedgerCommit` for the list of
entries: what a reader of the text finds is an append-only map.

`MCRevoke` also evaluates assumptions about `AppId` and `Profile` on bounded
inputs, all strings of up to four bytes from six kinds among them: the readings
of an appId agree and are idempotent, serials survive their text form, a leaf
lasts two years or to the issuer's end, only allowed keys get one.

### Statements the code does not keep

Four runs each show a documented statement violated.

| Run | Statement | What the code does |
|---|---|---|
| `commit_override` | the CA never issues two `CN=<appId>` certificates to different owners (PKI design 6) | `commitLedger` retries without `Decide`; an override between read and write leaves the old owner a new active certificate in the new owner's ledger |
| `enroll_nonce_shared` | the nonce is issue-scoped, no cross-issue reuse (PKI design 5.3); no arbitrary user text is parsed for it (`challenge.go:7-9`) | a verdict that quotes another request's marker is read back as this request's challenge, and one proof serves both |
| `enroll_snapshot` | `info.xml` is read on the commit where the nonce was verified (PKI design 5.2) | two separate reads of the default branch |
| `crl_run_dropped` | the CRL workflow runs daily and after each revocation workflow completes (`crl.yml:4-5`) | while it waits, the next run of another workflow of the group takes its place |

What is left of the nonce's promises when markers are quoted is in
`ProvenControl`, `DuplicatesOnlyByFault` and `VerdictIsFinal` above: a
certificate still takes a commit of the nonce to the request's own repository.

The first needs a conflict that the concurrency group does not exclude: an edit
by hand, which the documents foresee. `AuditTrailKept` fails in the same way
when a certificate is revoked by hand during a run: `applyRevocation`, retried,
overwrites the entry and the actor on it, although the match is documented to
be on an *active* entry (enrollment spec 5.1, 5.2). The last needs nothing to go
wrong: the issuer polls every ten minutes and joins the group on every issue
event. A dispatched revocation that waits can be dropped for the same reason,
and is then not done at all.

One more divergence is written into the properties instead. The challenge phase
is documented to re-enter safely across polls (`enroll.go:62`), but only the
first 100 comments are read back, so a request whose first page was full before
the challenge gets a new one at every poll. `ChallengeOnce` speaks of requests
with a marker on that page only, and `RequestResolved` excepts the others, as
`PageFull`.

## 5. Bounds

| Constant | Value | Why it is enough |
|---|---|---|
| `MaxRetries` | 2 for 5 | the loop body is the same each time; 2 has a first, a last and a failing attempt |
| `MaxEdits` | 0 or 1 | one edit is what falls between a read and a write; edits between runs only change the start of the next run |
| `MaxFrom` | 0 or 1 | `revokedFrom` at or after `notBefore` |
| `CommentPage` | 2 or 3 for 100 | pages that are empty, have room left, or are full before the challenge; with 3 a challenge, the verdict of its expiry and a verdict that quotes a marker fit on one |
| `Nonces`, `Strays` | 2, and 0 or 1 | a challenge for each request; a marker the bot never generated, which in `enroll_two` verdicts on both requests can quote |
| `Validity`, `MaxTime` | 0 and 1 | not expired, expired |
| `MaxFaults` | 1 | one error at any call, and then the recovery from it |
| `MaxActs` | 2, 3 in `enroll_nonce_shared` | enough to publish the challenge and change one more thing; the shared nonce takes a push, an edit that quotes the marker and one that mends the form |
| `Certs` | 2 or 3 | one per request and one more, so that a fresh serial is never missing where a property is about it |
| `MaxActs` of `Revoke` | 3 | file, correct, and dispatch a privileged revocation |
| `MaxIssues`, `IssuePage` | 2, and 1 for 100; 2 in `enroll_two` and `enroll_nonce_shared` | one request is pushed off the page, or not; where the question is what two requests do to each other, both are listed |
| `MaxMishaps` | 1, 0 in `crl_run_dropped` and `write_group_claims` | shared by failed runs and deployments, re-runs and edits by hand: one of them at any time, and the recovery from it. Two (an old run re-run while a file is malformed, say) are covered by the proofs of section 7, which have no bound |
| `MaxFrom` of `Crl` | 1 | a revocation and one with an earlier or later date |
| `Second`, `LeafValidity` | 4 and 3 for 10^9 ns and two years | fractions of a second; windows cut short and not |
| `Second`, `LeafValidity` of `ledger_file` | 2 and 2 | times on a second and between two; windows cut short, empty, and not |
| `Serials` | 10 and 16 | one digit and two; hexadecimal and decimal values differ |
| `IssuerEnd`, `MaxTime` | 2 and 4 | leaves signed before, at and after the end of the intermediate |
| `Apps` | 1, 2 in `crl` and `ledger_file` | ledger files are independent; two requests compete for one, and two files can hold one serial |

When no certificate or nonce is left `SignLeaf` and `PostChallenge` stop, which
is a bound of the model; the instances of the liveness run have enough of both.
Symmetry (of repositories, certificates, and nonces the bot generates) is
declared only in runs without liveness properties; no definition singles out one
of them. Only `enroll_two` and `write_group_claims` have it.

`enroll_one` starts with one request of any content (`OneSpec`), `enroll_two`
with two well-filled requests in repositories that declare an appId
(`ContentionSpec`), both without a ledger file: that one is reserved or belongs
to somebody else comes with the override, or with the other request.
`revoke` starts from every choice of recorded
certificates and no request, `crl` from empty ledgers.

## 6. Fairness

`WF(WriterStep(w))`: a workflow job that runs is not paused for ever; its end
may be a failure. `WF(BotStep)` in `Enroll`: the schedule (`*/10`) keeps
starting runs and a started run goes on. Nothing is assumed of developers, org
members or time, and no call is assumed to succeed: `RequestResolved` only says
what happens to a request whose author cooperates, and that stays on the page
of issues a poll lists, from some time on; and faults stop because their number
is bounded. `Revoke` assumes the same of its bot, and `WF(PrivStep(w))` of a
dispatched run; it models the runs that get their turn in the group.

In `Crl`, `WF(Trigger("crl"))` is the daily schedule, `WF(CrlStep)` a started
CRL run, `WF(EndRun)` that a run of the group ends (jobs have a time limit),
`WF(DeployDone)` a deployment that does not hang. Nothing is assumed of which
run waits when another one ends: `crl_run_dropped` shows that a CRL run that
waits may be dropped, and since all the crons of the group can fall on the same
minute the schedule does not exclude that it happens every time. So
`ListedAsRecorded` has repeated dropping as its one alternative.

## 7. What is proved

Every safety property that a passing run checks is also a theorem, for all
values of the constants that satisfy the named assumptions, and so are the
refinements. TLC checked each inductive invariant on the instances of section 5
before it was proved.

### LedgerCommitProofs

`LedgerCommitProofs` proves, for all sets of writers, repositories, appIds and
certificates and all bounds, from `LedgerAssumption` and `CommitAssumption`
(distinct null values, disjoint kinds of writers, at least one attempt):

| Theorem | States |
|---|---|
| `CommitTypeCorrect` | `CommitSpec => []CommitTypeOK` |
| `ReportedCorrect` | `CommitSpec => []ReportedIsCommitted` |
| `LogImplemented` | `CommitSpec => ImplementsLog` |
| `FirstComeCorrect` | `Locked => (CommitSpec => FirstComeFirstServed)` |
| `AuditTrailCorrect` | `Locked => (CommitSpec => AuditTrailKept)` |
| `EachCallCountsCorrect` | `CommitSpec => EachCallCounts` |

All but the two under `Locked` hold with and without the concurrency group; `Locked` is
`Serialized = TRUE /\ QuietEdits = TRUE`, and the run `commit_override` shows that
its second half cannot be dropped.

The argument. `CommitTypeOK` is not inductive: a read needs to know that the
run works on an appId, a write that it has a certificate, so `JobsKnown` says
what a run knows at each `pc`. A write cannot lose anything because it is
applied to the content it was computed from (`WriteStanding`), and an issuer's
entry cannot overwrite another one because its leaf is fresh: `LeavesFresh`
says that only signed leaves are in ledgers, and that a leaf under way is in no
ledger and with no other run. `RevokersFound` says that a revoker that is about
to write has found its certificate in what it holds. Together they are
`CommitInv`; every step then enters one certificate, revokes one, or stutters
in the abstract log (`LogNext`). Under `Locked` at most one run is under way
(`OneRun`), so what it decided on is still true of the current ledger when it
writes (`ClaimHolds`, `StillActive`); with `PrivilegedNamed` and `ActorsRevoke`
this is `LockedInv`, from which both action properties follow step by step.

`EachCallCounts` needs only the type invariant (`tries` is bounded, so the
measure `CallsLeft` is a natural number) and goes action by action: a run's own
call takes it to a `pc` with fewer calls left or adds to `tries`, and the calls
of the others leave its variables alone.

### EnrollProofs

From `LedgerAssumption`, `CommitAssumption` and `EnrollAssumption`; any number
of requests, repositories, nonces, faults and acts:

| Theorem | States |
|---|---|
| `EnrollTypeCorrect` | `Spec => []TypeOK` |
| `ProvenControlCorrect` | `Spec => []ProvenControl` |
| `DeliveredIsRecordedCorrect` | `Spec => []DeliveredIsRecorded` |
| `ClosedIsServedCorrect` | `Spec => []ClosedIsServed` |
| `ChallengeOnceCorrect` | `Spec => []ChallengeOnce` |
| `DuplicatesCorrect` | `Spec => []DuplicatesOnlyByFault` |
| `VerdictIsFinalCorrect` | `Spec => VerdictIsFinal` |
| `EnrollKeepsLog` | `Spec => []ReportedIsCommitted /\ ImplementsLog /\ EachCallCounts` |

Every step of the bot, of the world and of `Override` is a step of
`LedgerCommit` or leaves its variables alone (`CommitMoves`), so `CommitInv`
and the fact that no step loses an entry (`NextLosesNothing`) carry over. The
inductive invariant `EnrollInv` adds what the bot knows at each `phase`:

* `Unanswered`: what is left to do in a run is not labelled `issued`. Needed
  because the list was read when the run began.
* `OneChallenge`: a thread that shows no marker had no challenge or is on a full
  page. Needed for `ChallengeOnce`: a marker may be added by a challenge or by a
  verdict (`MarkerAdded`), and the bot reads the thread before it generates one.
* `OwnNonce`: the nonce in process is that of the request's last marker, and the
  bot works on a request labelled `expired` only if that marker is quoted
  (`Told`): the challenge is still expired, or a verdict has quoted one since.
* `InProof`: the commits the bot has read declare the appId and hold the nonce
  of the form in process. They are some commits of the default branch, not one
  commit: `enroll_snapshot` shows the difference.
* `Handed`, `Minted`, `Delivery`: the order mint, commit, deliver, label, close.
* `Counted`: the certificates recorded for a request are at most as many as the
  faults so far, and one more if the bot knows of the last. The property itself
  is not inductive: it does not say that a fault was spent before the bot
  forgets a certificate it wrote.

### RevokeProofs

From `LedgerAssumption`, `CommitAssumption` and `RevokeAssumption`:

| Theorem | States |
|---|---|
| `RevokeTypeCorrect` | `Spec => []TypeOK` |
| `RevokedIsTrueCorrect` | `Spec => []RevokedIsTrue` |
| `HolderOrOfficerCorrect` | `Spec => HolderOrOfficer` |
| `RevokeKeepsLog` | `Spec => []ReportedIsCommitted /\ [][Log!Next]_Standing /\ EachCallCounts` |

The projection to `LedgerCommit` is as above; `RevokeKeepsLog` says the steps of
the log and not its initial state, because `Revoke` begins with certificates on
record. `RevInv` adds `WorksForSigner`
(the bot's write is for the one signer of the form it works on), `Earned` and
`Answers` (what it is about to say is true of the ledger, and stays true
because a revoked entry never becomes active again), `SignersShown` (what was
ever signed with a certificate's key in a form is remembered, so that an edit
of the form does not disturb the argument) and `OfficersNamed` (a privileged
run writes with the name of an officer).

### CrlProofs

From `LedgerAssumption` and `CrlAssumption`:

| Theorem | States |
|---|---|
| `CrlTypeCorrect` | `SafeSpec => []TypeOK` |
| `CrlSoundCorrect` | `SafeSpec => []CrlSound` |
| `NeverUnlistedCorrect` | `SafeSpec => NeverUnlisted` |

`SafeSpec` is `Spec` without fairness. `CrlInv` is `TypeInv` (a pending run has not started), `AllRevoked` and
`AllSigned` (every CRL in a checkout, a run or a deployment lists revoked
certificates only and is signed by the intermediate) and `InOrder` (unless it
was re-run by hand, what a run or a deployment holds lists all that the site
lists). `MaxMishaps` is any number.

### ProfileProofs

Facts about `AppId` and `Profile`, for strings of any length and all times:

| Theorem | States |
|---|---|
| `CanonicalIsStrict` | what `Canonicalize` answers is valid as it stands, and unchanged by a second fold |
| `StrictIsCanonical` | a CommonName taken by `ValidateStrict` is its own canonical form |
| `NonAsciiRefused` | no byte outside ASCII is folded into the grammar |
| `WindowWithinIssuer` | a leaf does not outlive its issuer; its window is empty exactly if the issuer has expired |
| `StoredFromInWindow` | an accepted `revokedFrom` is not before the certificate when it is cut to seconds |
| `SerialRoundTrip` | `ParseSerial(FormatSerial(n)) = n` for every number `n` |
| `SerialTextIsSerial` | two numbers with the same text are equal |

The last two are about recursive functions over digits. `InductionOnSets` is
induction for the members of a *set* of numbers, by a least counterexample
(`LeastNat`, from the well-foundedness of `<`). With it `ValueExists` and
`TextExists` show that functions with the defining equations exist, so that the
recursive definitions unfold; `DigitsReadBack` is the induction over the number,
whose text is that of a sixteenth of it and one more digit.

### WriteGroupProofs

From the assumptions of `LedgerCommit`, `Crl` and `GroupAssumption`:

| Theorem | States |
|---|---|
| `LockImplemented` | `Spec => ImplementsGuarded` |
| `SiteImplemented` | `Spec => ImplementsSite` |
| `GroupTypeCorrect` | `Spec => []TypeOK` |
| `GroupKeepsLog` | `Spec => []ReportedIsCommitted /\ ImplementsLog /\ EachCallCounts` |
| `GroupFirstCome` | `QuietEdits = TRUE => (Spec => FirstComeFirstServed)` |
| `GroupAuditTrail` | `QuietEdits = TRUE => (Spec => AuditTrailKept)` |
| `GroupCrlSound` | `Spec => []Site!CrlSound /\ Site!NeverUnlisted` |

The invariant that makes the queue a lock is the last conjunct of `TypeOK`: a
writer is at work only while the run in progress is its own workflow's. It is
inductive because `TakeUp` asks for the turn and `EndRun` for a process that
has ended. Two writers at work would be of one workflow, so at most one is, and
every step is one of `LedgerCommit` with `Serialized`. For `ImplementsSite`
each landed write is one step of `Crl` (a retried revocation that writes over a
revoked entry too), every other call a stutter of it. The other five theorems
are those of `LedgerCommitProofs` and `CrlProofs` for these two instances:
`Serialized` has become a consequence, and only `QuietEdits` is left to assume.

### LedgerFileProofs

From `ProfileAssumption` and `FileAssumption` (appIds are canonical, serials
positive, the intermediate ends on a second):

| Theorem | States |
|---|---|
| `FileTypeCorrect` | `Spec => []TypeOK` |
| `NeverOutlivesIssuerCorrect` | `Spec => []NeverOutlivesIssuer` |
| `ActiveIsNotListedCorrect` | `Spec => []ActiveIsNotListed` |
| `ListedFromValidityCorrect` | `Spec => []ListedFromValidity` |
| `FileImplementsLog` | `Spec => ImplementsLog` |

`FileInv` says that an entry tells the truth of its leaf (`Described`), that a
serial is drawn once and a leaf recorded once, and that every line of the CRL
has a revoked entry (`ListedFromEntry`). The date of a line need not be that of
the entry, because a later revocation may correct it, but it too is not before
the leaf: leaves begin on whole seconds, and a time at or after a whole second
is not before it when cut (`WholeSeconds`). `EachStandsAsEntered` says, by
`SerialRoundTrip`, that what a reader finds for a serial is the status of its
one entry; an issue is then `Enter`, a revocation `Revoke` or a stutter.
That a CRL with the serial of an active entry would be about that entry needs
all of these and `StrictIsCanonical`, by which a revocation looks into the file
the leaf was recorded in.

### Only model-checked

`WriterFinishes`, `RequestResolved`, `HolderServed` and `ListedAsRecorded`:
they need fairness and `ENABLED`, which the prover cannot handle; of
`WriterFinishes`, `EachCallCounts` is proved. The assumptions `MCRevoke`
evaluates about CSRs have no theorem: they restate a table of cases.

## 8. Plan

Every part of the program with state of its own has its module, every safety
property is proved, and so are the refinements that join the modules. What could
still be added, in this order:

1. The safety half of the other liveness properties, as `EachCallCounts` is of
   `WriterFinishes`: a measure that every step of a bot lowers until its request
   is answered.
2. A list of entries in `Crl`, as in `LedgerFile`, to say of one CRL that it
   names no serial twice.
3. `Revoke` over `WriteGroup`, so that a dispatched revocation that is replaced
   in the queue becomes an event of `Revoke`.
4. Instances with two apps and two requests for the liveness properties.

## 9. Not modelled

X.509, CMS and Vault (cryptography and I/O behind one verdict each), the
ceremony scripts and `seedcrl` (run once, offline, sequential), the static root
and intermediate CRLs, HTTP and JSON in `rest`, the wording of comments, and
the test doubles; `ghclient/fake` compares `prevSHA` with the current blob as
`Write` does. Renamed or deleted repositories, and issues closed, reopened or
labelled by hand, are outside `Enroll` and `Revoke`. Partner issuance and the
certificates entered by hand have no code here.
