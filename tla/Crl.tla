-------------------------------- MODULE Crl --------------------------------
(***************************************************************************)
(* From the ledger to the published CRL: the workflows of concurrency      *)
(* group ledger-write, the CRL generator (cmd/crlgen, internal/crl) that   *)
(* is one of them, and the Pages deployments of the file it writes.        *)
(*                                                                         *)
(* A group has one running and one pending run; a newer run replaces the   *)
(* pending one (GitHub).  A CRL run reads the ledger in the checkout of    *)
(* the commit that triggered it, and what it will make of that is kept     *)
(* with the run.  crl/developers.crl is written in the group only, so the  *)
(* SHA a CRL run reads is current when it writes; a 409 is GitHub refusing *)
(* the commit.  The writers of the ledger are in LedgerCommit in detail.   *)
(***************************************************************************)
EXTENDS Ledger

CONSTANTS
    Apps,
    Configs,        \* the environments crlgen may run in
    MaxMishaps      \* bound on failed runs and deployments, old runs re-run
                    \* by hand, and commits by hand to ledger files

ASSUME CrlAssumption ==
    /\ Configs \subseteq [vault : {"unset", "partial", "set"},
                          pem : {"unset", "other", "match"}, cert : BOOLEAN,
                          local : BOOLEAN, token : BOOLEAN]
    (* CRLGEN_ALLOW_LOCAL is for runs without a token: crl.yml:47-57.      *)
    /\ \A cfg \in Configs : cfg.local => ~cfg.token
    /\ MaxMishaps \in Nat

VARIABLES
    ledger,         \* ledger[a]: the content of ledger/<a>.json on main
    broken,         \* the files on main that ledger.Parse refuses
    running, pending,   \* the runs of the group
    due,            \* a revocation workflow completed; crl.yml will react
    crl,            \* crl/developers.crl on main
    deploying, hung,    \* the deployment in progress, and whether it waits
    hosted,         \* developers.crl on the Pages site
    past,           \* the checkouts CRL runs were triggered with
    hist,           \* the CRLs deployments were started for
    mishaps

ledgerVars == <<ledger, broken>>
groupVars == <<running, pending, due, past>>
pagesVars == <<deploying, hung, hosted, hist>>
vars == <<ledgerVars, groupVars, crl, pagesVars, mishaps>>

Kinds == {"issuer", "revocation", "privileged", "crl"}

Revoking == {"revocation", "privileged"}

(* A CRL entry is a serial with a revocation date.                         *)
Lists == SUBSET (Certs \X Froms)

Checkouts == [ok : BOOLEAN, list : Lists]

NoCheckout == [ok |-> FALSE, list |-> {}]

(* Who signed it, and whether an old run made or deployed it, re-run by    *)
(* hand.                                                                   *)
Crls == [list : Lists, by : {"none", "intermediate", "throwaway"},
         redo : BOOLEAN]

NoCrl == [list |-> {}, by |-> "none", redo |-> FALSE]

Runs == [kind : Kinds \cup {"none"}, step : {"start", "put", "done"},
         at : Checkouts, by : {"none", "intermediate", "throwaway"},
         redo : BOOLEAN]

NoRun == [kind |-> "none", step |-> "start", at |-> NoCheckout, by |-> "none",
          redo |-> FALSE]

Run(kind, at, redo) ==
    [NoRun EXCEPT !.kind = kind, !.at = at, !.redo = redo]

-----------------------------------------------------------------------------
(* Mutation: active certificates are listed too.                           *)
ListedAll(a) ==
    {<<c, ledger[a].certs[c].from>> : c \in {d \in Certs : Find(ledger[a], d)}}

(* The part of Build for one ledger: each revoked certificate with its     *)
(* revokedFrom.                                                            *)
Listed(a) ==
    {<<c, ledger[a].certs[c].from>> :
        c \in {d \in Certs : IsRevoked(ledger[a], d)}}

(* Mutation: a file that does not parse is skipped.                        *)
CheckoutLenient ==
    [ok |-> TRUE, list |-> UNION {Listed(a) : a \in Apps \ broken}]

(* What LoadAll and Build make of main as it is now: one malformed file is *)
(* an error.                                                               *)
Checkout ==
    IF broken = {} THEN [ok |-> TRUE, list |-> UNION {Listed(a) : a \in Apps}]
                   ELSE NoCheckout

(* vault.New: the intermediate's certificate and a complete configuration. *)
VaultNew(cfg) == IF cfg.vault = "set" /\ cfg.cert THEN "intermediate" ELSE "none"

(* pem.New: a P-384 key that matches the intermediate's certificate.       *)
PemNew(cfg) == IF cfg.pem = "match" /\ cfg.cert THEN "intermediate" ELSE "none"

(* Mutation: without a usable key a throwaway key will do.                 *)
NewSignerLocal(cfg) ==
    CASE cfg.vault # "unset" -> VaultNew(cfg)
      [] cfg.vault = "unset" /\ cfg.pem = "match" -> PemNew(cfg)
      [] OTHER -> "throwaway"

(* newSigner: Vault if it is configured, else the raw key if that is, else *)
(* a throwaway key if that is allowed.                                     *)
NewSigner(cfg) ==
    CASE cfg.vault # "unset" -> VaultNew(cfg)
      [] cfg.vault = "unset" /\ cfg.pem # "unset" -> PemNew(cfg)
      [] cfg.vault = "unset" /\ cfg.pem = "unset" /\ cfg.local -> "throwaway"
      [] OTHER -> "none"

(* The CRL of the run in progress.                                         *)
Made == [list |-> running.at.list, by |-> running.by, redo |-> running.redo]

(* An old run can be re-run at any later time, as long as the bound has    *)
(* not been reached.                                                       *)
Recall(old, x) == IF mishaps < MaxMishaps THEN old \cup {x} ELSE {}

Done(run) == [NoRun EXCEPT !.kind = run.kind, !.step = "done"]

Mishap == mishaps < MaxMishaps /\ mishaps' = mishaps + 1

-----------------------------------------------------------------------------
(* A run joins the group.  A pending run it replaces is cancelled, and so  *)
(* completed.                                                              *)
Join(r, event) ==
    /\ IF running = NoRun
          THEN running' = r /\ due' = event /\ UNCHANGED pending
          ELSE /\ pending' = r
               /\ due' = (event \/ pending.kind \in Revoking)
               /\ UNCHANGED running
    /\ past' = IF r.at.ok THEN Recall(past, r.at) ELSE past

(* A poll, a dispatch, an issue event, or the daily CRL run.               *)
Trigger(kind) ==
    /\ Join(Run(kind, IF kind = "crl" THEN Checkout ELSE NoCheckout, FALSE),
            due)
    /\ UNCHANGED <<ledgerVars, crl, pagesVars, mishaps>>

(* workflow_run: a revocation workflow has completed.                      *)
Completed ==
    /\ due
    /\ Join(Run("crl", Checkout, FALSE), FALSE)
    /\ UNCHANGED <<ledgerVars, crl, pagesVars, mishaps>>

(* An ended or cancelled CRL run is re-run by hand, on the commit it was   *)
(* triggered by; with a malformed file there it would only fail again.     *)
RerunCrl(at) ==
    /\ Mishap
    /\ at \in past
    /\ Join(Run("crl", at, TRUE), due)
    /\ UNCHANGED <<ledgerVars, crl, pagesVars>>

(* The run ends, well or badly; the pending one starts.                    *)
EndRun ==
    /\ running # NoRun
    /\ running.kind = "crl" => running.step = "done"
    /\ running' = pending /\ pending' = NoRun
    /\ due' = (due \/ running.kind \in Revoking)
    /\ UNCHANGED <<ledgerVars, past, crl, pagesVars, mishaps>>

-----------------------------------------------------------------------------
(* The ledger writes of the other three workflows; the actor of a          *)
(* revocation is of no consequence here.                                   *)
RevokeFrom(from) == [from |-> from, actor |-> NoActor]

Ledgering(kind, a) ==
    /\ running.kind = kind /\ running.step = "start"
    /\ a \notin broken
    /\ UNCHANGED <<broken, pending, due, past, crl, pagesVars, mishaps>>

(* commitLedger, with a serial that no ledger has yet.                     *)
Issue(a, repo, c) ==
    /\ Ledgering("issuer", a)
    /\ Accepted(ledger[a], repo)
    /\ \A b \in Apps : ~Find(ledger[b], c)
    /\ ledger' = [ledger EXCEPT ![a] = AppendCert(@, repo, c)]
    /\ UNCHANGED running

(* A retry after an edit by hand does not look at the status again, so an  *)
(* entry that is revoked by then may be overwritten.                       *)
SelfRevoke(a, c) ==
    /\ Ledgering("revocation", a)
    /\ Find(ledger[a], c)
    /\ ledger' = [ledger EXCEPT ![a] = ApplyRev(@, c, RevokeFrom(0))]
    /\ UNCHANGED running

PrivRevoke(a, c, from) ==
    /\ Ledgering("privileged", a)
    /\ Find(ledger[a], c)
    /\ ledger' = [ledger EXCEPT ![a] = ApplyRev(@, c, RevokeFrom(from))]
    /\ running' = Done(running)

-----------------------------------------------------------------------------
(* Mutation: the errors of LoadAll and newSigner are not looked at.        *)
GenerateUnchecked(cfg) ==
    /\ running.kind = "crl" /\ running.step = "start"
    /\ running' = [running EXCEPT !.step = "put", !.by = NewSigner(cfg)]
    /\ UNCHANGED <<ledgerVars, pending, due, past, crl, pagesVars, mishaps>>

(* crlgen up to the signature: without a usable key or with a malformed    *)
(* ledger file it fails, without a token it writes a local file.           *)
Generate(cfg) ==
    /\ running.kind = "crl" /\ running.step = "start"
    /\ IF NewSigner(cfg) # "none" /\ running.at.ok /\ cfg.token
          THEN running' = [running EXCEPT !.step = "put", !.by = NewSigner(cfg)]
          ELSE running' = Done(running)
    /\ IF NewSigner(cfg) = "none" \/ ~cfg.token THEN Mishap ELSE UNCHANGED mishaps
    /\ UNCHANGED <<ledgerVars, pending, due, past, crl, pagesVars>>

(* Mutation: a deployment in progress is not cancelled.                    *)
DeployWaits(k) ==
    IF deploying = NoCrl
       THEN deploying' = k /\ hung' = FALSE /\ hist' = Recall(hist, k)
       ELSE UNCHANGED <<deploying, hung, hist>>

(* Group pages: a newer deployment cancels the one in progress.            *)
Deploy(k) == deploying' = k /\ hung' = FALSE /\ hist' = Recall(hist, k)

(* publishCRL: the write lands, and the push starts a deployment of the    *)
(* commit.                                                                 *)
Publish ==
    /\ running.kind = "crl" /\ running.step = "put"
    /\ crl' = Made
    /\ running' = Done(running)
    /\ Deploy(Made)
    /\ UNCHANGED <<ledgerVars, pending, due, past, hosted, mishaps>>

(* A call of crlgen fails, a 409 included, or its runner is killed; there  *)
(* is no retry.                                                            *)
CrlRunFails ==
    /\ running.kind = "crl" /\ running.step # "done"
    /\ Mishap
    /\ running' = Done(running)
    /\ UNCHANGED <<ledgerVars, pending, due, past, crl, pagesVars>>

-----------------------------------------------------------------------------
(* pages.yml: the copied file becomes the site; or the deployment fails,   *)
(* or hangs at the environment's gate.                                     *)
DeployDone ==
    /\ deploying # NoCrl /\ ~hung
    /\ hosted' = deploying /\ deploying' = NoCrl
    /\ UNCHANGED <<ledgerVars, groupVars, crl, hung, hist, mishaps>>

DeployFails ==
    /\ deploying # NoCrl
    /\ Mishap
    /\ deploying' = NoCrl /\ hung' = FALSE
    /\ UNCHANGED <<ledgerVars, groupVars, crl, hosted, hist>>

DeployHangs ==
    /\ deploying # NoCrl /\ ~hung
    /\ Mishap
    /\ hung' = TRUE
    /\ UNCHANGED <<ledgerVars, groupVars, crl, deploying, hosted, hist>>

(* workflow_dispatch, or a push of one of the static CRLs.                 *)
DeployHead ==
    /\ crl # NoCrl
    /\ Deploy(crl)
    /\ UNCHANGED <<ledgerVars, groupVars, crl, hosted, mishaps>>

(* An old deployment is re-run by hand and cancels the one in progress.    *)
RerunDeploy(k) ==
    /\ Mishap
    /\ k \in hist
    /\ Deploy([k EXCEPT !.redo = TRUE])
    /\ UNCHANGED <<ledgerVars, groupVars, crl, hosted>>

-----------------------------------------------------------------------------
(* Commits by hand: a file is spoilt, repaired, or a certificate revoked   *)
(* in it.                                                                  *)
Edit ==
    /\ Mishap
    /\ UNCHANGED <<groupVars, crl, pagesVars>>

Spoil(a) == Edit /\ broken' = broken \cup {a} /\ UNCHANGED ledger

Repair(a) ==
    /\ a \in broken /\ broken' = broken \ {a}
    /\ UNCHANGED <<ledger, groupVars, crl, pagesVars, mishaps>>

RevokeByHand(a, c, from) ==
    /\ Edit
    /\ a \notin broken /\ Find(ledger[a], c)
    /\ ledger' = [ledger EXCEPT ![a] = ApplyRev(@, c, RevokeFrom(from))]
    /\ UNCHANGED broken

CrlStep == Publish \/ \E cfg \in Configs : Generate(cfg)

Next ==
    \/ \E kind \in Kinds : Trigger(kind)
    \/ Completed \/ EndRun \/ CrlStep \/ CrlRunFails
    \/ \E at \in past : RerunCrl(at)
    \/ \E a \in Apps, c \in Certs :
          \/ \E repo \in Repos : Issue(a, repo, c)
          \/ SelfRevoke(a, c)
          \/ \E from \in Froms :
                PrivRevoke(a, c, from) \/ RevokeByHand(a, c, from)
    \/ DeployDone \/ DeployFails \/ DeployHangs \/ DeployHead
    \/ \E k \in hist : RerunDeploy(k)
    \/ \E a \in Apps : Spoil(a) \/ Repair(a)

Init ==
    /\ ledger = [a \in Apps |-> NoLedger]
    /\ broken = {}
    /\ running = NoRun /\ pending = NoRun /\ due = FALSE
    /\ past = {} /\ hist = {}
    /\ crl = NoCrl /\ hosted = NoCrl /\ deploying = NoCrl /\ hung = FALSE
    /\ mishaps = 0

SafeSpec == Init /\ [][Next]_vars

(* A run of the group ends and a CRL run goes on (jobs have a time limit), *)
(* a deployment that does not hang is done, and the daily schedule fires.  *)
(* Nothing is assumed of which run becomes the pending one, or stays it.   *)
Spec ==
    /\ SafeSpec
    /\ WF_vars(Trigger("crl"))
    /\ WF_vars(CrlStep) /\ WF_vars(EndRun) /\ WF_vars(DeployDone)

-----------------------------------------------------------------------------
(* Types, and what a CRL run has at hand when it writes: a ledger that     *)
(* parsed and a key.                                                       *)
TypeOK ==
    /\ ledger \in [Apps -> Ledgers]
    /\ broken \in SUBSET Apps
    /\ running \in Runs /\ pending \in Runs
    /\ due \in BOOLEAN /\ hung \in BOOLEAN
    /\ crl \in Crls /\ deploying \in Crls /\ hosted \in Crls
    /\ past \in SUBSET Checkouts
    /\ hist \in SUBSET Crls
    /\ mishaps \in 0..MaxMishaps
    /\ running = NoRun => pending = NoRun
    /\ running.step = "put" => running.kind = "crl" /\ running.at.ok
                               /\ running.by # "none"

RevokedIn(c) == \E a \in Apps : IsRevoked(ledger[a], c)

ListsCert(k, c) == \E f \in Froms : <<c, f>> \in k.list

(* A CRL that gets published is signed by the intermediate and lists no    *)
(* certificate that is not revoked in the ledger, whatever was re-run,     *)
(* misconfigured or edited (design 9, crlgen's newSigner).                 *)
Sound(k) ==
    /\ k.by = "intermediate"
    /\ \A c \in Certs : ListsCert(k, c) => RevokedIn(c)

CrlSound == \A k \in {crl, hosted} : k = NoCrl \/ Sound(k)

(* A certificate that the site's CRL lists is listed ever after, whatever  *)
(* is queued, replaced, cancelled or malformed; only an old run that is    *)
(* re-run by hand can take it off for a time (pages.yml:32-33,             *)
(* store.go:17-18).                                                        *)
NeverUnlisted ==
    [][\A c \in Certs :
          ListsCert(hosted, c) /\ ~ListsCert(hosted', c) => hosted'.redo]_vars

Stays(c, f) ==
    /\ broken = {}
    /\ \E a \in Apps : /\ IsRevoked(ledger[a], c)
                       /\ ledger[a].certs[c].from = f

(* A CRL run that waits is replaced by a run of another workflow.          *)
CrlRunDropped ==
    /\ pending.kind = "crl" /\ pending' # pending
    /\ running' # pending /\ pending'.kind # "crl"

(* A certificate that stays revoked from f gets listed with f and stays    *)
(* so, if the ledger files are not left malformed and waiting CRL runs are *)
(* not dropped again and again: what failed, hung, was re-run or dropped   *)
(* before heals with the next run (crlgen.go:18, pages.yml:31).            *)
ListedAsRecorded ==
    \A c \in Certs, f \in Froms :
        <>[]Stays(c, f) =>
            \/ <>[](<<c, f>> \in hosted.list)
            \/ []<><<CrlRunDropped>>_vars

(* Not kept by the code.  "It runs daily [...] and after each revocation   *)
(* workflow completes" (crl.yml:4-5), "Runs whenever the ledger changes a  *)
(* revocation state" (spec-attestation-and-crl-workflows 3.1): a CRL run   *)
(* that waits starts, or a newer CRL run does in its place.                *)
NoCrlRunDropped == [][~CrlRunDropped]_vars
=============================================================================
