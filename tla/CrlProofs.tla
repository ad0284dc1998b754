----------------------------- MODULE CrlProofs -----------------------------
(***************************************************************************)
(* Type correctness, soundness and monotony of the published CRL, for all  *)
(* applications, certificates, environments and numbers of mishaps.        *)
(*                                                                         *)
(* The argument: every list anywhere, in a checkout or a CRL, names only   *)
(* certificates that are revoked, and revoked stays revoked.  So a new     *)
(* checkout names everything that any CRL names; runs of the group end in  *)
(* the order in which their checkouts were made, as long as none is        *)
(* re-run; and a deployment that is not re-run is of the newest CRL.       *)
(***************************************************************************)
EXTENDS Crl, TLAPS

(* The certificates a list names.                                          *)
Named(list) == {c \in Certs : \E f \in Froms : <<c, f>> \in list}

(* Every CRL there is, and every checkout.                                 *)
Published == {crl, deploying, hosted} \cup hist

CheckedOut == {running.at, pending.at} \cup past

(* Every list names revoked certificates only.                             *)
AllRevoked ==
    /\ \A k \in Published : \A c \in Named(k.list) : RevokedIn(c)
    /\ \A at \in CheckedOut : \A c \in Named(at.list) : RevokedIn(c)

(* Whatever gets written is signed by the intermediate.                    *)
AllSigned ==
    /\ running.step = "put" => running.by = "intermediate"
    /\ \A k \in Published : k = NoCrl \/ k.by = "intermediate"
    /\ NoCrl \notin hist

(* A run that is not re-run, and has a ledger that parsed.                 *)
Fresh(run) == run.at.ok /\ ~run.redo

PublishedIn(list) == \A k \in Published : Named(k.list) \subseteq Named(list)

(* The order of checkouts and CRLs.                                        *)
InOrder ==
    /\ Fresh(running) => PublishedIn(running.at.list)
    /\ Fresh(pending) => /\ PublishedIn(pending.at.list)
                         /\ Named(running.at.list) \subseteq Named(pending.at.list)
    /\ ~crl.redo => PublishedIn(crl.list)
    /\ deploying # NoCrl /\ ~deploying.redo => deploying = crl

(* A pending run has not done anything.                                    *)
TypeInv == TypeOK /\ pending.step = "start"

CrlInv == TypeInv /\ AllRevoked /\ AllSigned /\ InOrder

-----------------------------------------------------------------------------
(* Types of the ledger's operators.                                        *)
LEMMA LedgerTypes ==
    ASSUME LedgerAssumption, NEW l \in Ledgers, NEW c \in Certs
    PROVE  /\ NoLedger \in Ledgers
           /\ \A repo \in Repos : AppendCert(l, repo, c) \in Ledgers
           /\ \A from \in Froms : ApplyRev(l, c, RevokeFrom(from)) \in Ledgers
<1>1. 0 \in Froms
  BY DEF LedgerAssumption, Froms
<1>2. MissingEntry \in Entries /\ ActiveEntry \in Entries
  BY <1>1 DEF MissingEntry, ActiveEntry, Entries
<1>3. \A from \in Froms : RevokedEntry(RevokeFrom(from)) \in Entries
  BY DEF RevokedEntry, RevokeFrom, Entries
<1>4. NoLedger \in Ledgers
  BY <1>2 DEF NoLedger, NoCertificates, Ledgers
<1>5. \A repo \in Repos : AppendCert(l, repo, c) \in Ledgers
  BY <1>2 DEF AppendCert, Ledgers
<1>6. \A from \in Froms : ApplyRev(l, c, RevokeFrom(from)) \in Ledgers
  BY <1>3 DEF ApplyRev, Ledgers
<1> QED
  BY <1>4, <1>5, <1>6

(* What they do to the status of a certificate.                            *)
LEMMA LedgerEffects ==
    ASSUME NEW l \in Ledgers, NEW c \in Certs, NEW d \in Certs
    PROVE  /\ \A repo : ~Find(l, c) /\ IsRevoked(l, d)
                           => IsRevoked(AppendCert(l, repo, c), d)
           /\ \A rev : IsRevoked(l, d) => IsRevoked(ApplyRev(l, c, rev), d)
BY DEF Ledgers, Find, IsRevoked, AppendCert, ApplyRev, RevokedEntry

LEMMA RecordTypes ==
    /\ NoCheckout \in Checkouts
    /\ NoCrl \in Crls
    /\ NoRun \in Runs
    /\ \A kind \in Kinds, at \in Checkouts, redo \in BOOLEAN :
          /\ Run(kind, at, redo) \in Runs
          /\ Run(kind, at, redo) # NoRun
          /\ Run(kind, at, redo).at = at
          /\ Run(kind, at, redo).redo = redo
          /\ Run(kind, at, redo).step = "start"
    /\ \A run \in Runs : /\ Done(run) \in Runs
                         /\ Done(run).at = NoCheckout
                         /\ Done(run).step = "done"
<1>1. NoCheckout \in Checkouts
  BY DEF NoCheckout, Checkouts, Lists
<1>2. NoCrl \in Crls
  BY DEF NoCrl, Crls, Lists
<1>3. NoRun \in Runs
  BY <1>1 DEF NoRun, Runs
<1>4. ASSUME NEW kind \in Kinds, NEW at \in Checkouts, NEW redo \in BOOLEAN
      PROVE  /\ Run(kind, at, redo) \in Runs
             /\ Run(kind, at, redo) # NoRun
             /\ Run(kind, at, redo).at = at
             /\ Run(kind, at, redo).redo = redo
             /\ Run(kind, at, redo).step = "start"
  BY DEF Run, NoRun, Runs, Kinds
<1>5. \A run \in Runs : /\ Done(run) \in Runs
                        /\ Done(run).at = NoCheckout
                        /\ Done(run).step = "done"
  BY <1>1 DEF Done, NoRun, Runs, Kinds
<1> QED
  BY <1>1, <1>2, <1>3, <1>4, <1>5

LEMMA CheckoutType ==
    ASSUME TypeOK
    PROVE  /\ Checkout \in Checkouts
           /\ Checkout.ok => \A c \in Certs : RevokedIn(c) => c \in Named(Checkout.list)
           /\ \A c \in Named(Checkout.list) : RevokedIn(c)
<1>1. \A a \in Apps, c \in Certs : ledger[a].certs[c].from \in Froms
  BY DEF TypeOK, Ledgers, Entries
<1>2. UNION {Listed(a) : a \in Apps} \in Lists
  BY <1>1 DEF Listed, Lists
<1>3. Checkout \in Checkouts
  BY <1>2, RecordTypes DEF Checkout, Checkouts
<1>4. Checkout.ok => Checkout.list = UNION {Listed(a) : a \in Apps}
  BY DEF Checkout, NoCheckout
<1>5. ~Checkout.ok => Checkout.list = {}
  BY DEF Checkout, NoCheckout
<1>6. \A c \in Certs :
         RevokedIn(c) => c \in Named(UNION {Listed(a) : a \in Apps})
  BY <1>1 DEF RevokedIn, Named, Listed
<1>7. \A c \in Named(UNION {Listed(a) : a \in Apps}) : RevokedIn(c)
  BY DEF RevokedIn, Named, Listed
<1>8. Named({}) = {}
  BY DEF Named
<1> QED
  BY <1>3, <1>4, <1>5, <1>6, <1>7, <1>8

(* Only a certificate of the intermediate signs when there is a token.     *)
LEMMA SignerIsIntermediate ==
    ASSUME CrlAssumption, NEW cfg \in Configs, cfg.token,
           NewSigner(cfg) # "none"
    PROVE  NewSigner(cfg) = "intermediate"
<1>1. ~cfg.local
  BY DEF CrlAssumption
<1>2. cfg.vault \in {"unset", "partial", "set"} /\ cfg.pem \in {"unset", "other", "match"}
  BY DEF CrlAssumption
<1> QED
  BY <1>1, <1>2 DEF NewSigner, VaultNew, PemNew

LEMMA SignerType ==
    ASSUME NEW cfg
    PROVE  NewSigner(cfg) \in {"none", "intermediate", "throwaway"}
BY DEF NewSigner, VaultNew, PemNew

-----------------------------------------------------------------------------
(* Types.  A run that joins the group is either running at once or pending.*)
LEMMA JoinStep ==
    ASSUME TypeInv, NEW kind \in Kinds, NEW at \in Checkouts,
           NEW redo \in BOOLEAN, NEW event \in BOOLEAN,
           Join(Run(kind, at, redo), event)
    PROVE  /\ \/ /\ running = NoRun /\ pending = NoRun
                 /\ running' = Run(kind, at, redo) /\ pending' = pending
              \/ /\ running # NoRun
                 /\ running' = running /\ pending' = Run(kind, at, redo)
           /\ due' \in BOOLEAN
           /\ past' \subseteq past \cup {at}
<1>1. Run(kind, at, redo).at = at
  BY RecordTypes
<1>2. (event \/ pending.kind \in Revoking) \in BOOLEAN
  OBVIOUS
<1> QED
  BY <1>1, <1>2 DEF Join, Recall, TypeInv, TypeOK

LEMMA JoinTypes ==
    ASSUME TypeInv, NEW kind \in Kinds, NEW at \in Checkouts,
           NEW redo \in BOOLEAN, NEW event \in BOOLEAN,
           Join(Run(kind, at, redo), event),
           UNCHANGED <<ledgerVars, crl, pagesVars>>, mishaps' \in 0..MaxMishaps
    PROVE  TypeInv'
<1> DEFINE r == Run(kind, at, redo)
<1>1. r \in Runs /\ r # NoRun /\ r.step = "start"
  BY RecordTypes
<1>2. /\ \/ running = NoRun /\ pending = NoRun /\ running' = r /\ pending' = pending
         \/ running # NoRun /\ running' = running /\ pending' = r
      /\ due' \in BOOLEAN
      /\ past' \subseteq past \cup {at}
  BY JoinStep
<1> HIDE DEF r
<1>3. past' \in SUBSET Checkouts
  BY <1>2 DEF TypeInv, TypeOK
<1> QED
  BY <1>1, <1>2, <1>3 DEF TypeInv, TypeOK, ledgerVars, pagesVars

(* The steps that only change the ledger files, or end a run.              *)
LEMMA LedgerStepTypes ==
    ASSUME TypeInv, ledger' \in [Apps -> Ledgers], broken' \in SUBSET Apps,
           (running # NoRun /\ running' = Done(running)) \/ running' = running,
           mishaps' \in 0..MaxMishaps,
           UNCHANGED <<pending, due, past, crl, pagesVars>>
    PROVE  TypeInv'
<1>1. running \in Runs
  BY DEF TypeInv, TypeOK
<1>2. running' = Done(running) => /\ running' \in Runs /\ running' # NoRun
                                  /\ running'.step = "done"
  BY <1>1, RecordTypes DEF NoRun
<1> QED
  BY <1>2 DEF TypeInv, TypeOK, pagesVars

(* The steps of the deployments.                                           *)
LEMMA PagesStepTypes ==
    ASSUME TypeInv, deploying' \in Crls, hosted' \in Crls, hung' \in BOOLEAN,
           hist' \in SUBSET Crls, mishaps' \in 0..MaxMishaps,
           UNCHANGED <<ledgerVars, groupVars, crl>>
    PROVE  TypeInv'
BY DEF TypeInv, TypeOK, ledgerVars, groupVars

LEMMA MishapType ==
    ASSUME CrlAssumption, TypeOK
    PROVE  /\ Mishap => mishaps' \in 0..MaxMishaps
           /\ mishaps' = mishaps => mishaps' \in 0..MaxMishaps
BY DEF CrlAssumption, TypeOK, Mishap

LEMMA MadeType ==
    ASSUME TypeOK
    PROVE  Made \in Crls
<1>1. running \in Runs /\ running.at \in Checkouts
  BY DEF TypeOK, Runs
<1> QED
  BY <1>1 DEF Made, Runs, Checkouts, Crls

LEMMA DeployType ==
    ASSUME TypeOK, NEW k \in Crls, Deploy(k)
    PROVE  /\ deploying' \in Crls /\ hung' \in BOOLEAN
           /\ hist' \in SUBSET Crls /\ hist' \subseteq hist \cup {k}
BY DEF TypeOK, Deploy, Recall

-----------------------------------------------------------------------------
(* A ledger file only ever gains revoked certificates.                     *)
LEMMA RevokedStays ==
    ASSUME LedgerAssumption, TypeOK,
           \/ UNCHANGED ledger
           \/ \E a \in Apps, repo \in Repos, c \in Certs : Issue(a, repo, c)
           \/ \E a \in Apps, c \in Certs, from \in Froms :
                 ledger' = [ledger EXCEPT ![a] = ApplyRev(@, c, RevokeFrom(from))]
    PROVE  /\ ledger' \in [Apps -> Ledgers]
           /\ \A c \in Certs : RevokedIn(c) => RevokedIn(c)'
<1>1. CASE UNCHANGED ledger
  BY <1>1 DEF TypeOK, RevokedIn
<1>2. CASE \E a \in Apps, repo \in Repos, c \in Certs : Issue(a, repo, c)
  <2>1. PICK a \in Apps, repo \in Repos, c \in Certs : Issue(a, repo, c)
    BY <1>2
  <2>2. /\ ledger' = [ledger EXCEPT ![a] = AppendCert(ledger[a], repo, c)]
        /\ ~Find(ledger[a], c)
    BY <2>1 DEF Issue
  <2>3. ledger \in [Apps -> Ledgers] /\ ledger[a] \in Ledgers
    BY DEF TypeOK
  <2>4. AppendCert(ledger[a], repo, c) \in Ledgers
    BY <2>3, LedgerTypes
  <2>5. \A d \in Certs : IsRevoked(ledger[a], d)
                            => IsRevoked(AppendCert(ledger[a], repo, c), d)
    BY <2>2, <2>3, LedgerEffects
  <2> QED
    BY <2>2, <2>3, <2>4, <2>5 DEF RevokedIn
<1>3. CASE \E a \in Apps, c \in Certs, from \in Froms :
              ledger' = [ledger EXCEPT ![a] = ApplyRev(@, c, RevokeFrom(from))]
  <2>1. PICK a \in Apps, c \in Certs, from \in Froms :
           ledger' = [ledger EXCEPT ![a] =
                         ApplyRev(ledger[a], c, RevokeFrom(from))]
    BY <1>3
  <2>2. ledger \in [Apps -> Ledgers] /\ ledger[a] \in Ledgers
    BY DEF TypeOK
  <2>3. ApplyRev(ledger[a], c, RevokeFrom(from)) \in Ledgers
    BY <2>2, LedgerTypes
  <2>4. \A d \in Certs : IsRevoked(ledger[a], d)
                  => IsRevoked(ApplyRev(ledger[a], c, RevokeFrom(from)), d)
    BY <2>2, LedgerEffects
  <2> QED
    BY <2>1, <2>2, <2>3, <2>4 DEF RevokedIn
<1> QED
  BY <1>1, <1>2, <1>3

-----------------------------------------------------------------------------
(* The four kinds of steps, as far as lists and signatures go.             *)
LEMMA JoinOrder ==
    ASSUME CrlInv, NEW kind \in Kinds, NEW at \in Checkouts,
           NEW redo \in BOOLEAN, NEW event \in BOOLEAN,
           Join(Run(kind, at, redo), event),
           at \in {Checkout, NoCheckout} \/ (at \in past /\ redo),
           UNCHANGED <<ledgerVars, crl, pagesVars>>
    PROVE  AllRevoked' /\ AllSigned' /\ InOrder'
<1> DEFINE r == Run(kind, at, redo)
<1>1. r.at = at /\ r.redo = redo /\ r.step = "start"
  BY RecordTypes
<1>2. /\ \/ running = NoRun /\ pending = NoRun /\ running' = r /\ pending' = pending
         \/ running # NoRun /\ running' = running /\ pending' = r
      /\ past' \subseteq past \cup {at}
  BY JoinStep DEF CrlInv
<1> HIDE DEF r
<1>3. /\ Published' = Published
      /\ crl' = crl /\ deploying' = deploying /\ hosted' = hosted /\ hist' = hist
      /\ \A list : PublishedIn(list)' <=> PublishedIn(list)
      /\ \A c : RevokedIn(c)' <=> RevokedIn(c)
  BY DEF Published, PublishedIn, RevokedIn, ledgerVars, pagesVars
<1>4. CheckedOut' \subseteq CheckedOut \cup {at, NoCheckout}
  BY <1>1, <1>2 DEF CheckedOut
<1>5. NoCheckout.list = {} /\ ~NoCheckout.ok /\ Named({}) = {} /\ NoRun.at = NoCheckout
  BY DEF NoCheckout, Named, NoRun
<1>6. \A c \in Named(at.list) : RevokedIn(c)
  BY <1>5, CheckoutType DEF CrlInv, TypeInv, AllRevoked, CheckedOut
<1>7. AllRevoked'
  BY <1>3, <1>4, <1>5, <1>6 DEF AllRevoked, CrlInv
<1>8. AllSigned'
  BY <1>1, <1>2, <1>3 DEF AllSigned, CrlInv
<1>9. Fresh(r) => /\ PublishedIn(at.list)
                  /\ \A x \in CheckedOut : Named(x.list) \subseteq Named(at.list)
  <2> SUFFICES ASSUME Fresh(r)
               PROVE  /\ PublishedIn(at.list)
                      /\ \A x \in CheckedOut : Named(x.list) \subseteq Named(at.list)
    OBVIOUS
  <2>1. at = Checkout /\ Checkout.ok
    BY <1>1, <1>5 DEF Fresh
  <2>2. \A c \in Certs : RevokedIn(c) => c \in Named(at.list)
    BY <2>1, CheckoutType DEF CrlInv, TypeInv
  <2>3. \A list : Named(list) \subseteq Certs
    BY DEF Named
  <2> QED
    BY <2>2, <2>3 DEF PublishedIn, AllRevoked, CrlInv
<1>10. ~Fresh(NoRun)
  BY <1>5 DEF Fresh
<1>11. /\ (Fresh(running) => PublishedIn(running.at.list))'
       /\ (Fresh(pending) => /\ PublishedIn(pending.at.list)
                             /\ Named(running.at.list) \subseteq Named(pending.at.list))'
  <2>1. CASE running = NoRun /\ pending = NoRun /\ running' = r /\ pending' = pending
    BY <2>1, <1>1, <1>3, <1>9, <1>10 DEF Fresh
  <2>2. CASE running # NoRun /\ running' = running /\ pending' = r
    BY <2>2, <1>1, <1>3, <1>9 DEF Fresh, CrlInv, InOrder, CheckedOut
  <2> QED
    BY <2>1, <2>2, <1>2
<1> QED
  BY <1>3, <1>7, <1>8, <1>11 DEF InOrder, CrlInv

LEMMA LedgerOrder ==
    ASSUME CrlInv, \A c \in Certs : RevokedIn(c) => RevokedIn(c)',
           running' \in {running, Done(running)},
           UNCHANGED <<pending, past, crl, pagesVars>>
    PROVE  AllRevoked' /\ AllSigned' /\ InOrder'
<1>1. /\ Published' = Published
      /\ crl' = crl /\ deploying' = deploying /\ hist' = hist
      /\ \A list : PublishedIn(list)' <=> PublishedIn(list)
  BY DEF Published, PublishedIn, pagesVars
<1>2. NoCheckout.list = {} /\ ~NoCheckout.ok /\ Named({}) = {}
  BY DEF NoCheckout, Named
<1>3. \/ running' = running
      \/ running'.at = NoCheckout /\ running'.step = "done"
  BY RecordTypes DEF CrlInv, TypeInv, TypeOK
<1>4. CheckedOut' \subseteq CheckedOut \cup {NoCheckout}
  BY <1>3 DEF CheckedOut
<1>5. \A list : Named(list) \subseteq Certs
  BY DEF Named
<1>6. AllRevoked'
  BY <1>1, <1>2, <1>4, <1>5 DEF AllRevoked, CrlInv
<1>7. AllSigned'
  BY <1>1, <1>3 DEF AllSigned, CrlInv
<1>8. InOrder'
  BY <1>1, <1>2, <1>3 DEF InOrder, Fresh, CrlInv
<1> QED
  BY <1>6, <1>7, <1>8

(* A deployment publishes nothing new.                                     *)
LEMMA PagesOrder ==
    ASSUME CrlInv, UNCHANGED <<ledgerVars, groupVars, crl>>,
           \A k \in Published' :
              \/ k = NoCrl
              \/ \E j \in Published :
                    j # NoCrl /\ k.list = j.list /\ k.by = j.by,
           NoCrl \notin hist',
           deploying' # NoCrl /\ ~deploying'.redo => deploying' = crl
    PROVE  AllRevoked' /\ AllSigned' /\ InOrder'
<1>1. /\ running' = running /\ pending' = pending /\ past' = past /\ crl' = crl
      /\ CheckedOut' = CheckedOut
      /\ \A c : RevokedIn(c)' <=> RevokedIn(c)
  BY DEF CheckedOut, RevokedIn, ledgerVars, groupVars
<1>2. NoCrl.list = {} /\ Named({}) = {}
  BY DEF NoCrl, Named
<1>3. AllRevoked'
  BY <1>1, <1>2 DEF AllRevoked, CrlInv
<1>4. AllSigned'
  BY <1>1 DEF AllSigned, CrlInv
<1>5. \A list : PublishedIn(list) => PublishedIn(list)'
  BY <1>2 DEF PublishedIn
<1>6. InOrder'
  BY <1>1, <1>5 DEF InOrder, Fresh, CrlInv
<1> QED
  BY <1>3, <1>4, <1>6

-----------------------------------------------------------------------------
(* The steps of a CRL run, and the end of any run.                         *)
LEMMA GenerateStep ==
    ASSUME CrlAssumption, CrlInv, NEW cfg \in Configs, Generate(cfg)
    PROVE  CrlInv'
<1>1. running \in Runs /\ running.kind = "crl" /\ running # NoRun
  BY DEF Generate, CrlInv, TypeInv, TypeOK, NoRun
<1>2. mishaps' \in 0..MaxMishaps
  BY MishapType DEF Generate, CrlInv, TypeInv
<1>3. CASE running' = Done(running)
  <2>1. TypeInv'
    BY <1>1, <1>2, <1>3, LedgerStepTypes
       DEF Generate, CrlInv, TypeInv, TypeOK, ledgerVars
  <2>2. \A c \in Certs : RevokedIn(c) => RevokedIn(c)'
    BY DEF Generate, RevokedIn, ledgerVars
  <2>3. AllRevoked' /\ AllSigned' /\ InOrder'
    BY <1>3, <2>2, LedgerOrder DEF Generate
  <2> QED
    BY <2>1, <2>3 DEF CrlInv
<1>4. CASE /\ NewSigner(cfg) # "none" /\ running.at.ok /\ cfg.token
           /\ running' = [running EXCEPT !.step = "put", !.by = NewSigner(cfg)]
  <2>1. NewSigner(cfg) = "intermediate"
    BY <1>4, SignerIsIntermediate
  <2>2. /\ running' \in Runs /\ running' # NoRun
        /\ running'.kind = "crl" /\ running'.at = running.at
        /\ running'.redo = running.redo /\ running'.step = "put"
        /\ running'.by = "intermediate"
    BY <1>1, <1>4, <2>1 DEF Runs, NoRun
  <2>3. /\ UNCHANGED <<ledger, broken, pending, due, past, crl>>
        /\ UNCHANGED <<deploying, hung, hosted, hist>>
    BY DEF Generate, ledgerVars, pagesVars
  <2>4. TypeInv'
    BY <1>2, <1>4, <2>2, <2>3 DEF CrlInv, TypeInv, TypeOK
  <2>5. /\ Published' = Published /\ CheckedOut' = CheckedOut
        /\ \A list : PublishedIn(list)' <=> PublishedIn(list)
        /\ \A c : RevokedIn(c)' <=> RevokedIn(c)
    BY <2>2, <2>3 DEF Published, PublishedIn, CheckedOut, RevokedIn
  <2>6. AllRevoked' /\ AllSigned'
    BY <2>2, <2>3, <2>5 DEF AllRevoked, AllSigned, CrlInv
  <2>7. InOrder'
    BY <2>2, <2>3, <2>5 DEF InOrder, Fresh, CrlInv
  <2> QED
    BY <2>4, <2>6, <2>7 DEF CrlInv
<1> QED
  BY <1>3, <1>4 DEF Generate

LEMMA PublishStep ==
    ASSUME CrlInv, Publish
    PROVE  CrlInv'
<1>1. running \in Runs /\ running.kind = "crl" /\ running.at.ok
  BY DEF Publish, CrlInv, TypeInv, TypeOK
<1>2. /\ running'.at = NoCheckout /\ running'.step = "done"
      /\ running' \in Runs /\ running' # NoRun
  BY <1>1, RecordTypes DEF Publish, NoRun
<1>3. /\ Made \in Crls /\ Made.list = running.at.list
      /\ Made.by = "intermediate" /\ Made.redo = running.redo /\ Made # NoCrl
  BY MadeType DEF Publish, CrlInv, TypeInv, AllSigned, Made, NoCrl
<1>4. /\ deploying' \in Crls /\ hung' \in BOOLEAN
      /\ hist' \in SUBSET Crls /\ hist' \subseteq hist \cup {Made}
      /\ deploying' = Made
  <2>1. Deploy(Made)
    BY DEF Publish
  <2>2. Made \in Crls /\ TypeOK
    BY <1>3 DEF CrlInv, TypeInv
  <2>3. deploying' \in Crls /\ hung' \in BOOLEAN
        /\ hist' \in SUBSET Crls /\ hist' \subseteq hist \cup {Made}
    BY <2>1, <2>2, DeployType
  <2> QED
    BY <2>1, <2>3 DEF Deploy
<1>5. /\ UNCHANGED <<ledger, broken, pending, due, past, hosted, mishaps>>
      /\ crl' = Made
  BY DEF Publish, ledgerVars
<1> HIDE DEF Made
<1>6. TypeInv'
  BY <1>2, <1>3, <1>4, <1>5 DEF CrlInv, TypeInv, TypeOK
<1>7. Published' \subseteq Published \cup {Made}
  BY <1>4, <1>5 DEF Published
<1>8. CheckedOut' \subseteq CheckedOut \cup {NoCheckout} /\ running.at \in CheckedOut
  BY <1>2, <1>5 DEF CheckedOut
<1>9. NoCheckout.list = {} /\ ~NoCheckout.ok /\ Named({}) = {}
  BY DEF NoCheckout, Named
<1>10. \A c : RevokedIn(c)' <=> RevokedIn(c)
  BY <1>5 DEF RevokedIn
<1>11. AllRevoked'
  BY <1>3, <1>7, <1>8, <1>9, <1>10 DEF AllRevoked, CrlInv
<1>12. AllSigned'
  BY <1>2, <1>3, <1>4, <1>7 DEF AllSigned, CrlInv
<1>13. Fresh(pending) => PublishedIn(pending.at.list)'
  BY <1>3, <1>5, <1>7 DEF PublishedIn, InOrder, CrlInv
<1>14. ~Made.redo => \A k \in Published' : Named(k.list) \subseteq Named(Made.list)
  BY <1>1, <1>3, <1>7 DEF PublishedIn, InOrder, Fresh, CrlInv
<1>15. InOrder'
  BY <1>2, <1>3, <1>4, <1>5, <1>9, <1>13, <1>14 DEF InOrder, Fresh, PublishedIn
<1> QED
  BY <1>6, <1>11, <1>12, <1>15 DEF CrlInv

LEMMA EndRunStep ==
    ASSUME CrlInv, EndRun
    PROVE  CrlInv'
<1>1. /\ running' = pending /\ pending' = NoRun
      /\ UNCHANGED <<ledger, broken, past, crl, deploying, hung, hosted, hist, mishaps>>
  BY DEF EndRun, ledgerVars, pagesVars
<1>2. due' \in BOOLEAN
  <2>1. (due \/ running.kind \in Revoking) \in BOOLEAN
    OBVIOUS
  <2> QED
    BY <2>1 DEF EndRun
<1>3. /\ NoRun \in Runs /\ NoRun.step = "start" /\ NoRun.at = NoCheckout
      /\ ~NoCheckout.ok /\ NoCheckout.list = {} /\ Named({}) = {}
  BY RecordTypes DEF NoRun, NoCheckout, Named
<1>4. TypeInv'
  BY <1>1, <1>2, <1>3 DEF CrlInv, TypeInv, TypeOK
<1>5. /\ Published' = Published
      /\ CheckedOut' \subseteq CheckedOut \cup {NoCheckout}
      /\ \A list : PublishedIn(list)' <=> PublishedIn(list)
      /\ \A c : RevokedIn(c)' <=> RevokedIn(c)
  BY <1>1, <1>3 DEF Published, CheckedOut, PublishedIn, RevokedIn
<1>6. AllRevoked'
  BY <1>3, <1>5 DEF AllRevoked, CrlInv
<1>7. AllSigned'
  BY <1>1, <1>5 DEF AllSigned, CrlInv, TypeInv
<1>8. InOrder'
  BY <1>1, <1>3, <1>5 DEF InOrder, Fresh, CrlInv
<1> QED
  BY <1>4, <1>6, <1>7, <1>8 DEF CrlInv

-----------------------------------------------------------------------------
(* The other steps, each by the lemmas of its kind.                        *)
LEMMA JoinKeeps ==
    ASSUME CrlAssumption, CrlInv,
           \/ \E kind \in Kinds : Trigger(kind)
           \/ Completed
           \/ \E at \in past : RerunCrl(at)
    PROVE  CrlInv'
<1>1. Checkout \in Checkouts /\ NoCheckout \in Checkouts /\ past \subseteq Checkouts
      /\ due \in BOOLEAN
  BY CheckoutType, RecordTypes DEF CrlInv, TypeInv, TypeOK
<1>2. ASSUME NEW kind \in Kinds, NEW at \in Checkouts, NEW redo \in BOOLEAN,
             NEW event \in BOOLEAN, Join(Run(kind, at, redo), event),
             at \in {Checkout, NoCheckout} \/ (at \in past /\ redo),
             UNCHANGED <<ledgerVars, crl, pagesVars>>,
             Mishap \/ mishaps' = mishaps
      PROVE  CrlInv'
  <2>1. mishaps' \in 0..MaxMishaps
    BY <1>2, MishapType DEF CrlInv, TypeInv
  <2>2. TypeInv'
    BY <1>2, <2>1, JoinTypes DEF CrlInv
  <2>3. AllRevoked' /\ AllSigned' /\ InOrder'
    BY <1>2, JoinOrder
  <2> QED
    BY <2>2, <2>3 DEF CrlInv
<1>3. CASE \E kind \in Kinds : Trigger(kind)
  <2>1. PICK kind \in Kinds : Trigger(kind)
    BY <1>3
  <2> DEFINE at == IF kind = "crl" THEN Checkout ELSE NoCheckout
  <2>2. /\ Join(Run(kind, at, FALSE), due)
        /\ UNCHANGED <<ledgerVars, crl, pagesVars>> /\ mishaps' = mishaps
    BY <2>1 DEF Trigger
  <2>3. at \in Checkouts /\ at \in {Checkout, NoCheckout}
    BY <1>1
  <2> HIDE DEF at
  <2> QED
    BY <1>1, <1>2, <2>2, <2>3
<1>4. CASE Completed
  <2>1. /\ Join(Run("crl", Checkout, FALSE), FALSE)
        /\ UNCHANGED <<ledgerVars, crl, pagesVars>> /\ mishaps' = mishaps
    BY <1>4 DEF Completed
  <2>2. "crl" \in Kinds
    BY DEF Kinds
  <2> QED
    BY <1>1, <1>2, <2>1, <2>2
<1>5. CASE \E at \in past : RerunCrl(at)
  <2>1. PICK at \in past : RerunCrl(at)
    BY <1>5
  <2>2. /\ Join(Run("crl", at, TRUE), due) /\ Mishap
        /\ UNCHANGED <<ledgerVars, crl, pagesVars>>
    BY <2>1 DEF RerunCrl
  <2>3. "crl" \in Kinds
    BY DEF Kinds
  <2> QED
    BY <1>1, <1>2, <2>1, <2>2, <2>3
<1> QED
  BY <1>3, <1>4, <1>5

LEMMA LedgerKeeps ==
    ASSUME LedgerAssumption, CrlAssumption, CrlInv,
           \/ \E a \in Apps, c \in Certs :
                 \/ \E repo \in Repos : Issue(a, repo, c)
                 \/ SelfRevoke(a, c)
                 \/ \E from \in Froms :
                       PrivRevoke(a, c, from) \/ RevokeByHand(a, c, from)
           \/ \E a \in Apps : Spoil(a) \/ Repair(a)
    PROVE  CrlInv'
<1>1. 0 \in Froms
  BY DEF LedgerAssumption, Froms
<1>2. /\ \/ UNCHANGED ledger
         \/ \E a \in Apps, repo \in Repos, c \in Certs : Issue(a, repo, c)
         \/ \E a \in Apps, c \in Certs, from \in Froms :
               ledger' = [ledger EXCEPT ![a] = ApplyRev(@, c, RevokeFrom(from))]
      /\ broken' \in SUBSET Apps
      /\ (running # NoRun /\ running' = Done(running)) \/ running' = running
      /\ Mishap \/ mishaps' = mishaps
      /\ UNCHANGED <<pending, due, past, crl, pagesVars>>
  <2>1. CASE \E a \in Apps, c \in Certs, repo \in Repos : Issue(a, repo, c)
    BY <2>1 DEF Issue, Ledgering, CrlInv, TypeInv, TypeOK
  <2>2. CASE \E a \in Apps, c \in Certs : SelfRevoke(a, c)
    BY <2>2, <1>1 DEF SelfRevoke, Ledgering, CrlInv, TypeInv, TypeOK
  <2>3. CASE \E a \in Apps, c \in Certs, from \in Froms : PrivRevoke(a, c, from)
    <3>1. running # NoRun
      BY <2>3 DEF PrivRevoke, Ledgering, NoRun
    <3> QED
      BY <2>3, <3>1 DEF PrivRevoke, Ledgering, CrlInv, TypeInv, TypeOK
  <2>4. CASE \E a \in Apps, c \in Certs, from \in Froms : RevokeByHand(a, c, from)
    BY <2>4 DEF RevokeByHand, Edit, groupVars, CrlInv, TypeInv, TypeOK
  <2>5. CASE \E a \in Apps : Spoil(a)
    BY <2>5 DEF Spoil, Edit, groupVars, CrlInv, TypeInv, TypeOK
  <2>6. CASE \E a \in Apps : Repair(a)
    BY <2>6 DEF Repair, groupVars, CrlInv, TypeInv, TypeOK
  <2> QED
    BY <2>1, <2>2, <2>3, <2>4, <2>5, <2>6
<1>3. /\ ledger' \in [Apps -> Ledgers]
      /\ \A c \in Certs : RevokedIn(c) => RevokedIn(c)'
  BY <1>2, RevokedStays DEF CrlInv, TypeInv
<1>4. mishaps' \in 0..MaxMishaps
  BY <1>2, MishapType DEF CrlInv, TypeInv
<1>5. TypeInv'
  BY <1>2, <1>3, <1>4, LedgerStepTypes DEF CrlInv
<1>6. AllRevoked' /\ AllSigned' /\ InOrder'
  BY <1>2, <1>3, LedgerOrder
<1> QED
  BY <1>5, <1>6 DEF CrlInv

LEMMA RunFailsKeeps ==
    ASSUME CrlAssumption, CrlInv, CrlRunFails
    PROVE  CrlInv'
<1>1. /\ running # NoRun /\ running' = Done(running) /\ Mishap
      /\ UNCHANGED <<ledgerVars, pending, due, past, crl, pagesVars>>
  BY DEF CrlRunFails, NoRun
<1>2. /\ ledger' \in [Apps -> Ledgers] /\ broken' \in SUBSET Apps
      /\ \A c \in Certs : RevokedIn(c) => RevokedIn(c)'
  BY <1>1 DEF ledgerVars, CrlInv, TypeInv, TypeOK, RevokedIn
<1>3. mishaps' \in 0..MaxMishaps
  BY <1>1, MishapType DEF CrlInv, TypeInv
<1>4. TypeInv'
  BY <1>1, <1>2, <1>3, LedgerStepTypes DEF CrlInv
<1>5. AllRevoked' /\ AllSigned' /\ InOrder'
  BY <1>1, <1>2, LedgerOrder
<1> QED
  BY <1>4, <1>5 DEF CrlInv

LEMMA PagesKeep ==
    ASSUME CrlAssumption, CrlInv,
           \/ DeployDone \/ DeployFails \/ DeployHangs \/ DeployHead
           \/ \E k \in hist : RerunDeploy(k)
    PROVE  CrlInv'
<1>1. ASSUME UNCHANGED <<ledgerVars, groupVars, crl>>,
             deploying' \in Crls, hosted' \in Crls, hung' \in BOOLEAN,
             hist' \in SUBSET Crls, Mishap \/ mishaps' = mishaps,
             \A k \in Published' :
                \/ k = NoCrl
                \/ \E j \in Published :
                      j # NoCrl /\ k.list = j.list /\ k.by = j.by,
             NoCrl \notin hist',
             deploying' # NoCrl /\ ~deploying'.redo => deploying' = crl
      PROVE  CrlInv'
  <2>1. mishaps' \in 0..MaxMishaps
    BY <1>1, MishapType DEF CrlInv, TypeInv
  <2>2. TypeInv'
    BY <1>1, <2>1, PagesStepTypes DEF CrlInv
  <2>3. AllRevoked' /\ AllSigned' /\ InOrder'
    BY <1>1, PagesOrder
  <2> QED
    BY <2>2, <2>3 DEF CrlInv
<1>2. /\ deploying \in Crls /\ hosted \in Crls /\ hung \in BOOLEAN /\ crl \in Crls
      /\ hist \in SUBSET Crls /\ NoCrl \in Crls /\ NoCrl \notin hist
      /\ deploying # NoCrl /\ ~deploying.redo => deploying = crl
  BY RecordTypes DEF CrlInv, TypeInv, TypeOK, AllSigned, InOrder
<1>3. CASE DeployDone
  <2>1. /\ hosted' = deploying /\ deploying' = NoCrl
        /\ UNCHANGED <<ledgerVars, groupVars, crl, hung, hist, mishaps>>
    BY <1>3 DEF DeployDone
  <2>2. \A k \in Published' : k = NoCrl \/ k \in Published
    BY <2>1 DEF Published
  <2> QED
    BY <1>1, <1>2, <2>1, <2>2
<1>4. CASE DeployFails
  <2>1. /\ deploying' = NoCrl /\ hung' = FALSE /\ Mishap
        /\ UNCHANGED <<ledgerVars, groupVars, crl, hosted, hist>>
    BY <1>4 DEF DeployFails
  <2>2. \A k \in Published' : k = NoCrl \/ k \in Published
    BY <2>1 DEF Published
  <2> QED
    BY <1>1, <1>2, <2>1, <2>2
<1>5. CASE DeployHangs
  <2>1. /\ hung' = TRUE /\ Mishap
        /\ UNCHANGED <<ledgerVars, groupVars, crl, deploying, hosted, hist>>
    BY <1>5 DEF DeployHangs
  <2>2. \A k \in Published' : k \in Published
    BY <2>1 DEF Published
  <2> QED
    BY <1>1, <1>2, <2>1, <2>2
<1>6. CASE DeployHead
  <2>1. /\ crl # NoCrl /\ Deploy(crl)
        /\ UNCHANGED <<ledgerVars, groupVars, crl, hosted, mishaps>>
    BY <1>6 DEF DeployHead
  <2>2. /\ deploying' = crl /\ hung' \in BOOLEAN
        /\ hist' \in SUBSET Crls /\ hist' \subseteq hist \cup {crl}
    BY <1>2, <2>1, DeployType DEF CrlInv, TypeInv, Deploy
  <2>3. \A k \in Published' : k \in Published
    BY <2>1, <2>2 DEF Published
  <2> QED
    BY <1>1, <1>2, <2>1, <2>2, <2>3
<1>7. CASE \E k \in hist : RerunDeploy(k)
  <2>1. PICK k \in hist : RerunDeploy(k)
    BY <1>7
  <2> DEFINE j == [k EXCEPT !.redo = TRUE]
  <2>2. /\ Mishap /\ Deploy(j)
        /\ UNCHANGED <<ledgerVars, groupVars, crl, hosted>>
    BY <2>1 DEF RerunDeploy
  <2>3. k \in Crls /\ k # NoCrl
    BY <1>2
  <2>4. /\ j \in Crls /\ j.list = k.list /\ j.by = k.by /\ j.redo = TRUE
        /\ j # NoCrl
    BY <2>3 DEF Crls, NoCrl
  <2> HIDE DEF j
  <2>5. /\ deploying' = j /\ hung' \in BOOLEAN
        /\ hist' \in SUBSET Crls /\ hist' \subseteq hist \cup {j}
    BY <2>2, <2>4, DeployType DEF CrlInv, TypeInv, Deploy
  <2>6. \A i \in Published' : i \in Published \/ i = j
    BY <2>2, <2>5 DEF Published
  <2>7. k \in Published
    BY DEF Published
  <2>8. NoCrl \notin hist'
    BY <1>2, <2>4, <2>5
  <2> QED
    BY <1>1, <1>2, <2>2, <2>3, <2>4, <2>5, <2>6, <2>7, <2>8
<1> QED
  BY <1>3, <1>4, <1>5, <1>6, <1>7

-----------------------------------------------------------------------------
(* The invariant is one.                                                   *)
LEMMA CrlInvInit ==
    ASSUME LedgerAssumption, CrlAssumption, Init
    PROVE  CrlInv
<1>1. \A a \in Apps : ledger[a] \in Ledgers
  <2>1. 0 \in Froms
    BY DEF LedgerAssumption, Froms
  <2>2. NoLedger \in Ledgers
    BY <2>1 DEF NoLedger, NoCertificates, Ledgers, MissingEntry, Entries
  <2> QED
    BY <2>2 DEF Init
<1>2. /\ NoCheckout.list = {} /\ ~NoCheckout.ok /\ Named({}) = {}
      /\ NoRun.at = NoCheckout /\ NoRun.step = "start" /\ NoCrl.list = {}
      /\ NoRun \in Runs /\ NoCrl \in Crls
  BY RecordTypes DEF NoCheckout, Named, NoRun, NoCrl
<1>3. TypeInv
  <2>1. 0 \in 0..MaxMishaps
    BY DEF CrlAssumption
  <2> QED
    BY <1>1, <1>2, <2>1 DEF Init, TypeInv, TypeOK
<1>4. Published = {NoCrl} /\ CheckedOut = {NoCheckout} /\ hist = {}
  BY <1>2 DEF Init, Published, CheckedOut
<1>5. AllRevoked /\ AllSigned
  BY <1>2, <1>4 DEF Init, AllRevoked, AllSigned
<1>6. InOrder
  BY <1>2, <1>4 DEF Init, InOrder, PublishedIn, Fresh
<1> QED
  BY <1>3, <1>5, <1>6 DEF CrlInv

LEMMA CrlInvNext ==
    ASSUME LedgerAssumption, CrlAssumption, CrlInv, [Next]_vars
    PROVE  CrlInv'
<1>1. CASE UNCHANGED vars
  <2>1. /\ UNCHANGED <<ledger, broken, running, pending, due, past, crl>>
        /\ UNCHANGED <<deploying, hung, hosted, hist, mishaps>>
    BY <1>1 DEF vars, ledgerVars, groupVars, pagesVars
  <2> QED
    BY <2>1 DEF CrlInv, TypeInv, TypeOK, AllRevoked, AllSigned, InOrder, Fresh,
                PublishedIn, Published, CheckedOut, RevokedIn
<1>2. CASE \/ \E kind \in Kinds : Trigger(kind)
           \/ Completed
           \/ \E at \in past : RerunCrl(at)
  BY <1>2, JoinKeeps
<1>3. CASE EndRun
  BY <1>3, EndRunStep
<1>4. CASE CrlStep
  BY <1>4, PublishStep, GenerateStep DEF CrlStep
<1>5. CASE CrlRunFails
  BY <1>5, RunFailsKeeps
<1>6. CASE \/ \E a \in Apps, c \in Certs :
                 \/ \E repo \in Repos : Issue(a, repo, c)
                 \/ SelfRevoke(a, c)
                 \/ \E from \in Froms :
                       PrivRevoke(a, c, from) \/ RevokeByHand(a, c, from)
           \/ \E a \in Apps : Spoil(a) \/ Repair(a)
  BY <1>6, LedgerKeeps
<1>7. CASE \/ DeployDone \/ DeployFails \/ DeployHangs \/ DeployHead
           \/ \E k \in hist : RerunDeploy(k)
  BY <1>7, PagesKeep
<1> QED
  BY <1>1, <1>2, <1>3, <1>4, <1>5, <1>6, <1>7 DEF Next

-----------------------------------------------------------------------------
(* The types of the workflows' state, and that no CRL run writes without a *)
(* parsed ledger and a key (main.go).                                      *)
THEOREM CrlTypeCorrect == SafeSpec => []TypeOK
<1>1. Init => CrlInv
  BY CrlInvInit, LedgerAssumption, CrlAssumption
<1>2. CrlInv /\ [Next]_vars => CrlInv'
  BY CrlInvNext, LedgerAssumption, CrlAssumption
<1>3. CrlInv => TypeOK
  BY DEF CrlInv, TypeInv
<1> QED
  BY <1>1, <1>2, <1>3, PTL DEF SafeSpec

(* Whatever is re-run, misconfigured, edited or lost, the CRL on main and  *)
(* the one on the site are signed by the intermediate and list revoked     *)
(* certificates only (main.go, crl.go).                                    *)
THEOREM CrlSoundCorrect == SafeSpec => []CrlSound
<1>1. Init => CrlInv
  BY CrlInvInit, LedgerAssumption, CrlAssumption
<1>2. CrlInv /\ [Next]_vars => CrlInv'
  BY CrlInvNext, LedgerAssumption, CrlAssumption
<1>3. CrlInv => CrlSound
  BY DEF CrlInv, AllSigned, AllRevoked, Published, Named, CrlSound, Sound,
         ListsCert
<1> QED
  BY <1>1, <1>2, <1>3, PTL DEF SafeSpec

(* The published CRL shrinks by a re-run only: neither the group's queue   *)
(* nor cancelled, failed or hanging deployments take a certificate off it  *)
(* (crl.yml, pages.yml).                                                   *)
THEOREM NeverUnlistedCorrect == SafeSpec => NeverUnlisted
<1>1. Init => CrlInv
  BY CrlInvInit, LedgerAssumption, CrlAssumption
<1>2. CrlInv /\ [Next]_vars => CrlInv'
  BY CrlInvNext, LedgerAssumption, CrlAssumption
<1>3. ASSUME CrlInv, [Next]_vars
      PROVE  [\A c \in Certs : ListsCert(hosted, c) /\ ~ListsCert(hosted', c)
                                  => hosted'.redo]_vars
  <2>1. hosted' = hosted \/ DeployDone
    BY <1>3 DEF Next, vars, pagesVars, Trigger, Completed, EndRun, CrlStep,
                Publish, Generate, CrlRunFails, RerunCrl, Issue, SelfRevoke,
                PrivRevoke, Ledgering, RevokeByHand, Edit, DeployFails,
                DeployHangs, DeployHead, RerunDeploy, Spoil, Repair
  <2>2. CASE hosted' = hosted
    BY <2>2
  <2>3. CASE DeployDone
    <3>1. hosted' = deploying /\ deploying # NoCrl
      BY <2>3 DEF DeployDone
    <3>2. ~deploying.redo => Named(hosted.list) \subseteq Named(deploying.list)
      BY <1>3, <3>1 DEF CrlInv, InOrder, PublishedIn, Published
    <3> QED
      BY <3>1, <3>2 DEF Named, ListsCert
  <2> QED
    BY <2>1, <2>2, <2>3
<1>4. CrlInv /\ [Next]_vars
         => [\A c \in Certs : ListsCert(hosted, c) /\ ~ListsCert(hosted', c)
                                 => hosted'.redo]_vars
  BY <1>3
<1> QED
  BY <1>1, <1>2, <1>4, PTL DEF SafeSpec, NeverUnlisted
=============================================================================
