--------------------------- MODULE WalletRecovery ----------------------------
(***************************************************************************)
(* Recovering a Safe on a new phone: RecoverSafeFlowCoordinator and its    *)
(* screens on the main thread, RecoveryDomainService on the threads of the *)
(* global queue, the poll of pending transactions and the Safe itself.     *)
(* A job of the global queue gives way where it waits for the network: a   *)
(* wallet it has read before may be stale when it saves it. The recovery   *)
(* phrase of a Safe has the Safe's name. The Safe is taken to be funded.   *)
(***************************************************************************)
EXTENDS OwnerTransactions, FiniteSets

CONSTANTS
  Safe,         \* the addresses a user may enter
  Device,       \* the account generated for this phone's wallet
  Extension,    \* the extensions it may be paired with
  Deployed,     \* the Safes before: [Safe -> owners and threshold]
  MaxEntries,   \* addresses entered
  MaxReviews,   \* times the review screen is opened
  MaxFailures,  \* requests and transactions that fail
  MaxKills,     \* times the app is killed
  Patient       \* TRUE: the user waits until nothing is running any more

ASSUME WalletRecoveryAssumption ==
  /\ IsFiniteSet(Safe)
  /\ {MaxEntries, MaxReviews, MaxFailures, MaxKills} \subseteq Nat
  /\ Patient \in BOOLEAN

VARIABLES
  wallet,   \* the selected wallet in the database
  txs,      \* its recovery transactions in the database, in table order
  keys,     \* phrases whose two private keys are stored
  chain,    \* per Safe: the contract, its nonce, what the relay has accepted
  receipt,  \* per transaction: what the blockchain says of it
  ui,       \* the main thread's screens
  job,      \* the closures on the global queue
  svc,      \* who hears of errors and of status updates; the poll
  app       \* alive or how it ended; what is used of the bounds

vars == <<wallet, txs, keys, chain, receipt, ui, job, svc, app>>

NoSafe == "none"
Id == 1 .. MaxReviews
Entry == 1 .. MaxEntries

-----------------------------------------------------------------------------
(* Wallet and its states. The owners with a role are this device, ext and   *)
(* the two of the phrase; the others are `unknown`.                         *)

RecoveryDraft ==
  [state |-> "recoveryDraft", addr |-> NoSafe, unknown |-> {},
   phrase |-> NoSafe, ext |-> NoOwner, count |-> 1]
NoWallet == [RecoveryDraft EXCEPT !.state = "none"]

CanChangeOwners(w) == w.state \in {"recoveryDraft", "readyToUse"}
CanChangeAddress(w) == w.state = "recoveryDraft"
IsRecoveryInProgress(w) == w.state \in {"recoveryInProgress", "recoveryPostProcessing"}
IsFinalizingRecovery(w) == w.state = "recoveryPostProcessing"
IsReadyToUse(w) == w.state = "readyToUse"

Proceeded(w) ==
  [w EXCEPT !.state = CASE w.state = "recoveryDraft" -> "recoveryInProgress"
                        [] w.state = "recoveryInProgress" -> "recoveryPostProcessing"
                        [] OTHER -> "readyToUse"]

(* The owners that are not unknown, as postProcessing() compares them.      *)
LocalOwners(w) == ({Device, w.ext} \ {NoOwner})
                    \cup IF w.phrase = NoSafe THEN {} ELSE PhraseOwners(w.phrase)
RemoteOwners(s) == ToSet(chain[s].safe.owners)

-----------------------------------------------------------------------------
(* TransactionRepository: find(type:wallet:) takes the first row; a save    *)
(* inserts a row that is no longer there again.                             *)

HasTx == txs # <<>>
Find == Head(txs)
Removed == IF HasTx THEN Tail(txs) ELSE txs
Saved(t) ==
  IF \E i \in DOMAIN txs : txs[i].id = t.id
  THEN [i \in DOMAIN txs |-> IF txs[i].id = t.id THEN t ELSE txs[i]]
  ELSE Append(txs, t)

-----------------------------------------------------------------------------
(* The screens. `fresh`: the intro below is still the coordinator's last    *)
(* checkpoint. `review` is the number of the open review screen or 0.       *)

Top == Last(ui.stack)
Screen == {"options", "setup", "intro", "address", "phrase", "pair",
           "progress", "main"}

Opened(screen) ==
  [stack |-> <<screen>>, fresh |-> FALSE, next |-> FALSE, review |-> 0,
   shown |-> 0, busy |-> FALSE, alert |-> "none"]

(* No job: a pull of wallet data per address entered, a creation per review *)
(* screen, the phrase and the extension that are being accepted, `deaf` the *)
(* screens that do not hear how such a job ends (a new address screen that  *)
(* has not subscribed, one the user has left: didCancel), the cancellations *)
(* and sets of the others.                                                  *)
NoPull == [at |-> "none", addr |-> NoSafe, w |-> NoWallet]
NoCreation == [at |-> "none", w |-> NoWallet, calls |-> <<>>]
NoJob ==
  [pull |-> [i \in Entry |-> NoPull], create |-> [k \in Id |-> NoCreation],
   provide |-> NoSafe, pair |-> NoOwner, deaf |-> {}, cancel |-> 0,
   resume |-> {}, notice |-> {}, post |-> {}]
NoService == [handler |-> "none", subs |-> {}, polled |-> <<>>]

Running ==
  \/ \E i \in Entry : job.pull[i].at \in {"check", "pull"}
  \/ \E k \in Id : job.create[k].at \in {"begin", "pull", "estimate"}
  \/ job.provide # NoSafe \/ job.pair # NoOwner \/ job.cancel # 0
  \/ job.resume # {} \/ job.notice # {} \/ job.post # {}

(* The user acts on the screen in front when no alert covers it. *)
Alive == app.trap = "no"
UserActs(screen) ==
  /\ Alive
  /\ Top = screen /\ ui.review = 0 /\ ui.alert = "none"
  /\ Patient => ~Running

Reviews == /\ Alive
           /\ ui.review # 0 /\ ui.alert = "none"
           /\ Patient => ~Running

Push(u, screen) == [u EXCEPT !.stack = Append(@, screen)]

(* popToLastCheckpoint(): the intro of this visit the first time, and then  *)
(* an intro that is in no stack any more, or none: one screen back.         *)
PoppedToCheckpoint(u) ==
  IF u.fresh THEN [u EXCEPT !.stack = SubSeq(@, 1, 2), !.fresh = FALSE]
             ELSE [u EXCEPT !.stack = Front(@)]

(* A forced unwrap, a failed precondition or a try! ends the process. *)
Trap(reason) == app' = [app EXCEPT !.trap = reason]

(* RecoveryApplicationService has one handler of errors: the closure of the *)
(* screen that called it last. `u` is the user interface that sees it.      *)
ErrorShown(u) ==
  CASE svc.handler = "review" /\ u.review # 0 ->
         [u EXCEPT !.alert = "review", !.busy = FALSE]
    [] svc.handler = "progress" /\ Last(u.stack) = "progress" ->
         [u EXCEPT !.alert = "progress"]
    [] OTHER -> u

(* A request fails: bounded. *)
Fail == /\ app.fails < MaxFailures
        /\ app' = [app EXCEPT !.fails = @ + 1]

-----------------------------------------------------------------------------
Init ==
  /\ wallet = NoWallet
  /\ txs = <<>>
  /\ keys = {}
  /\ chain = [s \in Safe |-> [safe |-> Deployed[s], nonce |-> 0, queue |-> <<>>]]
  /\ receipt = [k \in Id |-> "none"]
  /\ ui = Opened("options")
  /\ job = NoJob
  /\ svc = NoService
  /\ app = [trap |-> "no", entries |-> 0, reviews |-> 0, fails |-> 0, kills |-> 0]

database == <<wallet, txs, keys>>
world == <<chain, receipt>>

(* recoverExistingSafe(): createRecoverDraftWallet() for the first time and *)
(* prepareForRecovery() later, and then setUp() of the coordinator.         *)
TapRecover ==
  /\ UserActs("options")
  /\ wallet' = RecoveryDraft
  /\ ui' = Push(ui, "setup")
  /\ UNCHANGED <<txs, keys, world, job, svc, app>>

Resumption(seen) ==
  [at |-> "begin", seen |-> seen, w |-> NoWallet, tx |-> <<>>]

SetUp ==
  /\ Alive /\ Top = "setup"
  /\ LET intro == [ui EXCEPT !.stack[Len(ui.stack)] = "intro", !.fresh = TRUE] IN
     CASE IsReadyToUse(wallet) ->
            /\ ui' = Opened("main")
            /\ UNCHANGED job
       [] IsRecoveryInProgress(wallet) ->
            /\ ui' = Push(intro, "progress")
            /\ job' = [job EXCEPT !.resume = @ \cup {Resumption(0)}]
       [] OTHER ->
            /\ ui' = intro
            /\ UNCHANGED job
  /\ UNCHANGED <<database, world, svc, app>>

(* The back button of the navigation bar; no screen of the flow hides it.   *)
Back ==
  /\ \E screen \in {"intro", "address", "phrase", "pair", "progress"} :
       UserActs(screen)
  /\ Patient => Top # "progress"
  /\ ui' = [ui EXCEPT !.stack = Front(@), !.fresh = @ /\ Top # "intro"]
  /\ job' = [job EXCEPT !.deaf = @ \cup ({"phrase" : x \in {job.provide} \ {NoSafe}}
                                        \cup {"pair" : x \in {job.pair} \ {NoOwner}})]
  /\ UNCHANGED <<database, world, svc, app>>

StartEntry ==
  /\ UserActs("intro")
  /\ ui' = [Push(ui, "address") EXCEPT !.next = FALSE]
  /\ job' = [job EXCEPT !.deaf = @ \cup {"address"}]
  /\ UNCHANGED <<database, world, svc, app>>

-----------------------------------------------------------------------------
(* change(address:), on the global queue: the contract is checked, the      *)
(* wallet's address is changed and announced, and only then are the owners  *)
(* and the threshold fetched for the wallet that was read before.           *)
EnterAddress(s) ==
  /\ UserActs("address")
  /\ app.entries < MaxEntries
  /\ app' = [app EXCEPT !.entries = @ + 1]
  /\ job' = [job EXCEPT !.pull[app.entries + 1] =
                            [NoPull EXCEPT !.at = "check", !.addr = s],
                        !.deaf = @ \ {"address"}]
  /\ ui' = [ui EXCEPT !.next = FALSE]
  /\ svc' = [svc EXCEPT !.handler = "address"]
  /\ UNCHANGED <<database, world>>

ChangeAddress(i) ==
  /\ Alive /\ job.pull[i].at = "check"
  /\ LET w == [wallet EXCEPT !.addr = job.pull[i].addr] IN
     IF CanChangeAddress(wallet)
     THEN /\ wallet' = w
          /\ job' = [job EXCEPT !.pull[i] = [@ EXCEPT !.at = "pull", !.w = w]]
          /\ ui' = [ui EXCEPT !.next = @ \/ "address" \notin job.deaf]
          /\ UNCHANGED app
     ELSE Trap("address state") /\ UNCHANGED <<wallet, job, ui>>
  /\ UNCHANGED <<txs, keys, world, svc>>

PullWalletData(i) ==
  /\ Alive /\ job.pull[i].at = "pull"
  /\ LET w == job.pull[i].w IN
     wallet' = [w EXCEPT !.unknown = @ \cup RemoteOwners(w.addr),
                         !.count = chain[w.addr].safe.threshold]
  /\ job' = [job EXCEPT !.pull[i] = [NoPull EXCEPT !.at = "done"]]
  /\ UNCHANGED <<txs, keys, world, ui, svc, app>>

(* A contract that is not a Safe, or no answer. *)
AddressFails(i) ==
  /\ Alive /\ job.pull[i].at \in {"check", "pull"}
  /\ Fail
  /\ job' = [job EXCEPT !.pull[i] = [NoPull EXCEPT !.at = "done"]]
  /\ UNCHANGED <<database, world, ui, svc>>

NextAddress ==
  /\ UserActs("address")
  /\ ui.next
  /\ ui' = Push(ui, "phrase")
  /\ UNCHANGED <<database, world, job, svc, app>>

(* provide(recoveryPhrase:): both accounts of the phrase must be among the  *)
(* owners of the wallet.                                                    *)
EnterPhrase(p) ==
  /\ UserActs("phrase")
  /\ job.provide = NoSafe
  /\ job' = [job EXCEPT !.provide = p]
  /\ svc' = [svc EXCEPT !.handler = "phrase"]
  /\ UNCHANGED <<database, world, ui, app>>

Provide ==
  /\ Alive /\ job.provide # NoSafe
  /\ LET accepted == PhraseOwners(job.provide) \subseteq wallet.unknown IN
     /\ keys' = IF accepted THEN keys \cup {job.provide} ELSE keys
     /\ IF accepted /\ ~CanChangeOwners(wallet)
        THEN Trap("owners") /\ UNCHANGED <<wallet, ui, job>>
        ELSE /\ wallet' = IF accepted THEN [wallet EXCEPT !.phrase = job.provide]
                                      ELSE wallet
             /\ ui' = IF accepted /\ "phrase" \notin job.deaf THEN Push(ui, "pair")
                                                             ELSE ui
             /\ job' = [job EXCEPT !.provide = NoSafe, !.deaf = @ \ {"phrase"}]
             /\ UNCHANGED app
  /\ UNCHANGED <<txs, world, svc>>

-----------------------------------------------------------------------------
(* The extension, or none, and then the review screen, which at once begins *)
(* to create the recovery transaction.                                      *)
OpenReview(u) == [u EXCEPT !.review = app.reviews + 1, !.busy = TRUE]
Reviewed == [app EXCEPT !.reviews = @ + 1]
Creating(j) == [j EXCEPT !.create[app.reviews + 1].at = "begin"]

Scan(e) ==
  /\ UserActs("pair")
  /\ job.pair = NoOwner
  /\ app.reviews < MaxReviews
  /\ job' = [job EXCEPT !.pair = e]
  /\ UNCHANGED <<database, world, ui, svc, app>>

Paired ==
  /\ Alive /\ job.pair # NoOwner
  /\ LET shows == "pair" \notin job.deaf
         j == [job EXCEPT !.pair = NoOwner, !.deaf = @ \ {"pair"}]
     IN IF CanChangeOwners(wallet)
        THEN /\ shows => app.reviews < MaxReviews
             /\ wallet' = [wallet EXCEPT !.ext = job.pair]
             /\ ui' = IF shows THEN OpenReview(ui) ELSE ui
             /\ job' = IF shows THEN Creating(j) ELSE j
             /\ app' = IF shows THEN Reviewed ELSE app
        ELSE Trap("owners") /\ UNCHANGED <<wallet, ui, job>>
  /\ UNCHANGED <<txs, keys, world, svc>>

PairFails ==
  /\ Alive /\ job.pair # NoOwner
  /\ Fail
  /\ job' = [job EXCEPT !.pair = NoOwner, !.deaf = @ \ {"pair"}]
  /\ UNCHANGED <<database, world, ui, svc>>

(* The buttons are disabled while an extension is being paired. *)
Skip ==
  /\ UserActs("pair")
  /\ job.pair = NoOwner \/ "pair" \in job.deaf
  /\ app.reviews < MaxReviews
  /\ IF wallet.ext = NoOwner \/ CanChangeOwners(wallet)
     THEN /\ wallet' = [wallet EXCEPT !.ext = NoOwner]
          /\ ui' = OpenReview(ui)
          /\ job' = Creating(job)
          /\ app' = Reviewed
     ELSE Trap("owners") /\ UNCHANGED <<wallet, ui, job>>
  /\ UNCHANGED <<txs, keys, world, svc>>

-----------------------------------------------------------------------------
(* createRecoveryTransaction(): the last transaction goes, the builder      *)
(* reads the wallet and forgets its unknown owners, ...                     *)
CreateBegin(k) ==
  /\ Alive /\ job.create[k].at = "begin"
  /\ txs' = Removed
  /\ svc' = [svc EXCEPT !.handler = "review"]
  /\ CASE wallet.addr = NoSafe -> Trap("address") /\ UNCHANGED job
       [] wallet.addr # NoSafe /\ ~CanChangeOwners(wallet) ->
            Trap("owners") /\ UNCHANGED job
       [] wallet.addr # NoSafe /\ CanChangeOwners(wallet) /\ wallet.unknown = {} ->
            Trap("unknown") /\ UNCHANGED job
       [] OTHER ->
            /\ job' = [job EXCEPT !.create[k] =
                          [@ EXCEPT !.at = "pull", !.w = [wallet EXCEPT !.unknown = {}]]]
            /\ UNCHANGED app
  /\ UNCHANGED <<wallet, keys, world, ui>>

(* ... fetches the owners and the threshold and builds the calls. Balances  *)
(* that cannot be updated are reported and otherwise make no difference.    *)
CreatePull(k) ==
  /\ Alive /\ job.create[k].at = "pull"
  /\ LET w == job.create[k].w
         safe == chain[w.addr].safe
         b == RecoveryData(safe, Device, w.ext, w.phrase)
     IN \/ /\ w.phrase # NoSafe /\ IsSupported(safe, w.phrase)
           /\ job' = [job EXCEPT !.create[k] =
                         [at |-> "estimate", calls |-> b.calls,
                          w |-> [w EXCEPT !.unknown = ToSet(safe.owners),
                                          !.count = b.count]]]
           /\ \/ UNCHANGED <<ui, app>>
              \/ Fail /\ ui' = ErrorShown(ui)
        \/ /\ ~(w.phrase # NoSafe /\ IsSupported(safe, w.phrase))
           /\ job' = [job EXCEPT !.create[k].at = "done"]
           /\ ui' = ErrorShown(ui)
           /\ UNCHANGED app
  /\ UNCHANGED <<database, world, svc>>

(* Without the owners, the error is posted and the builder goes on to count *)
(* modifiableOwners, which is nil.                                          *)
CreatePullFails(k) ==
  /\ Alive /\ job.create[k].at = "pull"
  /\ app.fails < MaxFailures
  /\ app' = [app EXCEPT !.fails = @ + 1, !.trap = "pull"]
  /\ UNCHANGED <<database, world, ui, job, svc>>

(* The relay's estimate gives the nonce; it refuses what would revert. The  *)
(* transaction is signed with the stored keys and saved, and so is the      *)
(* wallet the builder has; the open review screen reads the first           *)
(* transaction.                                                             *)
NextNonce(s) == chain[s].nonce + Len(chain[s].queue)

CreateEstimate(k) ==
  /\ Alive /\ job.create[k].at = "estimate"
  /\ LET w == job.create[k].w
         t == [id |-> k, status |-> "signing", to |-> w.addr, ext |-> w.ext,
               calls |-> job.create[k].calls, nonce |-> NextNonce(w.addr)]
     IN /\ Execute(chain[w.addr].safe, t.calls).ok
        /\ IF w.phrase \in keys
           THEN /\ txs' = Saved(t)
                /\ wallet' = w
                /\ ui' = IF ui.review # 0 /\ job.create[ui.review].at # "begin"
                         THEN [ui EXCEPT !.shown = Head(txs').id, !.busy = FALSE]
                         ELSE ui
                /\ job' = [job EXCEPT !.create[k] = [NoCreation EXCEPT !.at = "done"]]
                /\ UNCHANGED app
           ELSE Trap("keys") /\ UNCHANGED <<wallet, txs, ui, job>>
  /\ UNCHANGED <<keys, world, svc>>

CreateFails(k) ==
  /\ Alive /\ job.create[k].at = "estimate"
  /\ LET w == job.create[k].w IN
     IF Execute(chain[w.addr].safe, job.create[k].calls).ok THEN Fail ELSE UNCHANGED app
  /\ job' = [job EXCEPT !.create[k] = [NoCreation EXCEPT !.at = "done"]]
  /\ ui' = ErrorShown(ui)
  /\ UNCHANGED <<database, world, svc>>

-----------------------------------------------------------------------------
(* The review screen. *)

Closed == [ui EXCEPT !.review = 0, !.shown = 0, !.busy = FALSE]

CancelReview ==
  /\ Reviews
  /\ ui' = PoppedToCheckpoint(Closed)
  /\ job' = [job EXCEPT !.cancel = @ + 1]
  /\ UNCHANGED <<database, world, svc, app>>

(* cancelRecovery(), on the global queue *)
CancelRecovery ==
  /\ Alive /\ job.cancel # 0
  /\ txs' = Removed
  /\ wallet' = RecoveryDraft
  /\ job' = [job EXCEPT !.cancel = @ - 1]
  /\ UNCHANGED <<keys, world, ui, svc, app>>

Submit ==
  /\ Reviews
  /\ ui.shown # 0 /\ ~ui.busy
  /\ ui' = Push(Closed, "progress")
  /\ job' = [job EXCEPT !.resume = @ \cup {Resumption(ui.shown)}]
  /\ UNCHANGED <<database, world, svc, app>>

(* OK: an error sends the review screen and the progress screen away. *)
DismissAlert ==
  /\ Alive /\ ui.alert # "none"
  /\ ui' = PoppedToCheckpoint([Closed EXCEPT !.alert = "none"])
  /\ UNCHANGED <<database, world, job, svc, app>>

-----------------------------------------------------------------------------
(* resume() *)

Step(r, q) == [job EXCEPT !.resume = (@ \ {r}) \cup {q}]
Ended(r) == [job EXCEPT !.resume = @ \ {r}]

(* handleTransactionProgress(): success goes on with postProcessing(),      *)
(* which reads the wallet again; failure cancels the recovery. j are the    *)
(* jobs without the caller.                                                 *)
HandleProgress(t, w, j) ==
  CASE t.status = "success" ->
         /\ wallet' = Proceeded(w)
         /\ job' = [j EXCEPT !.post = @ \cup {[at |-> "answer", w |-> Proceeded(w)]}]
         /\ UNCHANGED txs
    [] t.status = "failed" ->
         /\ wallet' = RecoveryDraft
         /\ txs' = Removed
         /\ job' = j
    [] OTHER -> job' = j /\ UNCHANGED <<wallet, txs>>

ResumeBegin(r) ==
  /\ Alive /\ r.at = "begin"
  /\ svc' = [svc EXCEPT !.handler = "progress"]
  /\ CASE ~HasTx -> Trap("transaction") /\ UNCHANGED <<wallet, txs, job>>
       [] HasTx /\ wallet.state = "recoveryDraft" /\ Find.status = "signing" ->
            /\ job' = Step(r, [r EXCEPT !.at = "submit", !.w = wallet, !.tx = <<Find>>])
            /\ UNCHANGED <<wallet, txs, app>>
       [] HasTx /\ IsFinalizingRecovery(wallet) /\ Find.status = "success" ->
            /\ job' = [Ended(r) EXCEPT !.post = @ \cup {[at |-> "answer", w |-> wallet]}]
            /\ UNCHANGED <<wallet, txs, app>>
       [] HasTx /\ IsRecoveryInProgress(wallet) /\ Find.status = "pending" ->
            /\ job' = Step(r, [r EXCEPT !.at = "check"])
            /\ UNCHANGED <<wallet, txs, app>>
       [] HasTx /\ wallet.state = "recoveryInProgress"
                /\ Find.status \in {"success", "failed"} ->
            /\ HandleProgress(Find, wallet, Ended(r))
            /\ UNCHANGED app
       [] OTHER -> Trap("state") /\ UNCHANGED <<wallet, txs, job>>
  /\ UNCHANGED <<keys, world, ui>>

(* submitRecoveryTransaction(): the relay takes a transaction with the next *)
(* nonce, its answer is saved, and then the wallet moves on.                *)
Accepted(t) ==
  /\ t.nonce = NextNonce(t.to)
  /\ chain' = [chain EXCEPT ![t.to].queue =
                  Append(@, [id |-> t.id, calls |-> t.calls, nonce |-> t.nonce])]

ResumeSubmit(r) ==
  /\ Alive /\ r.at = "submit"
  /\ Accepted(r.tx[1])
  /\ txs' = Saved([r.tx[1] EXCEPT !.status = "pending"])
  /\ job' = Step(r, [r EXCEPT !.at = "proceed", !.tx = <<>>])
  /\ UNCHANGED <<wallet, keys, receipt, ui, svc, app>>

(* The relay refuses it, cannot be reached, or its answer is lost. *)
SubmitFails(r) ==
  /\ Alive /\ r.at = "submit"
  /\ \/ r.tx[1].nonce # NextNonce(r.tx[1].to) /\ UNCHANGED <<chain, app>>
     \/ Fail /\ UNCHANGED chain
     \/ Fail /\ Accepted(r.tx[1])
  /\ job' = Ended(r)
  /\ ui' = ErrorShown(ui)
  /\ UNCHANGED <<database, receipt, svc>>

ResumeProceed(r) ==
  /\ Alive /\ r.at = "proceed"
  /\ wallet' = Proceeded(r.w)
  /\ job' = Step(r, [r EXCEPT !.at = "check", !.w = NoWallet])
  /\ UNCHANGED <<txs, keys, world, ui, svc, app>>

(* subscribeForTransactionProcessing(): the status is looked at, and then   *)
(* the service subscribes, with the wallet it has read.                     *)
ResumeCheck(r) ==
  /\ Alive /\ r.at = "check"
  /\ CASE ~HasTx -> Trap("transaction") /\ UNCHANGED job
       [] HasTx /\ Find.status = "pending" ->
            job' = Step(r, [r EXCEPT !.at = "subscribe", !.w = wallet]) /\ UNCHANGED app
       [] OTHER -> job' = Ended(r) /\ UNCHANGED app
  /\ UNCHANGED <<database, world, ui, svc>>

ResumeSubscribe(r) ==
  /\ Alive /\ r.at = "subscribe"
  /\ svc' = [svc EXCEPT !.subs = @ \cup {r.w}]
  /\ job' = Ended(r)
  /\ UNCHANGED <<database, world, ui, app>>

-----------------------------------------------------------------------------
(* The poll: updatePendingTransactions(). What it has read is saved again   *)
(* with the receipt's status, and every subscriber is told on a thread of   *)
(* its own.                                                                 *)
Poll ==
  /\ Alive /\ svc.polled = <<>>
  /\ \E i \in DOMAIN txs : /\ txs[i].status = "pending"
                           /\ svc' = [svc EXCEPT !.polled = <<txs[i]>>]
  /\ UNCHANGED <<database, world, ui, job, app>>

(* Faulty variant: only a success is announced. *)
PollAnswerQuiet ==
  /\ Alive /\ svc.polled # <<>>
  /\ LET t == svc.polled[1] IN
     IF receipt[t.id] = "none" THEN UNCHANGED <<txs, job>>
     ELSE /\ txs' = Saved([t EXCEPT !.status = receipt[t.id]])
          /\ IF receipt[t.id] = "success"
             THEN job' = [job EXCEPT !.notice = @ \cup svc.subs]
             ELSE UNCHANGED job
  /\ svc' = [svc EXCEPT !.polled = <<>>]
  /\ UNCHANGED <<wallet, keys, world, ui, app>>

PollAnswer ==
  /\ Alive /\ svc.polled # <<>>
  /\ LET t == svc.polled[1] IN
     IF receipt[t.id] = "none" THEN UNCHANGED <<txs, job>>
     ELSE /\ txs' = Saved([t EXCEPT !.status = receipt[t.id]])
          /\ job' = [job EXCEPT !.notice = @ \cup svc.subs]
  /\ svc' = [svc EXCEPT !.polled = <<>>]
  /\ UNCHANGED <<wallet, keys, world, ui, app>>

PollFails ==
  /\ Alive /\ svc.polled # <<>>
  /\ Fail
  /\ svc' = [svc EXCEPT !.polled = <<>>]
  /\ UNCHANGED <<database, world, ui, job>>

(* The closure subscribed for TransactionStatusUpdated, with its wallet w.  *)
Notice(w) ==
  /\ Alive /\ w \in job.notice
  /\ LET j == [job EXCEPT !.notice = @ \ {w}] IN
     IF HasTx /\ Find.status = "pending"
     THEN job' = j /\ UNCHANGED <<wallet, txs, svc>>
     ELSE /\ svc' = [svc EXCEPT !.subs = {}]
          /\ IF HasTx THEN HandleProgress(Find, w, j)
                      ELSE job' = j /\ UNCHANGED <<wallet, txs>>
  /\ UNCHANGED <<keys, world, ui, app>>

-----------------------------------------------------------------------------
(* Faulty variant: a receipt with success is taken for a recovery. *)
MatchesAnything(w) == w.addr # NoSafe

(* postProcessing(), with the wallet it has read: owners and threshold of   *)
(* the contract are those of the wallet, and the phrase's keys go.          *)
Matches(w) ==
  /\ w.addr # NoSafe
  /\ RemoteOwners(w.addr) = LocalOwners(w)
  /\ chain[w.addr].safe.threshold = w.count

(* Faulty variant: the keys of the phrase stay. *)
PostAnswerKeeps(p) ==
  /\ Alive /\ p \in job.post /\ p.at = "answer"
  /\ Matches(p.w)
  /\ job' = [job EXCEPT !.post = (@ \ {p}) \cup {[p EXCEPT !.at = "ready"]}]
  /\ UNCHANGED <<database, world, ui, svc, app>>

PostAnswer(p) ==
  /\ Alive /\ p \in job.post /\ p.at = "answer"
  /\ Matches(p.w)
  /\ keys' = keys \ {p.w.phrase}
  /\ job' = [job EXCEPT !.post = (@ \ {p}) \cup {[p EXCEPT !.at = "ready"]}]
  /\ UNCHANGED <<wallet, txs, world, ui, svc, app>>

(* The wallet becomes ready, the progress screen hears of it and leaves the *)
(* flow, and the unknown owners go.                                         *)
PostReady(p) ==
  /\ Alive /\ p \in job.post /\ p.at = "ready"
  /\ IF p.w.unknown = {}
     THEN Trap("unknown") /\ wallet' = Proceeded(p.w) /\ UNCHANGED <<ui, job>>
     ELSE /\ wallet' = [Proceeded(p.w) EXCEPT !.unknown = {}]
          /\ ui' = IF Contains(ui.stack, "progress") THEN Opened("main") ELSE ui
          /\ job' = [job EXCEPT !.post = @ \ {p}]
          /\ UNCHANGED app
  /\ UNCHANGED <<txs, keys, world, svc>>

(* The recovery has been cancelled meanwhile: wallet.address is nil. *)
PostTraps(p) ==
  /\ Alive /\ p \in job.post /\ p.at = "answer"
  /\ p.w.addr = NoSafe
  /\ Trap("address")
  /\ UNCHANGED <<database, world, ui, job, svc>>

(* Other owners, another threshold or no answer cancel the recovery. *)
PostFails(p) ==
  /\ Alive /\ p \in job.post /\ p.at = "answer"
  /\ p.w.addr # NoSafe
  /\ IF Matches(p.w) THEN Fail ELSE UNCHANGED app
  /\ wallet' = RecoveryDraft
  /\ txs' = Removed
  /\ ui' = ErrorShown(ui)
  /\ job' = [job EXCEPT !.post = @ \ {p}]
  /\ UNCHANGED <<keys, world, svc>>

-----------------------------------------------------------------------------
(* The blockchain (external). A call that reverts within the Safe leaves    *)
(* the owners as they are, but the transaction itself has succeeded.        *)
Mine(s) ==
  /\ chain[s].queue # <<>>
  /\ LET t == Head(chain[s].queue) IN
     \/ /\ chain' = [chain EXCEPT ![s] = [safe |-> Execute(@.safe, t.calls).safe,
                                          nonce |-> @.nonce + 1, queue |-> Tail(@.queue)]]
        /\ receipt' = [receipt EXCEPT ![t.id] = "success"]
        /\ UNCHANGED app
     \/ /\ Fail
        /\ chain' = [chain EXCEPT ![s].queue = Tail(@)]
        /\ receipt' = [receipt EXCEPT ![t.id] = "failed"]
  /\ UNCHANGED <<database, ui, job, svc>>

(* The process ends and is started again: MainFlowCoordinator shows the     *)
(* main screen of a ready wallet and otherwise the options.                 *)
Kill ==
  /\ Alive /\ app.kills < MaxKills
  /\ app' = [app EXCEPT !.trap = "killed", !.kills = @ + 1]
  /\ UNCHANGED <<database, world, ui, job, svc>>

(* Faulty variant: every launch begins with the options. *)
RelaunchAtOptions ==
  /\ ~Alive
  /\ app' = [app EXCEPT !.trap = "no"]
  /\ ui' = Opened("options")
  /\ job' = NoJob
  /\ svc' = NoService
  /\ UNCHANGED <<database, world>>

Relaunch ==
  /\ ~Alive
  /\ app' = [app EXCEPT !.trap = "no"]
  /\ ui' = Opened(IF IsReadyToUse(wallet) THEN "main" ELSE "options")
  /\ job' = NoJob
  /\ svc' = NoService
  /\ UNCHANGED <<database, world>>

-----------------------------------------------------------------------------
User ==
  \/ TapRecover \/ Back \/ StartEntry \/ NextAddress
  \/ Skip \/ CancelReview \/ Submit \/ DismissAlert
  \/ \E s \in Safe : EnterAddress(s) \/ EnterPhrase(s)
  \/ \E e \in Extension : Scan(e)

(* The closures of the global queue and of the main queue. *)
Closure ==
  \/ SetUp \/ Provide \/ Paired \/ PairFails \/ CancelRecovery
  \/ \E i \in Entry : ChangeAddress(i) \/ PullWalletData(i) \/ AddressFails(i)
  \/ \E k \in Id : \/ CreateBegin(k) \/ CreatePull(k) \/ CreatePullFails(k)
                   \/ CreateEstimate(k) \/ CreateFails(k)
  \/ \E r \in job.resume : \/ ResumeBegin(r) \/ ResumeSubmit(r) \/ SubmitFails(r)
                           \/ ResumeProceed(r) \/ ResumeCheck(r) \/ ResumeSubscribe(r)
  \/ \E w \in job.notice : Notice(w)
  \/ \E p \in job.post : PostAnswer(p) \/ PostReady(p) \/ PostFails(p) \/ PostTraps(p)

Mined == \E s \in Safe : Mine(s)
Next == User \/ Closure \/ Poll \/ PollAnswer \/ PollFails \/ Mined \/ Kill \/ Relaunch

Spec == Init /\ [][Next]_vars

(* The queues run what they are given: WF_vars(Closure), with what enables  *)
(* a closure spelled out. The loop of Synchronisation goes on while the app *)
(* is in front, and the chain mines what the relay has sent.                *)
Waiting == Alive /\ (Running \/ Top = "setup")
QueuesRun == []<>~Waiting \/ []<><<Closure>>_vars

FairSpec ==
  /\ Spec
  /\ QueuesRun
  /\ WF_vars(Poll) /\ WF_vars(PollAnswer)
  /\ WF_vars(Mined)

-----------------------------------------------------------------------------
Owner == LocalOwners([RecoveryDraft EXCEPT !.ext = NoOwner])
           \cup Extension \cup UNION {ToSet(Deployed[s].owners) : s \in Safe}
Wallet == [state : {"none", "recoveryDraft", "recoveryInProgress",
                    "recoveryPostProcessing", "readyToUse"},
           addr : Safe \cup {NoSafe}, unknown : SUBSET Owner,
           phrase : Safe \cup {NoSafe}, ext : Extension \cup {NoOwner},
           count : 1 .. 2]

TypeOK ==
  /\ wallet \in Wallet
  /\ \A i \in DOMAIN txs :
       /\ txs[i].id \in Id
       /\ txs[i].status \in {"signing", "pending", "success", "failed"}
  /\ \A i, j \in DOMAIN txs : i # j => txs[i].id # txs[j].id
  /\ keys \subseteq Safe
  /\ \A s \in Safe : RemoteOwners(s) \subseteq Owner
  /\ receipt \in [Id -> {"none", "success", "failed"}]
  /\ ToSet(ui.stack) \subseteq Screen
  /\ {r.w : r \in job.resume} \cup job.notice \cup svc.subs \subseteq Wallet

(* A wallet is ready to use only when the Safe on the chain has exactly the *)
(* owners the wallet knows and its threshold: the transactions of           *)
(* recoveries that were abandoned, killed or repeated in between included   *)
(* (postProcessing()).                                                      *)
RecoveredOwns ==
  IsReadyToUse(wallet) =>
    /\ LocalOwners(wallet) = RemoteOwners(wallet.addr)
    /\ wallet.count = chain[wallet.addr].safe.threshold

(* The private keys of the phrase are gone from the phone once the wallet   *)
(* is ready (postProcessing() removes both before it proceeds).             *)
PhraseForgotten == IsReadyToUse(wallet) => wallet.phrase \notin keys

(* A recovered wallet stays recovered, whatever is still on the queues.     *)
RecoveredForGood == [][IsReadyToUse(wallet) => IsReadyToUse(wallet')]_vars

(* Whoever leaves screens while their work goes on, or the progress screen, *)
(* starts over and is answered late, still has a wallet that is ready only  *)
(* for a Safe that this device and the phrase own (postProcessing()).       *)
ReadyOwnsSafe ==
  IsReadyToUse(wallet) =>
    /\ wallet.addr # NoSafe
    /\ {Device} \cup PhraseOwners(wallet.phrase) \subseteq RemoteOwners(wallet.addr)

(* A recovery that waits for its transaction's status comes to an end once  *)
(* the transaction is mined: ready, or cancelled, unless the process is     *)
(* killed before.                                                           *)
SubscribedEnds ==
  svc.subs # {} /\ HasTx /\ Find.status = "pending"
    ~> wallet.state \in {"readyToUse", "recoveryDraft"} \/ app.trap = "killed"

(* "state could be persisted and reloaded even between application          *)
(* launches": a recovery in progress is continued, not started over.        *)
ProgressIsResumed ==
  [][IsRecoveryInProgress(wallet) => wallet' = wallet \/ ~TapRecover]_vars

(* The assertion of subscribeForTransactionProcessing().                    *)
PendingWhenSubscribing ==
  \A r \in job.resume :
    r.at = "check" => /\ wallet.state = "recoveryInProgress"
                      /\ HasTx /\ Find.status = "pending"

(* A recovery that ends while its progress is shown ends with an error.     *)
FailureIsTold ==
  [][(\E w \in job.notice : Notice(w)) /\ Top = "progress"
       /\ IsRecoveryInProgress(wallet) /\ wallet'.state = "recoveryDraft"
         => ui'.alert = "progress"]_vars

(* "Recovery phrase does not match this Safe's recovery phrase": a phrase   *)
(* is accepted only if its accounts own the Safe.                           *)
AcceptsOwnPhrase ==
  [][wallet'.phrase \notin {NoSafe, wallet.phrase}
       => PhraseOwners(wallet'.phrase) \subseteq RemoteOwners(wallet.addr)]_vars

(* A request that fails while the transaction is built is reported, as the  *)
(* builder's catch clause does, and not the end of the process.             *)
FailedPullIsReported == app.trap # "pull"

(* The wallet has an address where the builder unwraps it by force: an      *)
(* error takes the user back to the checkpoint, before the address screen.  *)
ReviewHasAddress == app.trap # "address"
=============================================================================
