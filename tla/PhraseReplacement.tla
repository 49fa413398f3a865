-------------------------- MODULE PhraseReplacement --------------------------
(***************************************************************************)
(* Replacing the recovery phrase of a Safe: the screens of                 *)
(* ReplaceRecoveryPhraseFlowCoordinator, WalletSettingsDomainService, its  *)
(* subscription for status updates, the poll and the Safe. The calls it    *)
(* sends are PhraseData of OwnerTransactions; here a transaction replaces  *)
(* the phrase `old` by `new`. The wallet has no browser extension (its     *)
(* confirmation is the subject of TransactionLifecycle) and the Safe is    *)
(* funded.                                                                 *)
(***************************************************************************)
EXTENDS Naturals, Sequences, FiniteSets

CONSTANTS
  Phrase,       \* recovery phrases
  First,        \* the one the Safe was deployed with
  NoPhrase,
  MaxFlows,     \* times the flow is entered
  MaxFees,      \* times the user changes the fee token
  MaxOthers,    \* status updates of other transactions
  MaxFailures,  \* requests and transactions that fail
  MaxKills      \* times the app is killed

ASSUME PhraseReplacementAssumption ==
  /\ First \in Phrase /\ NoPhrase \notin Phrase
  /\ {MaxFlows, MaxFees, MaxOthers, MaxFailures, MaxKills} \subseteq Nat

VARIABLES
  wallet,    \* the stored wallet: paper roles, unknown owners, fee token
  txs,       \* the stored transactions of the flow, by visit
  keys,      \* phrases whose account is in the secure store
  chain,     \* the Safe's phrase, the relay's queue, the receipts
  ui,        \* the screens
  job,       \* closures on the global queue and requests that run
  held,      \* per visit: the wallet object its subscription has captured
  app        \* alive or how it ended; what is used of the bounds

vars == <<wallet, txs, keys, chain, ui, job, held, app>>

Visit == 1 .. MaxFlows

NoTx == [status |-> "none", old |-> NoPhrase, new |-> NoPhrase, nonce |-> 0]
Menu == [screen |-> "menu", id |-> 0, phrase |-> NoPhrase, ready |-> FALSE,
         busy |-> "no"]

(* estimate: visits whose intro waits for the relay; update: the wallet     *)
(* read by the running updateRecoveryPhraseTransaction(); cancel and remove *)
(* closures by phrase; subs and notice: visits subscribed and told.         *)
NoJob == [estimate |-> {}, update |-> <<>>, cancel |-> {}, remove |-> {},
          subs |-> {}, notice |-> [i \in Visit |-> 0]]

Alive == app.trap = "no"
Trap(reason) == app' = [app EXCEPT !.trap = reason, !.ends = @ + 1]
Fail == /\ app.fails < MaxFailures
        /\ app' = [app EXCEPT !.fails = @ + 1]

Init ==
  /\ wallet = [paper |-> First, unknown |-> {}, fee |-> 0]
  /\ txs = [i \in Visit |-> NoTx]
  /\ keys = {}
  /\ chain = [phrase |-> First, sent |-> 0, queue |-> <<>>,
              receipt |-> [i \in Visit |-> "none"]]
  /\ ui = Menu
  /\ job = NoJob
  /\ held = [i \in Visit |-> <<>>]
  /\ app = [trap |-> "no", ends |-> 0, flows |-> 0, used |-> {First}, fees |-> 0,
            others |-> 0, fails |-> 0, kills |-> 0]

-----------------------------------------------------------------------------
(* The screens. *)

At(screen) == Alive /\ ui.screen = screen /\ ui.busy = "no"

(* isReplaceRecoveryAvailable(); the intro creates the transaction and      *)
(* estimates it.                                                            *)
Open ==
  /\ At("menu")
  /\ wallet.paper # NoPhrase
  /\ app.flows < MaxFlows
  /\ LET i == app.flows + 1 IN
     /\ app' = [app EXCEPT !.flows = i]
     /\ txs' = [txs EXCEPT ![i].status = "draft"]
     /\ ui' = [Menu EXCEPT !.screen = "intro", !.id = i]
     /\ job' = [job EXCEPT !.estimate = @ \cup {i}]
  /\ UNCHANGED <<wallet, keys, chain, held>>

(* The answer is given to a screen that the closure does not own. *)
EstimateEnds(i) ==
  /\ Alive /\ i \in job.estimate
  /\ job' = [job EXCEPT !.estimate = @ \ {i}]
  /\ IF ui.id # i
     THEN /\ Trap("unowned")
          /\ txs' = [txs EXCEPT ![i].nonce = chain.sent]
          /\ UNCHANGED ui
     ELSE \/ /\ txs' = [txs EXCEPT ![i].nonce = chain.sent]
             /\ ui' = [ui EXCEPT !.ready = TRUE]
             /\ UNCHANGED app
          \/ Fail /\ UNCHANGED <<txs, ui>>
  /\ UNCHANGED <<wallet, keys, chain, held>>

(* A new account is generated and stored when its phrase is shown. *)
Start ==
  /\ At("intro") /\ ui.ready
  /\ \E p \in Phrase \ app.used :
       /\ keys' = keys \cup {p}
       /\ ui' = [ui EXCEPT !.screen = "save", !.phrase = p]
       /\ app' = [app EXCEPT !.used = @ \cup {p}]
  /\ UNCHANGED <<wallet, txs, chain, job, held>>

Continue ==
  /\ At("save")
  /\ ui' = [ui EXCEPT !.screen = "confirm"]
  /\ UNCHANGED <<wallet, txs, keys, chain, job, held, app>>

(* Faulty variant: leaving the review by the back button only. *)
LeftByBack(p) == IF ui.busy = "no" THEN [job EXCEPT !.cancel = @ \cup {p}] ELSE job

(* The closure that runs when the review screen is popped, by the back      *)
(* button or by exitFlow().                                                 *)
Left(p) == [job EXCEPT !.cancel = @ \cup {p}]

Back ==
  /\ \/ At("intro") /\ ui' = Menu /\ UNCHANGED job
     \/ /\ At("save")
        /\ ui' = [ui EXCEPT !.screen = "intro", !.phrase = NoPhrase]
        /\ job' = [job EXCEPT !.remove = @ \cup {ui.phrase}]
     \/ At("confirm") /\ ui' = [ui EXCEPT !.screen = "save"] /\ UNCHANGED job
     \/ At("review") /\ ui' = Menu /\ job' = Left(ui.phrase)
  /\ UNCHANGED <<wallet, txs, keys, chain, held, app>>

(* The closures of the global queue: willBeDismissed() ...                  *)
RemoveKey(p) ==
  /\ Alive /\ p \in job.remove
  /\ keys' = keys \ {p}
  /\ job' = [job EXCEPT !.remove = @ \ {p}]
  /\ UNCHANGED <<wallet, txs, chain, ui, held, app>>

(* ... and cancelPhraseRecovery(), which takes unknown owners for granted.  *)
Cancel(p) ==
  /\ Alive /\ p \in job.cancel
  /\ job' = [job EXCEPT !.cancel = @ \ {p}]
  /\ IF wallet.unknown = {}
     THEN Trap("unknown") /\ UNCHANGED <<wallet, keys>>
     ELSE /\ wallet' = [wallet EXCEPT !.unknown = {}]
          /\ keys' = keys \ {p}
          /\ UNCHANGED app
  /\ UNCHANGED <<txs, chain, ui, held>>

-----------------------------------------------------------------------------
(* updateRecoveryPhraseTransaction() blocks the main thread: the wallet is  *)
(* read, owners and estimate are requested, and then the transaction and    *)
(* the wallet are saved and the service subscribes. The review screen comes *)
(* next in any case.                                                        *)
Confirm ==
  /\ At("confirm")
  /\ ui' = [ui EXCEPT !.busy = "update"]
  /\ job' = [job EXCEPT !.update = <<wallet>>]
  /\ UNCHANGED <<wallet, txs, keys, chain, held, app>>

Updating == Alive /\ ui.busy = "update"
Review == [ui EXCEPT !.screen = "review", !.busy = "no"]

UpdateAnswer ==
  /\ Updating
  /\ LET w == [job.update[1] EXCEPT !.unknown = @ \cup {ui.phrase}] IN
     /\ txs' = [txs EXCEPT ![ui.id] = [status |-> "signing", old |-> chain.phrase,
                                      new |-> ui.phrase, nonce |-> chain.sent]]
     /\ wallet' = w
     /\ held' = [held EXCEPT ![ui.id] = <<w>>]
  /\ job' = [job EXCEPT !.update = <<>>, !.subs = @ \cup {ui.id}]
  /\ ui' = Review
  /\ UNCHANGED <<keys, chain, app>>

UpdateFails ==
  /\ Updating
  /\ Fail
  /\ job' = [job EXCEPT !.update = <<>>]
  /\ ui' = Review
  /\ UNCHANGED <<wallet, txs, keys, chain, held>>

-----------------------------------------------------------------------------
(* submitTransaction(): the relay takes the next nonce. A draft, whose      *)
(* update failed, is sent without data and then is in the state after       *)
(* draft; its review stays. An answered submission leaves the flow.         *)
Submit ==
  /\ At("review")
  /\ ui' = [ui EXCEPT !.busy = "submit"]
  /\ UNCHANGED <<wallet, txs, keys, chain, job, held, app>>

Submitting == Alive /\ ui.busy = "submit"
Accepted(i) ==
  /\ txs[i].nonce = chain.sent
  /\ chain' = [chain EXCEPT !.sent = @ + 1, !.queue = Append(@, i)]

SubmitAnswer ==
  /\ Submitting
  /\ Accepted(ui.id)
  /\ IF txs[ui.id].status = "draft"
     THEN /\ txs' = [txs EXCEPT ![ui.id].status = "signing"]
          /\ ui' = [ui EXCEPT !.busy = "no"]
          /\ UNCHANGED job
     ELSE /\ txs' = [txs EXCEPT ![ui.id].status = "pending"]
          /\ ui' = Menu
          /\ job' = Left(ui.phrase)
  /\ UNCHANGED <<wallet, keys, held, app>>

(* Refused, not delivered, or accepted and the answer lost. *)
SubmitFails ==
  /\ Submitting
  /\ \/ txs[ui.id].nonce # chain.sent /\ UNCHANGED <<chain, app>>
     \/ Fail /\ UNCHANGED chain
     \/ Fail /\ Accepted(ui.id)
  /\ ui' = [ui EXCEPT !.busy = "no"]
  /\ UNCHANGED <<wallet, txs, keys, job, held>>

-----------------------------------------------------------------------------
(* The chain (external): calls encoded for another phrase revert within the *)
(* Safe, which the receipt does not show.                                   *)
Mine ==
  /\ chain.queue # <<>>
  /\ LET i == Head(chain.queue)
         t == txs[i]
     IN \/ /\ chain' = [chain EXCEPT
                 !.queue = Tail(@), !.receipt[i] = "success",
                 !.phrase = IF t.new # NoPhrase /\ t.old = @ THEN t.new ELSE @]
           /\ UNCHANGED app
        \/ /\ Fail
           /\ chain' = [chain EXCEPT !.queue = Tail(@), !.receipt[i] = "failed"]
  /\ UNCHANGED <<wallet, txs, keys, ui, job, held>>

(* TransactionStatusUpdated: every subscribed closure is called. *)
Told == [job EXCEPT !.notice = [i \in Visit |-> @[i] + IF i \in job.subs THEN 1 ELSE 0]]

PollAnswer(i) ==
  /\ Alive /\ txs[i].status = "pending" /\ chain.receipt[i] # "none"
  /\ txs' = [txs EXCEPT ![i].status = chain.receipt[i]]
  /\ job' = Told
  /\ UNCHANGED <<wallet, keys, chain, ui, held, app>>

(* Another transaction of the wallet is updated. *)
OtherUpdate ==
  /\ Alive /\ app.others < MaxOthers
  /\ app' = [app EXCEPT !.others = @ + 1]
  /\ job' = Told
  /\ UNCHANGED <<wallet, txs, keys, chain, ui, held>>

(* Faulty variant: the subscription outlives the handler. *)
NoticeStays(i) ==
  /\ Alive /\ job.notice[i] > 0
  /\ LET told == [job EXCEPT !.notice[i] = @ - 1] IN
     CASE txs[i].status = "pending" ->
            job' = told /\ UNCHANGED <<wallet, keys, held, app>>
       [] txs[i].status # "pending" /\ held[i][1].unknown = {} ->
            job' = told /\ UNCHANGED <<wallet, keys, held, app>>
       [] OTHER ->
            /\ job' = told
            /\ held' = [held EXCEPT ![i][1].unknown = {}]
            /\ wallet' = [held[i][1] EXCEPT !.unknown = {}]
            /\ keys' = keys \ {txs[i].new}
            /\ UNCHANGED app
  /\ UNCHANGED <<txs, chain, ui>>

(* The subscribed closure. On success it gives the paper roles to a wallet  *)
(* that it finds and does not save; then the unknown owners of the captured *)
(* one go, and that one is saved. unsubscribe() ends every subscription of  *)
(* the service.                                                             *)
Notice(i) ==
  /\ Alive /\ job.notice[i] > 0
  /\ LET told == [job EXCEPT !.notice[i] = @ - 1] IN
     CASE txs[i].status = "pending" ->
            job' = told /\ UNCHANGED <<wallet, keys, held, app>>
       [] txs[i].status # "pending" /\ held[i][1].unknown = {} ->
            job' = told /\ Trap("spent") /\ UNCHANGED <<wallet, keys, held>>
       [] OTHER ->
            /\ job' = [told EXCEPT !.subs = {}]
            /\ held' = [held EXCEPT ![i][1].unknown = {}]
            /\ wallet' = [held[i][1] EXCEPT !.unknown = {}]
            /\ keys' = keys \ {txs[i].new}
            /\ UNCHANGED app
  /\ UNCHANGED <<txs, chain, ui>>

-----------------------------------------------------------------------------
(* changePaymentToken(), elsewhere in the menu. *)
ChangeFee ==
  /\ At("menu") /\ app.fees < MaxFees
  /\ app' = [app EXCEPT !.fees = @ + 1]
  /\ wallet' = [wallet EXCEPT !.fee = app.fees + 1]
  /\ UNCHANGED <<txs, keys, chain, ui, job, held>>

Kill ==
  /\ Alive /\ app.kills < MaxKills
  /\ app' = [app EXCEPT !.trap = "killed", !.ends = @ + 1, !.kills = @ + 1]
  /\ UNCHANGED <<wallet, txs, keys, chain, ui, job, held>>

(* Nothing takes the flow up again. *)
Relaunch ==
  /\ ~Alive
  /\ app' = [app EXCEPT !.trap = "no"]
  /\ ui' = Menu
  /\ job' = NoJob
  /\ held' = [i \in Visit |-> <<>>]
  /\ UNCHANGED <<wallet, txs, keys, chain>>

User == Open \/ Start \/ Continue \/ Back \/ Confirm \/ Submit \/ ChangeFee
Answer == UpdateAnswer \/ UpdateFails \/ SubmitAnswer \/ SubmitFails
Closure ==
  \/ \E p \in Phrase : RemoveKey(p) \/ Cancel(p)
  \/ \E i \in Visit : EstimateEnds(i) \/ Notice(i)
Polled == \E i \in Visit : PollAnswer(i)

Next == User \/ Answer \/ Closure \/ Mine \/ Polled \/ OtherUpdate \/ Kill \/ Relaunch

Spec == Init /\ [][Next]_vars

(* The queues run their closures, the synchronisation goes on and the chain *)
(* mines what it was sent.                                                  *)
FairSpec == Spec /\ WF_vars(Closure) /\ WF_vars(Polled) /\ WF_vars(Mine)

-----------------------------------------------------------------------------
Wallet == [paper : Phrase, unknown : SUBSET Phrase, fee : 0 .. MaxFees]

TypeOK ==
  /\ wallet \in Wallet
  /\ txs \in [Visit -> [status : {"none", "draft", "signing", "pending", "success", "failed"},
                        old : Phrase \cup {NoPhrase}, new : Phrase \cup {NoPhrase},
                        nonce : 0 .. MaxFlows + MaxFailures]]
  /\ keys \subseteq app.used \ {First}
  /\ chain.phrase \in app.used
  /\ ui.screen \in {"menu", "intro", "save", "confirm", "review"}
  /\ \A i \in Visit : /\ i \in job.subs => held[i] # <<>>
                      /\ job.notice[i] > 0 => held[i] # <<>>
                      /\ held[i] # <<>> => held[i][1] \in Wallet
  /\ job.estimate \subseteq Visit

(* The private key of a new phrase is on the phone only while its screens   *)
(* are open or its removal is queued (willBeDismissed(), the closure of the *)
(* review screen, the end of the subscription), unless the process ended.   *)
KeyIsTemporary ==
  app.ends = 0 => keys \subseteq {ui.phrase} \cup job.remove \cup job.cancel

(* Owners of unknown role are in the stored wallet only while a review is   *)
(* open or being left, however stale the wallets are that updates and       *)
(* subscriptions save (cancelPhraseRecovery()), unless the process ended.   *)
UnknownIsTemporary ==
  app.ends = 0 /\ wallet.unknown # {} => ui.screen = "review" \/ job.cancel # {}

(* A subscription ends once its transaction is mined (or the process does), *)
(* the transaction of another visit being handled first included.          *)
SubscriptionEnds ==
  \A i \in Visit :
    i \in job.subs /\ txs[i].status = "pending" ~> i \notin job.subs \/ ~Alive

(* "if crashes or closed before tx status finished, then wallets not        *)
(* updated": otherwise the wallet gets the new phrase's roles.              *)
WalletGetsPhrase ==
  [][\A i \in Visit :
       Notice(i) /\ txs[i].status = "success" /\ Alive' => wallet'.paper = txs[i].new]_vars

(* Wallet.assertOwnerExists() where the flow removes the unknown owners.    *)
UnknownExists == app.trap \notin {"unknown", "spent"}

(* "This payment method will be used to pay network fees in all             *)
(* transactions": until the user chooses another.                           *)
FeeIsKept == [][wallet'.fee # wallet.fee => ChangeFee]_vars

(* "The existing recovery phrase will be replaced by a new recovery         *)
(* phrase": by a transaction that the app shows as successful.              *)
SuccessReplaces ==
  [][\A i \in Visit : Mine /\ chain.receipt[i] = "none" /\ chain'.receipt[i] = "success"
       => chain'.phrase = txs[i].new]_vars

(* The intro's closure refers to the screen as unowned: it is still there.  *)
IntroIsThere == app.trap # "unowned"
=============================================================================
