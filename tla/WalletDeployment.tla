-------------------------- MODULE WalletDeployment --------------------------
(***************************************************************************)
(* Deployment of a new multisignature wallet: DeploymentDomainService,     *)
(* the Wallet state objects, the Repeater loops that poll the node and the *)
(* relay, the EventPublisher that dispatches handlers, and the screen that *)
(* starts, retries and aborts a deployment.                                *)
(*                                                                         *)
(* The wallet repository stores one row and every reader builds its own    *)
(* Wallet object from it; saving replaces the whole row.  A handler that   *)
(* polls for minutes therefore works on a copy that may be stale by the    *)
(* time it saves, and that is what this module is about.                   *)
(*                                                                         *)
(* An element of Addr stands for one answer of the relay service: a safe   *)
(* address with its payment, master copy and creation transaction, so the  *)
(* hash of the creation transaction of address a is written a as well.     *)
(***************************************************************************)
EXTENDS Integers, FiniteSets

CONSTANTS
  Thread,      \* worker threads of DispatchQueue.global(), and the main thread
  Addr,        \* the answers the relay service can give
  None,        \* Swift's nil
  MinAmount,   \* the payment the relay asks for before it deploys
  MaxErrors,   \* bound: service calls that throw
  MaxAborts,   \* bound: aborts confirmed by the user
  MaxCrashes,  \* bound: kills of the process by the system or the user
  MaxTaps,     \* bound: taps on Refresh while one error is on the screen
  MayRevert    \* whether the creation transaction may fail on the chain

ASSUME ConstantsAssumption ==
  /\ IsFiniteSet(Thread)
  /\ None \notin Addr
  /\ MinAmount \in Nat \ {0}
  /\ MaxErrors \in Nat
  /\ MaxAborts \in Nat
  /\ MaxCrashes \in Nat
  /\ MaxTaps \in Nat
  /\ MayRevert \in BOOLEAN

VARIABLES
  db,         \* the stored wallet row
  account,    \* the stored Ether balance of the wallet's account
  paperKeys,  \* the paper wallet's private keys are still on the device
  chain,      \* Ether balance of every address on the chain
  relay,      \* what the relay service has done for every address
  up,         \* the application process is running
  ui,         \* what SafeCreationViewController shows
  alert,      \* the alert over the screen: cancel the creation, or it failed
  taps,       \* taps on Refresh since the error was shown
  uiStale,    \* an event the screen subscribed to has not been read
  toShow,     \* screen updates on their way to the main queue, in any order
  subscribed, \* the service's handlers are subscribed
  pending,    \* handlers dispatched and not yet begun, per event
  th,         \* the worker threads
  registered, \* threads whose repeater is in the service's Repeaters list
  stopping,   \* threads whose repeater a queued stopAll() will stop
  dropped,    \* history: addresses the user gave up by aborting
  budget      \* what is left of the bounds

world   == <<chain, relay>>
screen  == <<ui, alert, taps, uiStale, toShow>>
store   == <<db, account, paperKeys>>
loops   == <<registered, stopping>>
vars    == <<store, world, up, screen, subscribed, pending, th, loops,
             dropped, budget>>

---------------------------------------------------------------------------
(* Types *)

WState == {"draft", "deploying", "waitingForFirstDeposit", "notEnoughFunds",
           "creationStarted", "finalizingDeployment", "readyToUse"}

Row == [state : WState, address : Addr \cup {None}, hash : Addr \cup {None}]

Event == {"DeploymentStarted", "StartedWaitingForFirstDeposit",
          "StartedWaitingForRemainingFeeAmount", "DeploymentFunded",
          "CreationStarted", "WalletCreated", "WalletCreationFailed",
          "DeploymentAborted"}

Job == {"none", "firstDeposit", "remaining", "hash", "receipt"}

PC == {"idle",
       "unsubscribe", "subscribe", "read", "resume",     \* start()
       "abort", "abortSave",                             \* abortDeployment()
       "request",                                        \* deploymentStarted
       "add", "enter", "poll", "store", "loop", "wake", "run", \* a repeater
       "startCreation",                                  \* walletFunded
       "notify",                                         \* walletCreated
       "proceed"}                                        \* wallet.proceed()

\* What a state of the wallet looks like on the screen; "main": it is left.
View == {"main", "cancellable", "locked"}

\* What the main queue may be asked to show: "error" offers Refresh, "failed"
\* opens the alert that leaves the screen.
Shown == View \cup {"error", "failed"}

\* Before the flow is shown, the screens before the creation screen, the last
\* of them with its Next button enabled, and the creation screen itself.
Ui == View \cup {"error", "closed", "setup", "configure"}

RelayStatus == {"unknown", "offered", "requested", "submitted", "mined",
                "reverted"}

ThreadState == [pc  : PC,
                job : Job,
                w   : Row,                 \* the thread's own Wallet object
                bal : 0..MinAmount,        \* the balance the last poll returned
                rep : {"stopped", "running", "waiting"}]  \* Repeater.State

\* wallet.reset() of a wallet in the draft state.
DraftRow == [state |-> "draft", address |-> None, hash |-> None]

IdleThread == [pc |-> "idle", job |-> "none", w |-> DraftRow, bal |-> 0,
               rep |-> "stopped"]

FlagsOK ==
  /\ paperKeys \in BOOLEAN
  /\ up \in BOOLEAN
  /\ uiStale \in BOOLEAN
  /\ subscribed \in BOOLEAN

StoreOK == db \in Row /\ account \in 0..MinAmount

WorldOK == chain \in [Addr -> 0..MinAmount] /\ relay \in [Addr -> RelayStatus]

ScreenOK ==
  /\ ui \in Ui
  /\ alert \in {"none", "abort", "failure"}
  /\ taps \in 0..MaxTaps
  /\ toShow \subseteq Shown

ThreadsOK ==
  /\ pending \in [Event -> Nat]
  /\ th \in [Thread -> ThreadState]
  /\ registered \subseteq Thread
  /\ stopping \subseteq Thread

BoundsOK ==
  /\ dropped \subseteq Addr
  /\ budget \in [errors : 0..MaxErrors, aborts : 0..MaxAborts,
                 crashes : 0..MaxCrashes]

\* Every variable keeps its type: no stored or polled balance leaves the range
\* of what the chain can hold, no dispatch count is taken below zero.
TypeOK ==
  FlagsOK /\ StoreOK /\ WorldOK /\ ScreenOK /\ ThreadsOK /\ BoundsOK

Init ==
  /\ db = DraftRow
  /\ account = 0
  /\ paperKeys = TRUE
  /\ chain = [a \in Addr |-> 0]
  /\ relay = [a \in Addr |-> "unknown"]
  /\ up = TRUE
  /\ ui = "setup" /\ alert = "none" /\ taps = 0 /\ uiStale = FALSE
  /\ toShow = {}
  /\ subscribed = FALSE
  /\ pending = [e \in Event |-> 0]
  /\ th = [t \in Thread |-> IdleThread]
  /\ registered = {} /\ stopping = {}
  /\ dropped = {}
  /\ budget = [errors |-> MaxErrors, aborts |-> MaxAborts,
               crashes |-> MaxCrashes]

---------------------------------------------------------------------------
(* The wallet's state objects *)

\* The states whose cancel() returns the wallet to a draft.
Cancellable == {"deploying", "waitingForFirstDeposit", "notEnoughFunds",
                "creationStarted"}

InProgress(s) == s \notin {"draft", "readyToUse"}

\* The event resume() republishes in a state of a deployment in progress.
ResumeEvent ==
  [s \in WState \ {"draft", "readyToUse"} |->
     CASE s = "deploying"              -> "DeploymentStarted"
       [] s = "waitingForFirstDeposit" -> "StartedWaitingForFirstDeposit"
       [] s = "notEnoughFunds"         -> "StartedWaitingForRemainingFeeAmount"
       [] s = "creationStarted"        -> "DeploymentFunded"
       [] s = "finalizingDeployment"   -> "CreationStarted"]

\* Faulty variant: any first deposit counts as full payment.
NextStateUnchecked(s, balance) ==
  CASE s = "draft"                  -> "deploying"
    [] s = "deploying"              -> "waitingForFirstDeposit"
    [] s = "waitingForFirstDeposit" -> "creationStarted"
    [] s = "notEnoughFunds"         -> "creationStarted"
    [] s = "creationStarted"        -> "finalizingDeployment"
    [] OTHER                        -> "readyToUse"

\* The state proceed() moves to; the first deposit is judged by the balance
\* stored in the account, whoever stored it.
NextState(s, balance) ==
  CASE s = "draft"                  -> "deploying"
    [] s = "deploying"              -> "waitingForFirstDeposit"
    [] s = "waitingForFirstDeposit" -> IF balance < MinAmount
                                         THEN "notEnoughFunds"
                                         ELSE "creationStarted"
    [] s = "notEnoughFunds"         -> "creationStarted"
    [] s = "creationStarted"        -> "finalizingDeployment"
    [] s = "finalizingDeployment"   -> "readyToUse"
    [] s = "readyToUse"             -> "readyToUse"

\* EventPublisher.publish: an event nobody is subscribed to is gone.
Publish(e) ==
  pending' = IF subscribed THEN [pending EXCEPT ![e] = @ + 1] ELSE pending

\* The creation screen is there to hear of events and errors.
ScreenOpen == ui \in {"cancellable", "locked", "error"}

\* wallet.proceed() on the copy r: the whole row is saved, then the new state
\* publishes its event.
ProceedWith(r) ==
  LET new == [r EXCEPT !.state = NextState(r.state, account)]
  IN  IF r.state = "readyToUse"
        THEN UNCHANGED <<db, pending, uiStale>>
        ELSE /\ db' = new
             /\ Publish(IF new.state = "readyToUse" THEN "WalletCreated"
                        ELSE ResumeEvent[new.state])
             /\ uiStale' = ScreenOpen

\* The row that wallet.cancel() leaves in the copy r.
Cancelled(r) == IF r.state \in Cancellable THEN DraftRow ELSE r

\* wallet.cancel() on the copy r.
CancelWith(r) ==
  CASE r.state \in Cancellable ->
         db' = DraftRow /\ Publish("DeploymentAborted")
    [] r.state = "finalizingDeployment" ->
         UNCHANGED db /\ Publish("WalletCreationFailed")
    [] OTHER -> UNCHANGED <<db, pending>>

---------------------------------------------------------------------------
(* Threads *)

At(t, l) == up /\ th[t].pc = l
Goto(t, l) == th' = [th EXCEPT ![t] = [@ EXCEPT !.pc = l]]

\* The handler returns; a repeater it leaves behind is never started again.
Finish(t) ==
  /\ th' = [th EXCEPT ![t] = IdleThread]
  /\ registered' = registered \ {t}
  /\ stopping' = stopping \ {t}

\* The process is gone: what is stored and the outside world stay.
Down ==
  /\ up' = FALSE
  /\ ui' = "closed" /\ alert' = "none" /\ taps' = 0 /\ uiStale' = FALSE
  /\ toShow' = {}
  /\ subscribed' = FALSE
  /\ pending' = [e \in Event |-> 0]
  /\ th' = [t \in Thread |-> IdleThread]
  /\ registered' = {} /\ stopping' = {}

---------------------------------------------------------------------------
(* The screen and the user *)

MainBusy == \E t \in Thread : th[t].pc \in {"abort", "abortSave"}

\* viewWillAppear of NewSafeViewController: Next is enabled for a draft, and
\* stays enabled whatever becomes of the row.
Configure ==
  /\ up /\ ~MainBusy
  /\ ui = "setup"
  /\ db.state = "draft"
  /\ ui' = "configure"
  /\ UNCHANGED <<store, world, up, alert, taps, uiStale, toShow, subscribed,
                 pending, th, loops, dropped, budget>>

\* createNewSafe: prepareForCreation() resets the row and publishes nothing; its
\* owners, the paper wallet among them, are set up anew.  It leaves a draft as
\* it is.
PrepareForCreation ==
  /\ up /\ ~MainBusy
  /\ ui \in {"setup", "configure"}
  /\ db.state # "draft"
  /\ db' = DraftRow
  /\ paperKeys' = TRUE
  /\ ui' = "setup"
  /\ UNCHANGED <<account, world, up, alert, taps, uiStale, toShow, subscribed,
                 pending, th, loops, dropped, budget>>

\* viewDidLoad: the screen opens in its nil state and calls deploy().  The flow
\* pushes it at launch, or the user comes to it by Next.
OpenScreen(t) ==
  /\ At(t, "idle") /\ ~MainBusy
  /\ ui \in {"closed", "configure"}
  /\ Goto(t, "unsubscribe")
  /\ ui' = "cancellable" /\ taps' = 0
  /\ UNCHANGED <<store, world, up, alert, uiStale, toShow, subscribed,
                 pending, loops, dropped, budget>>

\* retryDeployment: Refresh stays enabled until an event replaces the error.
Retry(t) ==
  /\ At(t, "idle") /\ ~MainBusy
  /\ ui = "error" /\ alert = "none"
  /\ taps < MaxTaps
  /\ Goto(t, "unsubscribe")
  /\ taps' = taps + 1
  /\ UNCHANGED <<store, world, up, ui, alert, uiStale, toShow, subscribed,
                 pending, loops, dropped, budget>>

\* state(from:): the final state closes the screen.
ViewOf(s) ==
  CASE s = "readyToUse" -> "main"
    [] s \in {"draft", "deploying", "waitingForFirstDeposit", "notEnoughFunds"} ->
         "cancellable"
    [] OTHER -> "locked"

\* notify(), on a background queue: the stored state is read...
ReadState ==
  /\ up
  /\ uiStale
  /\ uiStale' = FALSE
  /\ toShow' = toShow \cup {ViewOf(db.state)}
  /\ UNCHANGED <<store, world, up, ui, alert, taps, subscribed, pending, th,
                 loops, dropped, budget>>

\* ... and shown by the main queue, in whatever order the updates got there;
\* so are errors.  The final state ends the flow.
ShowState(v) ==
  /\ up /\ ~MainBusy
  /\ v \in toShow
  /\ ui' = IF v = "failed" THEN "error" ELSE v
  /\ toShow' = IF v = "main" THEN {} ELSE toShow \ {v}
  /\ uiStale' = (uiStale /\ v # "main")
  /\ taps' = IF v \in {"error", "failed"} THEN 0 ELSE taps
  /\ alert' = IF v = "failed" THEN "failure" ELSE alert
  /\ UNCHANGED <<store, world, up, subscribed, pending, th, loops, dropped,
                 budget>>

\* The screen is popped.  An update that was read keeps the controller alive,
\* and the final state still ends the flow.
PopScreen ==
  /\ ui' = IF ScreenOpen THEN "setup" ELSE ui
  /\ uiStale' = FALSE
  /\ toShow' = toShow \cap {"main"}

\* deploymentDidFail: the user answers the alert, which takes longer than the
\* updates under way, and the flow goes back to its guidelines.
ConfirmFailure ==
  /\ up /\ ~MainBusy
  /\ alert = "failure"
  /\ ~uiStale /\ toShow = {}
  /\ alert' = "none"
  /\ PopScreen
  /\ UNCHANGED <<store, world, up, taps, subscribed, pending, th, loops,
                 dropped, budget>>

\* cancel(_:): the alert opens; it stays while the deployment goes on.
AskToAbort ==
  /\ up /\ ~MainBusy
  /\ ui = "cancellable" /\ alert = "none"
  /\ budget.aborts > 0
  /\ alert' = "abort"
  /\ UNCHANGED <<store, world, up, ui, taps, uiStale, toShow, subscribed,
                 pending, th, loops, dropped, budget>>

DismissAlert ==
  /\ up /\ ~MainBusy
  /\ alert = "abort"
  /\ alert' = "none"
  /\ UNCHANGED <<store, world, up, ui, taps, uiStale, toShow, subscribed,
                 pending, th, loops, dropped, budget>>

\* The user confirms: abortDeployment() reads the wallet.
ConfirmAbort(t) ==
  /\ At(t, "idle") /\ ~MainBusy
  /\ alert = "abort"
  /\ budget.aborts > 0
  /\ alert' = "none"
  /\ budget' = [budget EXCEPT !.aborts = @ - 1]
  /\ th' = [th EXCEPT ![t] = [@ EXCEPT !.pc = "abort", !.w = db]]
  /\ UNCHANGED <<store, world, up, ui, taps, uiStale, toShow, subscribed,
                 pending, loops, dropped>>

\* wallet.cancel() inside mutateSelectedWallet.
AbortCancel(t) ==
  LET r == th[t].w
  IN  /\ At(t, "abort")
      /\ CancelWith(r)
      /\ th' = [th EXCEPT ![t] = [@ EXCEPT !.pc = "abortSave", !.w = Cancelled(r)]]
      /\ dropped' = IF r.state \in Cancellable
                      THEN dropped \cup ({r.address} \ {None}) ELSE dropped
      /\ UNCHANGED <<account, paperKeys, world, up, screen, subscribed, loops,
                     budget>>

\* mutateSelectedWallet saves the same copy once more; the flow pops the screen.
AbortSave(t) ==
  /\ At(t, "abortSave")
  /\ db' = th[t].w
  /\ Finish(t)
  /\ PopScreen
  /\ UNCHANGED <<account, paperKeys, world, up, alert, taps, subscribed,
                 pending, dropped, budget>>

---------------------------------------------------------------------------
(* DeploymentDomainService.start() *)

Unsubscribe(t) ==
  /\ At(t, "unsubscribe")
  /\ subscribed' = FALSE
  /\ Goto(t, "subscribe")
  /\ UNCHANGED <<store, world, up, screen, pending, loops, dropped, budget>>

Subscribe(t) ==
  /\ At(t, "subscribe")
  /\ subscribed' = TRUE
  /\ Goto(t, "read")
  /\ UNCHANGED <<store, world, up, screen, pending, loops, dropped, budget>>

ReadWallet(t) ==
  /\ At(t, "read")
  /\ th' = [th EXCEPT ![t] = [@ EXCEPT !.pc = "resume", !.w = db]]
  /\ UNCHANGED <<store, world, up, screen, subscribed, pending, loops,
                 dropped, budget>>

\* Faulty variant: resuming a draft publishes its event a second time.
ResumeTwice(t) ==
  LET r == th[t].w
      e == IF r.state = "draft" THEN "DeploymentStarted"
           ELSE ResumeEvent[r.state]
  IN  /\ At(t, "resume")
      /\ r.state # "readyToUse"
      /\ db' = IF r.state = "draft" THEN [r EXCEPT !.state = "deploying"] ELSE db
      /\ pending' = [pending EXCEPT ![e] = @ + 2]
      /\ Finish(t)
      /\ UNCHANGED <<account, paperKeys, world, up, screen, subscribed,
                     dropped, budget>>

\* Faulty variant: every start begins the deployment anew.
ResumeAnew(t) ==
  /\ At(t, "resume")
  /\ th[t].w.state # "readyToUse"
  /\ ProceedWith([th[t].w EXCEPT !.state = "draft"])
  /\ Finish(t)
  /\ UNCHANGED <<account, paperKeys, world, up, ui, alert, taps, toShow,
                 subscribed, dropped, budget>>

\* Faulty variant: resume() of a deployment in progress publishes nothing.
ResumeSilent(t) ==
  LET r == th[t].w
  IN  /\ At(t, "resume")
      /\ IF r.state = "draft" THEN ProceedWith(r)
         ELSE UNCHANGED <<db, pending, uiStale>>
      /\ Finish(t)
      /\ UNCHANGED <<account, paperKeys, world, up, ui, alert, taps, toShow,
                     subscribed, dropped, budget>>

\* wallet.resume(): a draft proceeds, a deployment in progress republishes.
Resume(t) ==
  LET r == th[t].w
  IN  /\ At(t, "resume")
      /\ \/ /\ r.state = "draft"
            /\ ProceedWith(r)
         \/ /\ InProgress(r.state)
            /\ Publish(ResumeEvent[r.state])
            /\ uiStale' = ScreenOpen
            /\ UNCHANGED db
         \/ /\ r.state = "readyToUse"
            /\ UNCHANGED <<db, pending, uiStale>>
      /\ Finish(t)
      /\ UNCHANGED <<account, paperKeys, world, up, ui, alert, taps, toShow,
                     subscribed, dropped, budget>>

---------------------------------------------------------------------------
(* Event handlers *)

\* Faulty variant: the clean-up handler is subscribed to CreationStarted.
FirstStepEarlyCleanUp(e) ==
  CASE e = "DeploymentStarted" -> "request"
    [] e = "DeploymentFunded"  -> "startCreation"
    [] e \in {"WalletCreated", "CreationStarted"} -> "notify"
    [] OTHER                   -> "add"

FirstStep(e) ==
  CASE e = "DeploymentStarted" -> "request"
    [] e = "DeploymentFunded"  -> "startCreation"
    [] e = "WalletCreated"     -> "notify"
    [] OTHER                   -> "add"

\* Faulty variant: the wait for the transaction hash is skipped.
FirstJobNoHash(e, r) ==
  CASE e = "StartedWaitingForFirstDeposit"       -> "firstDeposit"
    [] e = "StartedWaitingForRemainingFeeAmount" -> "remaining"
    [] e = "CreationStarted" -> "receipt"
    [] OTHER -> "none"

FirstJob(e, r) ==
  CASE e = "StartedWaitingForFirstDeposit"       -> "firstDeposit"
    [] e = "StartedWaitingForRemainingFeeAmount" -> "remaining"
    [] e = "CreationStarted" -> IF r.hash = None THEN "hash" ELSE "receipt"
    [] OTHER -> "none"

\* A dispatched closure runs: handleError reads the selected wallet.
Begin(t, e) ==
  /\ At(t, "idle")
  /\ pending[e] > 0
  /\ e \notin {"DeploymentAborted", "WalletCreationFailed"}
  /\ pending' = [pending EXCEPT ![e] = @ - 1]
  /\ th' = [th EXCEPT ![t] = [IdleThread EXCEPT !.pc = FirstStep(e),
                                                !.job = FirstJob(e, db),
                                                !.w = db]]
  /\ uiStale' = (uiStale \/ (ScreenOpen /\ FirstJob(e, db) = "receipt"))
  /\ UNCHANGED <<store, world, up, ui, alert, taps, toShow, subscribed, loops,
                 dropped, budget>>

\* deploymentAborted: stopAll() is queued behind the additions made so far.
HandleAborted ==
  /\ up
  /\ pending["DeploymentAborted"] > 0
  /\ pending' = [pending EXCEPT !["DeploymentAborted"] = @ - 1]
  /\ stopping' = stopping \cup registered
  /\ registered' = {}
  /\ UNCHANGED <<store, world, up, screen, subscribed, th, dropped, budget>>

\* creationFailed: system.exit(EXIT_FAILURE).
HandleCreationFailed ==
  /\ up
  /\ pending["WalletCreationFailed"] > 0
  /\ Down
  /\ UNCHANGED <<store, world, dropped, budget>>

\* One $0.stop() of a queued stopAll().
StopRepeater(t) ==
  /\ up
  /\ t \in stopping
  /\ stopping' = stopping \ {t}
  /\ th' = [th EXCEPT ![t] = [@ EXCEPT !.rep = "stopped"]]
  /\ UNCHANGED <<store, world, up, screen, subscribed, pending, registered,
                 dropped, budget>>

\* Faulty variant: the wallet proceeds without taking over the address.
RequestKeepsNil(t, a) ==
  /\ At(t, "request")
  /\ relay[a] = "unknown"
  /\ relay' = [relay EXCEPT ![a] = "offered"]
  /\ Goto(t, "proceed")
  /\ UNCHANGED <<store, chain, up, screen, subscribed, pending, loops,
                 dropped, budget>>

\* createSafeCreationTransaction answers and the answer is valid; assigning
\* the address of a wallet that is no longer deploying is a trap.
Request(t, a) ==
  /\ At(t, "request")
  /\ relay[a] = "unknown"
  /\ relay' = [relay EXCEPT ![a] = "offered"]
  /\ IF th[t].w.state = "deploying"
       THEN /\ th' = [th EXCEPT ![t] = [@ EXCEPT !.pc = "proceed", !.w.address = a]]
            /\ UNCHANGED <<up, screen, subscribed, pending, loops>>
       ELSE Down
  /\ UNCHANGED <<store, chain, dropped, budget>>

\* wallet.proceed() at the end of a handler.
Proceed(t) ==
  /\ At(t, "proceed")
  /\ ProceedWith(th[t].w)
  /\ Finish(t)
  /\ UNCHANGED <<account, paperKeys, world, up, ui, alert, taps, toShow,
                 subscribed, dropped, budget>>

\* startSafeCreation(address:) succeeds.
StartCreation(t) ==
  LET a == th[t].w.address
  IN  /\ At(t, "startCreation")
      /\ a # None
      /\ relay' = [relay EXCEPT ![a] = IF @ = "offered" THEN "requested" ELSE @]
      /\ Goto(t, "proceed")
      /\ UNCHANGED <<store, chain, up, screen, subscribed, pending, loops,
                     dropped, budget>>

\* walletCreated: once the extension is notified the paper keys are removed.
NotifyCreated(t) ==
  /\ At(t, "notify")
  /\ paperKeys' = FALSE
  /\ Finish(t)
  /\ UNCHANGED <<db, account, world, up, screen, subscribed, pending, dropped,
                 budget>>

---------------------------------------------------------------------------
(* Repeaters *)

\* repeaters.add(repeater) of a new, stopped repeater.
AddRepeater(t) ==
  /\ At(t, "add")
  /\ th' = [th EXCEPT ![t] = [@ EXCEPT !.pc = "enter", !.rep = "stopped"]]
  /\ registered' = registered \cup {t}
  /\ UNCHANGED <<store, world, up, screen, subscribed, pending, stopping,
                 dropped, budget>>

\* start() of a stopped repeater, or the next turn of its loop: state = .running.
RunRepeater(t) ==
  /\ At(t, "enter") \/ At(t, "run")
  /\ th' = [th EXCEPT ![t] = [@ EXCEPT !.pc = "poll", !.rep = "running"]]
  /\ UNCHANGED <<store, world, up, screen, subscribed, pending, loops,
                 dropped, budget>>

\* What follows a repeater that has returned: the wait for the hash is
\* followed by the wait for the receipt, anything else ends the handler.
AfterRepeater(t, r) ==
  IF th[t].job = "hash"
    THEN /\ th' = [th EXCEPT ![t] = [IdleThread EXCEPT !.pc = "add",
                                                       !.job = "receipt",
                                                       !.w = r]]
         /\ registered' = registered \ {t}
         /\ stopping' = stopping \ {t}
    ELSE Finish(t)

\* `if isStopped { return }`, otherwise state = .waiting and the delay.
EndOfTurn(t) ==
  /\ At(t, "loop")
  /\ IF th[t].rep = "stopped"
       THEN AfterRepeater(t, th[t].w)
       ELSE /\ th' = [th EXCEPT ![t] = [@ EXCEPT !.pc = "wake", !.rep = "waiting"]]
            /\ UNCHANGED loops
  /\ UNCHANGED <<store, world, up, screen, subscribed, pending, dropped,
                 budget>>

\* `while !isStopped`, after the delay; the loop then overwrites the state.
Wake(t) ==
  /\ At(t, "wake")
  /\ IF th[t].rep = "stopped"
       THEN AfterRepeater(t, th[t].w)
       ELSE Goto(t, "run") /\ UNCHANGED loops
  /\ UNCHANGED <<store, world, up, screen, subscribed, pending, dropped,
                 budget>>

\* eth_getBalance answers.
PollBalance(t) ==
  LET a == th[t].w.address
  IN  /\ At(t, "poll")
      /\ th[t].job \in {"firstDeposit", "remaining"}
      /\ a # None
      /\ th' = [th EXCEPT ![t] = [@ EXCEPT !.pc = "store", !.bal = chain[a]]]
      /\ UNCHANGED <<store, world, up, screen, subscribed, pending, loops,
                     dropped, budget>>

\* Faulty variant: the polled balance is added to the stored one.
StoreBalanceAdds(t) ==
  /\ At(t, "store")
  /\ account' = account + th[t].bal
  /\ Goto(t, "loop")
  /\ UNCHANGED <<db, paperKeys, world, up, screen, subscribed, pending, loops,
                 dropped, budget>>

\* account.update and save; enough funds stop the repeater and proceed.
StoreBalance(t) ==
  LET enough == th[t].bal >= (IF th[t].job = "firstDeposit" THEN 1
                              ELSE MinAmount)
  IN  /\ At(t, "store")
      /\ account' = th[t].bal
      /\ IF enough
           THEN /\ th' = [th EXCEPT ![t] = [@ EXCEPT !.pc = "proceed", !.rep = "stopped"]]
                /\ registered' = registered \ {t}
           ELSE /\ Goto(t, "loop")
                /\ UNCHANGED registered
      /\ UNCHANGED <<db, paperKeys, world, up, screen, subscribed, pending,
                     stopping, dropped, budget>>

\* safeCreationTransactionHash answers: no hash yet, or the hash is assigned
\* (a trap unless the copy is finalizing) and the row is saved.
PollHash(t) ==
  LET r == th[t].w
      known == relay[r.address] \in {"submitted", "mined", "reverted"}
      new == [r EXCEPT !.hash = r.address]
  IN  /\ At(t, "poll")
      /\ th[t].job = "hash"
      /\ r.address # None
      /\ \/ /\ ~known
            /\ Goto(t, "loop")
            /\ UNCHANGED <<db, up, screen, subscribed, pending, loops>>
         \/ /\ known /\ r.state = "finalizingDeployment"
            /\ db' = new
            /\ AfterRepeater(t, new)
            /\ uiStale' = ScreenOpen
            /\ UNCHANGED <<up, ui, alert, taps, toShow, subscribed, pending>>
         \/ /\ known /\ r.state # "finalizingDeployment"
            /\ Down
            /\ UNCHANGED db
      /\ UNCHANGED <<account, paperKeys, world, dropped, budget>>

\* Faulty variant: any receipt counts as success.
PollReceiptAnyStatus(t) ==
  LET r == th[t].w
  IN  /\ At(t, "poll")
      /\ th[t].job = "receipt"
      /\ r.hash # None
      /\ relay[r.hash] \in {"mined", "reverted"}
      /\ ProceedWith(r)
      /\ Finish(t)
      /\ UNCHANGED <<account, paperKeys, world, up, ui, alert, taps, toShow,
                     subscribed, dropped, budget>>

\* eth_getTransactionReceipt answers: nothing yet, success or failure.
PollReceipt(t) ==
  LET r == th[t].w
  IN  /\ At(t, "poll")
      /\ th[t].job = "receipt"
      /\ r.hash # None
      /\ \/ /\ relay[r.hash] \notin {"mined", "reverted"}
            /\ Goto(t, "loop")
            /\ UNCHANGED <<db, uiStale, pending, loops>>
         \/ /\ relay[r.hash] = "mined"
            /\ ProceedWith(r)
            /\ Finish(t)
         \/ /\ relay[r.hash] = "reverted"
            /\ CancelWith(r)
            /\ uiStale' = ScreenOpen
            /\ Finish(t)
      /\ UNCHANGED <<account, paperKeys, world, up, ui, alert, taps, toShow,
                     subscribed, dropped, budget>>

---------------------------------------------------------------------------
(* Failures *)

\* The threads that are inside a call to a remote service.
InCall(t) ==
  \/ At(t, "request")
  \/ At(t, "startCreation") /\ th[t].w.address # None
  \/ At(t, "notify")
  \/ /\ At(t, "poll")
     /\ IF th[t].job = "receipt" THEN th[t].w.hash # None
        ELSE th[t].w.address # None

\* A request to create the safe may reach the relay although its answer is lost.
LostAnswer(t) ==
  LET a == th[t].w.address
  IN  \/ UNCHANGED relay
      \/ /\ At(t, "startCreation") /\ relay[a] = "offered"
         /\ relay' = [relay EXCEPT ![a] = "requested"]

\* errorStream.post: the handler of an open screen hears of the error.
Post(v) == toShow' = IF ScreenOpen THEN toShow \cup {v} ELSE toShow

\* handleError on a network or client error: the state stays.  The screen offers
\* Refresh after a URL error and is left after the other ones.
NetworkError(t) ==
  /\ InCall(t)
  /\ budget.errors > 0
  /\ budget' = [budget EXCEPT !.errors = @ - 1]
  /\ LostAnswer(t)
  /\ Finish(t)
  /\ Post("error") \/ Post("failed")
  /\ UNCHANGED <<store, chain, up, ui, alert, taps, uiStale, subscribed,
                 pending, dropped>>

\* handleError on any other error cancels the handler's copy of the wallet.
FatalError(t) ==
  /\ InCall(t)
  /\ budget.errors > 0
  /\ budget' = [budget EXCEPT !.errors = @ - 1]
  /\ LostAnswer(t)
  /\ CancelWith(th[t].w)
  /\ Finish(t)
  /\ Post("failed")
  /\ UNCHANGED <<account, paperKeys, chain, up, ui, alert, taps, uiStale,
                 subscribed, dropped>>

\* wallet.address! or wallet.creationTransactionHash! of a copy that has none.
Traps(t) ==
  \/ At(t, "startCreation") /\ th[t].w.address = None
  \/ /\ At(t, "poll")
     /\ IF th[t].job = "receipt" THEN th[t].w.hash = None
        ELSE th[t].w.address = None

Trap(t) ==
  /\ Traps(t)
  /\ Down
  /\ UNCHANGED <<store, world, dropped, budget>>

Crash ==
  /\ up
  /\ budget.crashes > 0
  /\ budget' = [budget EXCEPT !.crashes = @ - 1]
  /\ Down
  /\ UNCHANGED <<store, world, dropped>>

\* A deployment in progress is shown as soon as the app is unlocked.
Launch ==
  /\ ~up
  /\ up' = TRUE
  /\ ui' = CASE db.state = "draft"      -> "setup"
              [] db.state = "readyToUse" -> "main"
              [] OTHER                   -> "closed"
  /\ UNCHANGED <<store, world, alert, taps, uiStale, toShow, subscribed,
                 pending, th, loops, dropped, budget>>

---------------------------------------------------------------------------
(* The relay service and the chain, as the code uses them *)

Deposit(a) ==
  /\ relay[a] # "unknown"
  /\ chain[a] < MinAmount
  /\ chain' = [chain EXCEPT ![a] = @ + 1]
  /\ UNCHANGED <<store, relay, up, screen, subscribed, pending, th, loops,
                 dropped, budget>>

RelaySubmits(a) ==
  /\ relay[a] = "requested"
  /\ chain[a] >= MinAmount
  /\ relay' = [relay EXCEPT ![a] = "submitted"]
  /\ UNCHANGED <<store, chain, up, screen, subscribed, pending, th, loops,
                 dropped, budget>>

Mined(a) ==
  /\ relay[a] = "submitted"
  /\ \/ relay' = [relay EXCEPT ![a] = "mined"]
     \/ MayRevert /\ relay' = [relay EXCEPT ![a] = "reverted"]
  /\ UNCHANGED <<store, chain, up, screen, subscribed, pending, th, loops,
                 dropped, budget>>

---------------------------------------------------------------------------
(* The specification *)

\* The steps of a thread that need nobody else.
Work(t) ==
  \/ Unsubscribe(t) \/ Subscribe(t) \/ ReadWallet(t) \/ Resume(t)
  \/ \E e \in Event : Begin(t, e)
  \/ \E a \in Addr : Request(t, a)
  \/ Proceed(t) \/ StartCreation(t) \/ NotifyCreated(t)
  \/ AddRepeater(t) \/ RunRepeater(t) \/ EndOfTurn(t) \/ Wake(t)
  \/ PollBalance(t) \/ StoreBalance(t) \/ PollHash(t) \/ PollReceipt(t)
  \/ AbortCancel(t) \/ AbortSave(t)
  \/ StopRepeater(t) \/ Trap(t)

User == \/ \E t \in Thread : OpenScreen(t) \/ Retry(t) \/ ConfirmAbort(t)
        \/ AskToAbort \/ DismissAlert \/ ConfirmFailure
        \/ Configure \/ PrepareForCreation

Outside == \E a \in Addr : Deposit(a) \/ RelaySubmits(a) \/ Mined(a)

Failure == Crash \/ \E t \in Thread : NetworkError(t) \/ FatalError(t)

Next ==
  \/ \E t \in Thread : Work(t)
  \/ HandleAborted \/ HandleCreationFailed \/ Launch
  \/ ReadState \/ \E v \in Shown : ShowState(v)
  \/ User \/ Outside \/ Failure

Spec == Init /\ [][Next]_vars

\* What the scheduler and a cooperating user provide: every thread, queue and
\* the main run loop keeps running, the app is launched again and its screen
\* opened, the address is paid and the network mines.
FairSpec ==
  /\ Spec
  /\ \A t \in Thread : WF_vars(Work(t))
  /\ WF_vars(HandleAborted)
  /\ WF_vars(HandleCreationFailed)
  /\ WF_vars(ReadState)
  /\ WF_vars(\E v \in Shown : ShowState(v))
  /\ WF_vars(Launch)
  /\ WF_vars(Configure)
  /\ WF_vars(\E t \in Thread : OpenScreen(t) \/ Retry(t))
  /\ \A a \in Addr : WF_vars(Deposit(a)) /\ WF_vars(RelaySubmits(a))
                     /\ WF_vars(Mined(a))

---------------------------------------------------------------------------
(* Correctness *)

WorkEvent == Event \ {"DeploymentAborted", "WalletCreationFailed"}

Busy(t) == th[t].pc # "idle"

Sent == {"submitted", "mined", "reverted"}

\* Past the deploying state there is an address, the relay has offered it, and
\* a creation hash belongs to that address and to a transaction the relay sent.
Whole(r, status) ==
  /\ r.state \notin {"draft", "deploying"} => r.address # None
  /\ r.address # None => status[r.address] # "unknown"
  /\ r.hash # None => /\ r.hash = r.address
                      /\ r.state \in {"finalizingDeployment", "readyToUse"}
                      /\ status[r.hash] \in Sent

\* A row is never torn, however many stale copies are saved over each other:
\* the stored wallet's state, address and hash always belong together
\* (Wallet's assertions on changeAddress and assignCreationTransaction).
RowIsWhole == Whole(db, relay)

\* A wallet that is ready to use exists on the chain: the stored row reaches
\* readyToUse only behind a successful receipt of its own creation transaction
\* (waitForCreationTransactionCompletion).
ReadyIsDeployed ==
  db.state = "readyToUse" =>
    /\ db.address # None
    /\ db.hash = db.address
    /\ relay[db.address] = "mined"

\* At most one handler of a deployment is running or dispatched: restarts after
\* a crash and retries after an error never put two of them to work on the same
\* row (start(), handleError and the enabling of Refresh taken together).
OneActivity ==
  /\ \A t, u \in Thread : Busy(t) /\ Busy(u) => t = u
  /\ \A e, f \in WorkEvent : pending[e] > 0 /\ pending[f] > 0 => e = f
  /\ \A e \in WorkEvent : pending[e] <= 1
  /\ (\E t \in Thread : Busy(t)) => \A e \in WorkEvent : pending[e] = 0

\* The relay is asked to create a safe only when the safe's own address holds
\* the payment (waitForFirstDeposit, waitForFunding and walletFunded).
PaidBeforeRequested ==
  \A a \in Addr :
    relay[a] \notin {"unknown", "offered"} => chain[a] >= MinAmount

\* The recovery keys leave the device only when the wallet they recover is
\* ready (walletCreated).
KeysKeptUntilDeployed == ~paperKeys => db.state = "readyToUse"

\* No handler unwraps an address or a hash that its copy of the wallet lacks.
NoTrap == \A t \in Thread : ~Traps(t)

\* The stored wallet goes through the abstract creation of a safe.
Abstract == INSTANCE SafeCreation WITH
              phase   <- db.state,
              address <- db.address,
              paid    <- {a \in Addr : chain[a] >= MinAmount},
              mined   <- {a \in Addr : relay[a] = "mined"}

\* Every step on the stored wallet is a step of SafeCreation: the address never
\* changes under way, no state is skipped or repeated and readyToUse is final
\* (the proceed(), cancel() and resume() of the wallet states).
ImplementsSafeCreation == Abstract!Spec

\* A deployment that was begun is finished, across crashes and restarts at any
\* point of any handler (resume() republishes what the last state published).
DeploymentCompletes ==
  InProgress(db.state) ~> db.state = "readyToUse"

\* "If you cancel, ... you won't be able to use this address": an address given
\* up in the abort alert never comes back into the stored wallet.
AbortedAddressStaysUnused == db.address \notin dropped

\* Starting twice does not make the service handle DeploymentStarted twice at
\* the same time.
NoDuplicateHandling ==
  \A t, u \in Thread : At(t, "request") /\ At(u, "request") => t = u

\* Once the wallet is created its paper keys are removed from the device.
PaperKeysRemoved == db.state = "readyToUse" ~> ~paperKeys

\* "Network error. Please retry later...": a deployment that nobody works on
\* can be resumed from the screen, by Refresh or as the screen opens.
RetryIsOffered ==
  up /\ InProgress(db.state) =>
    \/ \E t \in Thread : Busy(t)
    \/ \E e \in WorkEvent : pending[e] > 0
    \/ ui \in {"closed", "error"}
    \/ toShow \cap {"error", "failed"} # {}
=============================================================================
