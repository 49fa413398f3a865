------------------------ MODULE TransactionLifecycle ------------------------
(***************************************************************************)
(* A transaction from draft to receipt: the rows of tbl_transactions, the  *)
(* review screens, the background tasks that estimate, ask for a           *)
(* confirmation and submit, the messages of the browser extension that     *)
(* arrive on the main thread meanwhile, and the synchronisation loop that  *)
(* polls for receipts.                                                     *)
(*                                                                         *)
(* Every thread finds a row, works on its own copy across a network call   *)
(* and saves the whole copy (INSERT OR REPLACE).  One find and one save    *)
(* are atomic (the database serialises them); between them everybody else  *)
(* may run.  A main-thread handler is one action.                          *)
(*                                                                         *)
(* A hash is <<body, nonce>>: what is transferred and the nonce an         *)
(* estimate answered with.  The relay and the chain are external.  The     *)
(* relay accepts a hash once: the safe's nonce is consumed by it.  The     *)
(* extension's messages may be delivered late, twice, in any order or      *)
(* never, so what may be received is not kept as state: any decision about *)
(* a hash that was ever asked for, and any transaction it proposes.        *)
(***************************************************************************)
EXTENDS Integers, FiniteSets

CONSTANTS Ids,            \* transaction ids
          NoId,
          OwnBodies,      \* what the user may want to transfer
          SentBodies,     \* what the extension may propose
          Nonces,
          NoHash,
          HasExtension,   \* a browser extension is an owner
          Tasks,          \* background tasks that may run at a time
          Pollers,        \* synchronisation loops
          MaxScreens,     \* bound: review screens opened per launch
          MaxCrashes,     \* bound: how often the process is killed
          MaxLost         \* bound: answers of the relay that get lost

ASSUME LifecycleAssumption ==
    /\ NoId \notin Ids
    /\ OwnBodies # {}
    /\ HasExtension \in BOOLEAN
    /\ MaxScreens \in Nat /\ MaxCrashes \in Nat /\ MaxLost \in Nat
    /\ NoHash \notin (OwnBodies \cup SentBodies) \X Nonces

VARIABLES rows,      \* tbl_transactions
          review,    \* the review screens of this launch, open or popped
          opened,    \* how many of them there are
          top,       \* the one on top of the navigation stack, or 0
          input,     \* the id the send screen under it remembers
          tasks,     \* the background tasks of the review screens
          poll,      \* rows a synchronisation loop still has to look at
          asked,     \* hashes the extension was asked to confirm
          relay,     \* submissions the relay accepted
          receipts,  \* what the chain says of a hash
          trap,      \* history: the assertion the process last died of
          resets,    \* history: the transactions that were reset
          crashes, lost

ui == <<review, opened, top, input>>
outside == <<relay, receipts>>
counters == <<trap, resets, crashes, lost>>
vars == <<rows, ui, tasks, poll, asked, outside, counters>>

Bodies == OwnBodies \cup SentBodies
Hashes == Bodies \X Nonces
Screens == 1 .. MaxScreens
Processed == {"success", "failed"}
Sent == {"pending"} \cup Processed
Statuses == {"draft", "signing", "rejected", "discarded"} \cup Sent
Gone == {"absent", "removed"}

-----------------------------------------------------------------------------
(* The transaction.  A signature is the key that made it and the hash it   *)
(* is over; the address the code files it under is the device's for its    *)
(* own and the extension's for every signature that came in a message.     *)

Keys == {"device", "extension", "other"}
Signature(key, hash) == [key |-> key, over |-> hash]
Signatures == [key : Keys, over : Hashes \cup {NoHash}]

Rows == [status : Statuses \cup Gone, body : Bodies, hash : Hashes \cup {NoHash},
         est : BOOLEAN, sigs : SUBSET Signatures, sub : Hashes \cup {NoHash}]

AbsentRow == [status |-> "absent", body |-> CHOOSE b \in Bodies : TRUE,
              hash |-> NoHash, est |-> FALSE, sigs |-> {}, sub |-> NoHash]
Draft(b) == [AbsentRow EXCEPT !.status = "draft", !.body = b]

SignedByDevice(tx) == \E s \in tx.sigs : s.key = "device"
SignedByExtension(tx) == \E s \in tx.sigs : s.key /= "device"
ConfirmationCount == IF HasExtension THEN 2 ELSE 1

\* transactionHasEnoughSignaturesToSubmit
Enough(tx) == Cardinality(tx.sigs) >= ConfirmationCount - 1

\* Transaction.add(signature:), where the status lets it.
CanSign(tx) == tx.status \in {"draft", "signing"}
Signed(tx, key, hash) == [tx EXCEPT !.sigs = @ \cup {Signature(key, hash)}]

\* updateTransaction(_:withFeeEsimate:nonce:), on a draft.
Estimated(tx, nonce) ==
    [tx EXCEPT !.est = TRUE, !.hash = <<tx.body, nonce>>, !.status = "signing"]

\* set(hash:).proceed(), where the status lets it.
Submitted(tx) ==
    [tx EXCEPT !.sub = tx.hash, !.status = IF @ = "draft" THEN "signing" ELSE "pending"]

CanReset(tx) == tx.status \in {"rejected", "discarded"}

\* reset() of a rejected or discarded one, then change(fee:) and change(feeEstimate:).
WasReset(tx) ==
    [tx EXCEPT !.status = "draft", !.est = FALSE, !.sigs = {}, !.sub = NoHash]

DefaultStatus == IF HasExtension THEN "waiting" ELSE "ready"

\* WalletApplicationService.status(of:).
StatusOf(tx) ==
    CASE tx.status = "draft" -> DefaultStatus
      [] tx.status = "signing" ->
            IF HasExtension /\ Cardinality(tx.sigs) = 1 /\ SignedByExtension(tx)
            THEN "ready" ELSE DefaultStatus
      [] OTHER -> tx.status
ScreenStatuses == (Statuses \ {"draft", "signing"}) \cup {"waiting", "ready"}

-----------------------------------------------------------------------------
(* The process.                                                            *)

NoScreen == [tx |-> NoId, st |-> "waiting", shown |-> CHOOSE b \in Bodies : TRUE,
             enabled |-> FALSE, fee |-> FALSE, waiting |-> FALSE, unlocking |-> FALSE]
IdleTask == [pc |-> "idle", vc |-> 0, action |-> "request", id |-> NoId,
             copy |-> AbsentRow, st |-> "waiting"]
NoPoll == [i \in Ids |-> AbsentRow]

Positions == {"idle", "start", "estimating", "estimated", "act", "notifying",
              "relaying", "accepted", "acted", "showing", "failed"}

TypeOK ==
    /\ rows \in [Ids -> Rows]
    /\ review \in [Screens ->
          [tx : Ids \cup {NoId}, st : ScreenStatuses, shown : Bodies, enabled : BOOLEAN,
           fee : BOOLEAN, waiting : BOOLEAN, unlocking : BOOLEAN]]
    /\ opened \in 0 .. MaxScreens
    /\ top \in {0, opened}
    /\ input \in Ids \cup {NoId}
    /\ tasks \in [Tasks ->
          [pc : Positions, vc : 0 .. MaxScreens, action : {"request", "submit"},
           id : Ids \cup {NoId}, copy : Rows, st : ScreenStatuses]]
    /\ poll \in [Pollers -> [Ids -> Rows]]
    /\ asked \subseteq Hashes
    /\ relay \subseteq [id : Ids, hash : Hashes, sigs : SUBSET Signatures, shown : Bodies]
    /\ receipts \in [Hashes -> {"none"} \cup Processed]
    /\ trap \in {"none", "find", "hash", "reset", "sign", "unsigned", "setHash"}
    /\ resets \subseteq Ids
    /\ crashes \in 0 .. MaxCrashes
    /\ lost \in 0 .. MaxLost

Init ==
    /\ rows = [i \in Ids |-> AbsentRow]
    /\ review = [v \in Screens |-> NoScreen]
    /\ opened = 0 /\ top = 0 /\ input = NoId
    /\ tasks = [k \in Tasks |-> IdleTask]
    /\ poll = [p \in Pollers |-> NoPoll]
    /\ asked = {}
    /\ relay = {}
    /\ receipts = [h \in Hashes |-> "none"]
    /\ trap = "none" /\ resets = {} /\ crashes = 0 /\ lost = 0

\* The process ends and is launched again: only the rows survive.
Restarted ==
    /\ review' = [v \in Screens |-> NoScreen]
    /\ opened' = 0 /\ top' = 0 /\ input' = NoId
    /\ tasks' = [k \in Tasks |-> IdleTask]
    /\ poll' = [p \in Pollers |-> NoPoll]

\* A failed precondition, forced unwrapping or try! ends the process.
Trap(name) ==
    /\ trap' = name
    /\ Restarted
    /\ UNCHANGED <<rows, asked, outside, resets, crashes, lost>>

Crash ==
    /\ crashes < MaxCrashes
    /\ crashes' = crashes + 1
    /\ Restarted
    /\ UNCHANGED <<rows, asked, outside, trap, resets, lost>>

-----------------------------------------------------------------------------
(* Main thread: the send screen and the review screen.                     *)

Fresh(i) == rows[i].status = "absent"
Free(k) == tasks[k].pc = "idle"

\* A review screen for transaction i is pushed; viewDidAppear schedules the
\* first request for signatures.
Opens(i, tx) ==
    /\ opened < MaxScreens
    /\ opened' = opened + 1
    /\ top' = opened + 1
    /\ review' = [review EXCEPT ![opened + 1] =
          [NoScreen EXCEPT !.tx = i, !.st = StatusOf(tx), !.shown = tx.body, !.waiting = TRUE]]

\* performTransactionConfirmationsRequestAction: disable, go to a global queue.
Spawns(v, action) ==
    \E k \in Tasks :
        /\ Free(k)
        /\ tasks' = [tasks EXCEPT ![k] = [IdleTask EXCEPT
                        !.pc = "start", !.vc = v, !.action = action]]

\* SendInputViewController.proceedToSigning.
ProceedToSigning(i, b) ==
    /\ top = 0 /\ Fresh(i)
    /\ rows' = [rows EXCEPT ![i] = Draft(b)]
    /\ Opens(i, Draft(b))
    /\ input' = i
    /\ UNCHANGED <<tasks, poll, asked, outside, counters>>

\* The back button of the review screen.  Only running tasks keep it then.
InUse(v) == \E k \in Tasks : tasks[k].pc /= "idle" /\ tasks[k].vc = v
Back ==
    /\ top /= 0 /\ ~review[top].unlocking
    /\ top' = 0
    /\ review' = IF InUse(top) THEN review ELSE [review EXCEPT ![top] = NoScreen]
    /\ UNCHANGED <<rows, opened, input, tasks, poll, asked, outside, counters>>

\* The send screen is popped: willBeRemoved, removeDraftTransaction.
LeaveInput ==
    /\ top = 0 /\ input /= NoId
    /\ rows' = [rows EXCEPT ![input].status = IF @ = "draft" THEN "removed" ELSE @]
    /\ input' = NoId
    /\ UNCHANGED <<review, opened, top, tasks, poll, asked, outside, counters>>

\* Faulty variant: a running task does not disable the button.
AlwaysTappable(v) == v /= 0 /\ v = top /\ ~review[v].unlocking

\* The submit button can be tapped.
Tappable(v) == /\ v /= 0
               /\ v = top
               /\ review[v].enabled
               /\ ~review[v].unlocking

\* submit() of a rejected transaction: resetTransaction, doRequest.
TapRejected(v) ==
    /\ Tappable(v) /\ review[v].st = "rejected"
    /\ LET i == review[v].tx
       IN  IF CanReset(rows[i])
           THEN /\ rows' = [rows EXCEPT ![i] = WasReset(@)]
                /\ Spawns(v, "request")
                /\ review' = [review EXCEPT ![v].enabled = FALSE]
                /\ resets' = resets \cup {i}
                /\ UNCHANGED <<opened, top, input, poll, asked, outside, trap, crashes, lost>>
           ELSE Trap("reset")

\* submit() of a confirmed one: TransactionSubmissionHandler lets an
\* authenticated user through and shows the unlock screen to others.
TapReady(v) ==
    /\ Tappable(v) /\ review[v].st = "ready"
    /\ \/ /\ Spawns(v, "submit")
          /\ review' = [review EXCEPT ![v].enabled = FALSE]
       \/ /\ review' = [review EXCEPT ![v].unlocking = TRUE]
          /\ UNCHANGED tasks
    /\ UNCHANGED <<rows, opened, top, input, poll, asked, outside, counters>>

\* The unlock screen is dismissed, with success or by "cancel".
Unlocked(v) ==
    /\ review[v].unlocking
    /\ \/ /\ Spawns(v, "submit")
          /\ review' = [review EXCEPT ![v].unlocking = FALSE, ![v].enabled = FALSE]
       \/ /\ review' = [review EXCEPT ![v].unlocking = FALSE]
          /\ UNCHANGED tasks
    /\ UNCHANGED <<rows, opened, top, input, poll, asked, outside, counters>>

\* submit() otherwise: an alert; "resend" goes through the scheduler, which
\* holds one operation.
TapResend(v) ==
    /\ Tappable(v) /\ review[v].st \notin {"rejected", "ready"}
    /\ ~review[v].waiting
    /\ review' = [review EXCEPT ![v].waiting = TRUE]
    /\ UNCHANGED <<rows, opened, top, input, tasks, poll, asked, outside, counters>>

\* The scheduler's operation runs doRequest, unless the screen is gone.
ScheduledRequest(v) ==
    /\ review[v].waiting
    /\ IF v = top \/ InUse(v)
       THEN /\ Spawns(v, "request")
            /\ review' = [review EXCEPT ![v].waiting = FALSE, ![v].enabled = FALSE]
       ELSE /\ review' = [review EXCEPT ![v] = NoScreen]
            /\ UNCHANGED tasks
    /\ UNCHANGED <<rows, opened, top, input, poll, asked, outside, counters>>

-----------------------------------------------------------------------------
(* Main thread: messages of the browser extension.                         *)

\* Faulty variant: the signer is not compared with the owner.
AnySender(key) == HasExtension /\ key \in Keys

\* The message's signature recovers to the extension that is an owner.
SenderIsExtension(key) == HasExtension /\ key = "extension"

\* MainFlowCoordinator.receive: whatever transaction the message is about
\* becomes the transaction of the review screen on top, if there is one.
Delivered(i, tx) ==
    IF top /= 0
    THEN /\ review' = [review EXCEPT ![top].tx = i, ![top].st = StatusOf(tx),
                                     ![top].enabled = review[top].fee]
         /\ UNCHANGED <<opened, top>>
    ELSE IF tx.status /= "rejected"
    THEN Opens(i, tx)
    ELSE UNCHANGED <<review, opened, top>>

\* find(hash:status: .signing)
FoundSigning(i, h) == rows[i].hash = h /\ rows[i].status = "signing"

\* handle(message: TransactionConfirmedMessage)
ReceiveConfirmed(h, key) ==
    /\ SenderIsExtension(key) /\ (key = "extension" => h \in asked)
    /\ \E i \in Ids :
          /\ FoundSigning(i, h)
          /\ rows' = [rows EXCEPT ![i] = Signed(@, key, h)]
          /\ Delivered(i, Signed(rows[i], key, h))
    /\ UNCHANGED <<input, tasks, poll, asked, outside, counters>>

\* handle(message: TransactionRejectedMessage)
ReceiveRejected(h, key) ==
    /\ SenderIsExtension(key) /\ (key = "extension" => h \in asked)
    /\ \E i \in Ids :
          /\ FoundSigning(i, h)
          /\ rows' = [rows EXCEPT ![i].status = "rejected"]
          /\ Delivered(i, [rows[i] EXCEPT !.status = "rejected"])
    /\ UNCHANGED <<input, tasks, poll, asked, outside, counters>>

\* handle(message: SendTransactionMessage), for a hash no row has yet.
\* A message of somebody else leaves no row behind.
ReceiveNew(i, h, key) ==
    /\ SenderIsExtension(key)
    /\ \A j \in Ids : rows[j].status \in Gone \/ rows[j].hash /= h
    /\ Fresh(i)
    /\ LET tx == Signed(Estimated(Draft(h[1]), h[2]), key, h)
       IN  rows' = [rows EXCEPT ![i] = tx] /\ Delivered(i, tx)
    /\ UNCHANGED <<input, tasks, poll, asked, outside, counters>>

\* The same message for a hash that is known: only one in signing is shown.
ReceiveKnown(h) ==
    /\ \E i \in Ids : FoundSigning(i, h) /\ Delivered(i, rows[i])
    /\ UNCHANGED <<rows, input, tasks, poll, asked, outside, counters>>

-----------------------------------------------------------------------------
(* Background tasks: estimateTransactionIfNeeded, then the task's action.  *)

At(k, pc) == tasks[k].pc = pc
Goes(k, pc) == tasks' = [tasks EXCEPT ![k].pc = pc]
TransactionOf(k) == review[tasks[k].vc].tx       \* self.tx.id
Missing(i) == rows[i].status \in Gone
UnchangedForTask == UNCHANGED <<ui, poll, outside, counters>>

\* The task has what the service returned and will assign it to self.tx.
Returns(k, pc, i, tx) ==
    tasks' = [tasks EXCEPT ![k].pc = pc, ![k].id = i, ![k].copy = AbsentRow,
                           ![k].st = StatusOf(tx)]

\* The task found a row and waits for the network with its copy of it.
Waits(k, pc, i, tx) ==
    tasks' = [tasks EXCEPT ![k].pc = pc, ![k].id = i, ![k].copy = tx]

TaskStart(k) ==
    /\ At(k, "start")
    /\ LET i == TransactionOf(k)
       IN  IF Missing(i) THEN Trap("find")
           ELSE /\ IF rows[i].est THEN Returns(k, "estimated", i, rows[i])
                                  ELSE Waits(k, "estimating", i, rows[i])
                /\ UnchangedForTask /\ UNCHANGED <<rows, asked>>

\* The relay answers; the copy is changed, proceeds to signing and is saved.
EstimateAnswers(k, n) ==
    /\ At(k, "estimating")
    /\ LET tx == Estimated(tasks[k].copy, n)
       IN  /\ rows' = [rows EXCEPT ![tasks[k].id] = tx]
           /\ Returns(k, "estimated", tasks[k].id, tx)
    /\ UnchangedForTask /\ UNCHANGED asked

\* self.tx = ..., on the background thread.
AssignsTx(k, from, to) ==
    /\ At(k, from)
    /\ review' = [review EXCEPT ![tasks[k].vc].tx = tasks[k].id,
                                ![tasks[k].vc].st = tasks[k].st]
    /\ Goes(k, to)
    /\ UNCHANGED <<rows, opened, top, input, poll, asked, outside, counters>>
TaskEstimated(k) == AssignsTx(k, "estimated", "act")
TaskActed(k) == AssignsTx(k, "acted", "showing")

\* requestTransactionConfirmationIfNeeded, up to the notification.
ActRequest(k) ==
    /\ At(k, "act") /\ tasks[k].action = "request"
    /\ LET i == TransactionOf(k)
       IN  CASE Missing(i) -> Trap("find")
             [] ~Missing(i) /\ ~Enough(rows[i]) /\ rows[i].hash = NoHash -> Trap("hash")
             [] OTHER -> /\ IF Enough(rows[i]) THEN Returns(k, "acted", i, rows[i])
                                               ELSE Waits(k, "notifying", i, rows[i])
                         /\ UnchangedForTask /\ UNCHANGED <<rows, asked>>

\* signTransaction: on the copy, which goes to the relay and is not saved yet.
Signs(k, i, tx) ==
    CASE HasExtension /\ ~SignedByExtension(tx) -> Trap("unsigned")
      [] ~SignedByDevice(tx) /\ ~CanSign(tx) -> Trap("sign")
      [] OTHER ->
           /\ Waits(k, "relaying", i,
                    IF SignedByDevice(tx) THEN tx ELSE Signed(tx, "device", tx.hash))
           /\ UnchangedForTask /\ UNCHANGED rows

\* submitTransaction: a draft is sent for confirmation first.
ActSubmit(k) ==
    /\ At(k, "act") /\ tasks[k].action = "submit"
    /\ LET i == TransactionOf(k)
           request == rows[i].status = "draft" /\ ~Enough(rows[i])
       IN  CASE Missing(i) -> Trap("find")
             [] ~Missing(i) /\ request /\ rows[i].hash = NoHash -> Trap("hash")
             [] OTHER -> /\ IF request
                            THEN /\ Waits(k, "notifying", i, rows[i])
                                 /\ UnchangedForTask /\ UNCHANGED rows
                            ELSE Signs(k, i, rows[i])
                         /\ UNCHANGED asked

\* The notification service accepted the request; the row is read again.
NotifyAnswers(k) ==
    /\ At(k, "notifying")
    /\ LET i == tasks[k].id
       IN  IF Missing(i) THEN Trap("find")
           ELSE /\ asked' = asked \cup {tasks[k].copy.hash}
                /\ IF tasks[k].action = "request"
                   THEN /\ Returns(k, "acted", i, rows[i])
                        /\ UnchangedForTask /\ UNCHANGED rows
                   ELSE Signs(k, i, rows[i])

\* A network call throws.  The other side may have got the request.
TaskThrows(k) ==
    /\ tasks[k].pc \in {"estimating", "notifying", "relaying"}
    /\ Goes(k, "failed")
    /\ asked' \in {asked} \cup
          (IF At(k, "notifying") THEN {asked \cup {tasks[k].copy.hash}} ELSE {})
    /\ UNCHANGED rows /\ UnchangedForTask

RelayAccepts(k) ==
    /\ At(k, "relaying")
    /\ \A s \in relay : s.hash /= tasks[k].copy.hash
    /\ relay' = relay \cup {[id |-> tasks[k].id, hash |-> tasks[k].copy.hash,
                             sigs |-> tasks[k].copy.sigs, shown |-> review[tasks[k].vc].shown]}
    /\ Goes(k, "accepted")
    /\ UNCHANGED <<rows, ui, poll, asked, receipts, counters>>

\* proceedTransaction: the copy becomes pending and replaces the row.
RelayAnswers(k) ==
    /\ At(k, "accepted")
    /\ LET tx == Submitted(tasks[k].copy)
       IN  IF CanSign(tasks[k].copy)
           THEN /\ rows' = [rows EXCEPT ![tasks[k].id] = tx]
                /\ Returns(k, "acted", tasks[k].id, tx)
                /\ UnchangedForTask /\ UNCHANGED asked
           ELSE Trap("setHash")

RelayAnswerLost(k) ==
    /\ At(k, "accepted") /\ lost < MaxLost
    /\ lost' = lost + 1
    /\ Goes(k, "failed")
    /\ UNCHANGED <<rows, ui, poll, asked, outside, trap, resets, crashes>>

\* The end of the task, on the main thread: leave a submitted transaction's
\* screen, or show its status; hasUpdatedFee enables the button.
TaskShows(k) ==
    /\ At(k, "showing")
    /\ LET v == tasks[k].vc
           finished == review[v].st \in Sent \cup {"discarded"}
       IN  /\ review' = [review EXCEPT ![v].fee = TRUE, ![v].enabled = TRUE]
           /\ top' = IF finished THEN 0 ELSE top
           /\ input' = IF finished /\ review[v].shown \in OwnBodies THEN NoId ELSE input
    /\ tasks' = [tasks EXCEPT ![k] = IdleTask]
    /\ UNCHANGED <<rows, opened, poll, asked, outside, counters>>

\* The catch: an error message, and the button is enabled.
TaskFailed(k) ==
    /\ At(k, "failed")
    /\ review' = [review EXCEPT ![tasks[k].vc].enabled = TRUE]
    /\ tasks' = [tasks EXCEPT ![k] = IdleTask]
    /\ UNCHANGED <<rows, opened, top, input, poll, asked, outside, counters>>

-----------------------------------------------------------------------------
(* The synchronisation loop and the chain.                                 *)

\* The snapshot of updatePendingTransactions, or of the timestamp pass.
PollBegins(p, statuses) ==
    /\ poll[p] = NoPoll
    /\ poll' = [poll EXCEPT ![p] =
          [i \in Ids |-> IF rows[i].status \in statuses THEN rows[i] ELSE AbsentRow]]
    /\ UNCHANGED <<rows, ui, tasks, asked, outside, counters>>

\* Faulty variant: a receipt is taken for success.
PollExpectsSuccess(p, i) ==
    LET copy == poll[p][i]
    IN  /\ copy.status /= "absent"
        /\ poll' = [poll EXCEPT ![p][i] = AbsentRow]
        /\ rows' = IF receipts[copy.sub] = "none" THEN rows
                   ELSE [rows EXCEPT ![i] = [copy EXCEPT !.status = "success"]]
        /\ UNCHANGED <<ui, tasks, asked, outside, counters>>

\* One turn of the loop: no receipt, or the copy is updated and saved.
PollLooks(p, i) ==
    LET copy == poll[p][i]
        outcome == receipts[copy.sub]
    IN  /\ copy.status /= "absent"
        /\ poll' = [poll EXCEPT ![p][i] = AbsentRow]
        /\ rows' = IF outcome = "none" THEN rows
                   ELSE [rows EXCEPT ![i] = [copy EXCEPT !.status = outcome]]
        /\ UNCHANGED <<ui, tasks, asked, outside, counters>>

\* The node's answer throws: the loop is left, the rest waits for the next.
PollThrows(p) ==
    /\ poll[p] /= NoPoll
    /\ poll' = [poll EXCEPT ![p] = NoPoll]
    /\ UNCHANGED <<rows, ui, tasks, asked, outside, counters>>

\* A submitted transaction is mined.
Mine(h, outcome) ==
    /\ receipts[h] = "none"
    /\ \E s \in relay : s.hash = h
    /\ receipts' = [receipts EXCEPT ![h] = outcome]
    /\ UNCHANGED <<rows, ui, tasks, poll, asked, relay, counters>>

-----------------------------------------------------------------------------

UserStep ==
    \/ \E i \in Ids, b \in OwnBodies : ProceedToSigning(i, b)
    \/ Back
    \/ LeaveInput
    \/ \E v \in Screens : TapRejected(v) \/ TapReady(v) \/ Unlocked(v) \/ TapResend(v)

MessageStep ==
    \E key \in {"extension", "other"} :
        \/ \E h \in Hashes : ReceiveConfirmed(h, key) \/ ReceiveRejected(h, key)
        \/ \E i \in Ids, h \in SentBodies \X Nonces : ReceiveNew(i, h, key)
        \/ \E h \in SentBodies \X Nonces : ReceiveKnown(h)

TaskStep(k) ==
    \/ TaskStart(k) \/ TaskEstimated(k) \/ ActRequest(k) \/ ActSubmit(k)
    \/ TaskActed(k) \/ TaskShows(k) \/ TaskFailed(k) \/ TaskThrows(k)
    \/ NotifyAnswers(k) \/ RelayAccepts(k) \/ RelayAnswers(k) \/ RelayAnswerLost(k)
    \/ \E n \in Nonces : EstimateAnswers(k, n)

PollStep(p) ==
    \/ PollBegins(p, {"pending"})
    \/ PollBegins(p, Processed)
    \/ PollThrows(p)
    \/ \E i \in Ids : PollLooks(p, i)

Next ==
    \/ UserStep
    \/ MessageStep
    \/ Crash
    \/ \E v \in Screens : ScheduledRequest(v)
    \/ \E k \in Tasks : TaskStep(k)
    \/ \E p \in Pollers : PollStep(p)
    \/ \E h \in Hashes, outcome \in Processed : Mine(h, outcome)

Spec == Init /\ [][Next]_vars

\* What is submitted gets mined; the loop comes round again while the app is
\* in the foreground; and the node answers for a transaction again and again.
\* Nothing is assumed of the user, the extension or the relay.
Fairness ==
    /\ \A h \in Hashes : WF_vars(\E outcome \in Processed : Mine(h, outcome))
    /\ \A p \in Pollers :
          /\ SF_vars(PollBegins(p, {"pending"}))
          /\ \A i \in Ids : SF_vars(PollLooks(p, i))
FairSpec == Spec /\ Fairness

-----------------------------------------------------------------------------
(* Properties.                                                             *)

\* What reaches the relay carries the device's signature and, when the
\* extension is an owner, the extension's, each over the very hash that is
\* submitted: no stale signature of an earlier estimate, no foreign one.
SubmissionsAreConfirmed ==
    \A s \in relay :
        /\ \A g \in s.sigs : g.over = s.hash /\ g.key /= "other"
        /\ \E g \in s.sigs : g.key = "device"
        /\ HasExtension => \E g \in s.sigs : g.key = "extension"

\* What the list shows as pending, successful or failed was accepted by the
\* relay under the row's hash, and a final status is the chain's.
OutcomeIsTrue ==
    \A i \in Ids : rows[i].status \in Sent =>
        /\ rows[i].sub = rows[i].hash
        /\ \E s \in relay : s.hash = rows[i].sub
        /\ rows[i].status \in Processed => receipts[rows[i].sub] = rows[i].status

\* While the process lives and no answer was lost, what the relay accepted is
\* in the list, or its task still holds the answer: no stale copy that another
\* thread saves takes it out.  Not so for a transaction that was reset after a
\* rejection: see PendingIsImmutable.
AcceptedIsRecorded ==
    crashes = 0 /\ lost = 0 /\ trap = "none" =>
        \A s \in relay : s.id \notin resets =>
            \/ rows[s.id].status \in Sent /\ rows[s.id].sub = s.hash
            \/ \E k \in Tasks : At(k, "accepted") /\ tasks[k].copy.hash = s.hash

\* A final status stays: neither a second submission's late save nor another
\* loop's copy of the pending row changes it (if the transaction was not reset).
FinalStaysFinal ==
    [][\A i \in Ids \ resets : rows[i].status \in Processed => rows'[i] = rows[i]]_vars

\* A pending transaction gets its outcome: errors of the node, crashes and
\* other transactions in the same loop only delay it.
PendingIsResolved ==
    \A i \in Ids : (rows[i].status = "pending") ~> (rows[i].status \in Processed)

\* A submitted transaction's parameters are immutable ("Transaction parameters
\* are immutable"): a pending row only becomes final.
PendingIsImmutable ==
    [][\A i \in Ids : rows[i].status = "pending" =>
            /\ rows'[i].status \in Sent
            /\ rows'[i].hash = rows[i].hash /\ rows'[i].sigs = rows[i].sigs]_vars

\* A transaction that was rejected is not submitted ("may not be submitted to
\* blockchain"): the row only leaves the status by a reset.
RejectedIsNotSubmitted ==
    [][\A i \in Ids : rows[i].status = "rejected" =>
            rows'[i].status \in {"rejected", "draft"}]_vars

\* The screen shows the transaction that its submit button submits.
ShownIsSubmitted == \A s \in relay : s.shown = s.hash[1]

\* reset() is only called on a rejected or discarded transaction.
ResetIsLegal == trap /= "reset"

\* A signature is only added while the status allows it.
SigningIsLegal == trap /= "sign"

\* A loaded review screen with nothing under way can be submitted.
SubmitEnabledWhenIdle ==
    (/\ top /= 0
     /\ ~review[top].waiting
     /\ ~InUse(top))
        => review[top].enabled

=============================================================================
