-------------------------- MODULE OwnerModification --------------------------
(***************************************************************************)
(* Replacing, connecting and disconnecting the browser extension: the      *)
(* three flows from the menu to the submission, and the synchronisation    *)
(* loop that takes the outcome over into the wallet row.                   *)
(*                                                                         *)
(* Who does what: the main thread runs the screens and, blocking them, the *)
(* calls that sign with the recovery phrase; a scanned code and the review *)
(* screen run on global queues; the loop is a thread of its own; a thread  *)
(* started at launch removes stale transactions.  All of them find a row,  *)
(* work on a copy and save the whole copy.  A step ends at a network call; *)
(* what happens between two calls is one action.                           *)
(*                                                                         *)
(* External: the contract, of which its extension matters (the threshold   *)
(* is 2 when there is one, else 1), the relay, which accepts transactions  *)
(* in the order of their nonces and only when every signature is over what *)
(* is submitted, and the notification service's set of pairs.              *)
(***************************************************************************)
EXTENDS Integers, Sequences

CONSTANTS Ids,           \* transaction ids
          NoId,
          Exts,          \* browser extensions
          NoExt,
          First,         \* the extension at the beginning, or NoExt
          Tasks,         \* background tasks of the screens
          Impatient,     \* the user leaves a screen while its task is running
          MaxFlows,      \* bound: flows the user opens
          MaxScans,      \* bound: codes the user scans
          MaxCrashes,    \* bound: how often the process is killed
          MaxFailedReads,\* bound: failed reads of the contract's owners
          MaxChoices     \* bound: changes of the fee token

ASSUME ModificationAssumption ==
    /\ NoId \notin Ids
    /\ NoExt \notin Exts /\ First \in Exts \cup {NoExt}
    /\ Impatient \in BOOLEAN
    /\ {MaxFlows, MaxScans, MaxCrashes, MaxFailedReads, MaxChoices} \subseteq Nat

VARIABLES rows,      \* the flows' transactions in tbl_transactions
          monitor,   \* the monitor entries, by date
          wallet,    \* the wallet row: extension, confirmation count, fee token
          flow,      \* the screen on top, the kind of flow and its transaction
          main,      \* the signing that blocks the main thread
          tasks,     \* scanned codes and submissions under way
          loop,      \* the post-processing round
          cleanup,   \* the launch has stale transactions to remove
          contract,  \* the extension among the contract's owners
          relay,     \* accepted transactions, in the order of their nonces
          receipts,  \* outcomes, for the mined ones
          pairs,     \* extensions the notification service pairs with
          held,      \* history: extensions the contract has had
          chosen,    \* history: how often the fee token was chosen
          trap,      \* history: the assertion the process last died of
          flows, scans, crashes, failedReads

db == <<rows, monitor, wallet>>
outside == <<contract, relay, receipts, pairs, held>>
budgets == <<flows, scans, crashes, failedReads>>
vars == <<db, flow, main, tasks, loop, cleanup, outside, chosen, trap, budgets>>

Kinds == {"replace", "connect", "disconnect"}
Services == <<"replace", "connect", "disconnect">>
Processed == {"success", "failed"}
Statuses == {"absent", "draft", "signing", "pending", "removed"} \cup Processed
MaxNonce == MaxFlows + 2      \* bound: one more than the relay accepts

-----------------------------------------------------------------------------
(* The transaction.  Its data is nil, a dummy for the first estimate, or a *)
(* call that takes one extension out and puts another in.  A signature is  *)
(* what it is over; h in sigs stands for both keys of the phrase, or for   *)
(* the device's own signature of a connection.                             *)

AnyExt == Exts \cup {NoExt}
NilData == [op |-> "nil", old |-> NoExt, new |-> NoExt]
DummyData == [op |-> "dummy", old |-> NoExt, new |-> NoExt]
Call(old, new) == [op |-> "call", old |-> old, new |-> new]
Data == [op : {"nil", "dummy", "call"}, old : AnyExt, new : AnyExt]

HashOf(tx) == <<tx.data, tx.nonce>>
Hashes == Data \X (0 .. MaxNonce)
Rows == [status : Statuses, kind : Kinds, data : Data, nonce : 0 .. MaxNonce,
         sigs : SUBSET Hashes, sub : 0 .. MaxNonce]
NoRow == [status |-> "absent", kind |-> "replace", data |-> NilData, nonce |-> 0,
          sigs |-> {}, sub |-> 0]

Missing(i) == rows[i].status \in {"absent", "removed"}

\* stepBackToDraft: the signatures stay.
SteppedBack(tx) == IF tx.status = "signing" THEN [tx EXCEPT !.status = "draft"] ELSE tx

\* assertCanChangeParameters
Editable(tx) == tx.status = "draft"

\* The relay's nextNonce.
NextNonce == Len(relay) + 1

\* set(hash:).proceed()
Submitted(tx) ==
    [tx EXCEPT !.sub = tx.nonce, !.status = IF @ = "draft" THEN "signing" ELSE "pending"]

IsAvailable(kind) == (kind = "connect") <=> (wallet.ext = NoExt)

-----------------------------------------------------------------------------
(* The process.                                                            *)

NoTask == [pc |-> "idle", kind |-> "replace", id |-> NoId, ext |-> NoExt,
           action |-> "request", copy |-> NoRow, left |-> FALSE]
NoFlow == [screen |-> "menu", kind |-> "replace", id |-> NoId]
IdleMain == [pc |-> "idle", copy |-> NoRow]
NoWallet == [ext |-> NoExt, count |-> 1, fee |-> 0]
Resting == [pc |-> "idle", svc |-> 1, todo |-> <<>>, tx |-> NoRow, copy |-> NoWallet]

Free(k) == tasks[k].pc = "idle"
MainIsIdle == main.pc = "idle"

TypeOK ==
    /\ rows \in [Ids -> Rows]
    /\ monitor \in Seq(Ids)
    /\ wallet \in [ext : AnyExt, count : {1, 2}, fee : 0 .. MaxChoices]
    /\ flow \in [screen : {"menu", "loading", "estimating", "ready", "pair", "phrase", "review"},
                 kind : Kinds, id : Ids \cup {NoId}]
    /\ main \in [pc : {"idle", "reading", "estimating", "checking"}, copy : Rows]
    /\ tasks \in [Tasks ->
          [pc : {"idle", "validating", "unpairing", "pairing", "reading", "paired",
                 "start", "estimating", "act", "relaying", "accepted", "acted", "failed"},
           kind : Kinds, id : Ids \cup {NoId}, ext : AnyExt,
           action : {"request", "submit"}, copy : Rows, left : BOOLEAN]]
    /\ loop.pc \in {"idle", "next", "unpairing", "adding", "unregister"}
    /\ loop.svc \in 1 .. 3 /\ loop.todo \in Seq(Ids) /\ loop.tx \in Rows
    /\ loop.copy \in [ext : AnyExt, count : {1, 2}, fee : 0 .. MaxChoices]
    /\ cleanup \in BOOLEAN
    /\ contract \in AnyExt /\ held \subseteq AnyExt /\ pairs \subseteq Exts
    /\ relay \in Seq([kind : Kinds, data : Data])
    /\ receipts \in Seq(Processed) /\ Len(receipts) <= Len(relay)
    /\ chosen \in 0 .. MaxChoices
    /\ trap \in {"none", "find", "edit", "owner", "unsigned"}
    /\ flows \in 0 .. MaxFlows /\ scans \in 0 .. MaxScans
    /\ crashes \in 0 .. MaxCrashes /\ failedReads \in 0 .. MaxFailedReads

Init ==
    /\ rows = [i \in Ids |-> NoRow]
    /\ monitor = <<>>
    /\ wallet = [ext |-> First, count |-> IF First = NoExt THEN 1 ELSE 2, fee |-> 0]
    /\ flow = NoFlow
    /\ main = IdleMain
    /\ tasks = [k \in Tasks |-> NoTask]
    /\ loop = Resting
    /\ cleanup = FALSE
    /\ contract = First /\ held = {First}
    /\ pairs = {First} \ {NoExt}
    /\ relay = <<>> /\ receipts = <<>>
    /\ chosen = 0 /\ trap = "none"
    /\ flows = 0 /\ scans = 0 /\ crashes = 0 /\ failedReads = 0

\* Only the database survives; the launch starts the removal of stale rows.
Restarted ==
    /\ flow' = NoFlow
    /\ main' = IdleMain
    /\ tasks' = [k \in Tasks |-> NoTask]
    /\ loop' = Resting
    /\ cleanup' = TRUE

\* A failed precondition, forced unwrapping or try! ends the process.
Trap(name) ==
    /\ trap' = name
    /\ Restarted
    /\ UNCHANGED <<db, outside, chosen, budgets>>

Crash ==
    /\ crashes < MaxCrashes
    /\ crashes' = crashes + 1
    /\ Restarted
    /\ UNCHANGED <<db, outside, chosen, trap, flows, scans, failedReads>>

\* cleanUpStaleTransactions, of the three services.
CleanUp ==
    /\ cleanup
    /\ cleanup' = FALSE
    /\ rows' = [i \in Ids |-> IF rows[i].status \in {"draft", "signing"}
                              THEN [rows[i] EXCEPT !.status = "removed"] ELSE rows[i]]
    /\ UNCHANGED <<monitor, wallet, flow, main, tasks, loop, outside, chosen, trap, budgets>>

\* try? contractProxy.getOwners(): the extension, or nothing.
ReadOwners(answer) ==
    \/ answer = {contract} /\ UNCHANGED failedReads
    \/ /\ answer = {} /\ failedReads < MaxFailedReads
       /\ failedReads' = failedReads + 1

-----------------------------------------------------------------------------
(* The screens, on the main thread.                                        *)

Screen(s) == flow' = [flow EXCEPT !.screen = s]
UnchangedByScreens == UNCHANGED <<monitor, wallet, loop, cleanup, outside, chosen, trap>>

OpenFlow(kind) ==
    /\ MainIsIdle /\ flow.screen = "menu" /\ flows < MaxFlows
    /\ IsAvailable(kind)
    /\ flow' = [screen |-> "loading", kind |-> kind, id |-> NoId]
    /\ flows' = flows + 1
    /\ UnchangedByScreens /\ UNCHANGED <<rows, main, tasks, scans, crashes, failedReads>>

\* LoadingState: createTransaction and addDummyData, in the background.
IntroCreates(i) ==
    /\ flow.screen = "loading" /\ rows[i].status = "absent"
    /\ rows' = [rows EXCEPT ![i] = [NoRow EXCEPT !.status = "draft", !.kind = flow.kind,
                                                 !.data = DummyData]]
    /\ flow' = [flow EXCEPT !.screen = "estimating", !.id = i]
    /\ UnchangedByScreens /\ UNCHANGED <<main, tasks, budgets>>

\* estimateNetworkFee found the row; it answers and saves its copy (a row
\* that was removed meanwhile is there again).
IntroEstimates ==
    /\ MainIsIdle /\ flow.screen = "estimating"
    /\ rows' = [rows EXCEPT ![flow.id] =
          [@ EXCEPT !.status = "draft", !.nonce = NextNonce]]
    /\ Screen("ready")
    /\ UnchangedByScreens /\ UNCHANGED <<main, tasks, budgets>>

\* The row was removed before it was found.
IntroFindsNothing ==
    /\ flow.screen = "estimating" /\ Missing(flow.id)
    /\ Trap("find")

\* StartingState validates the transaction; StartedState pushes the next screen.
StartFlow ==
    /\ MainIsIdle /\ flow.screen = "ready"
    /\ IF Missing(flow.id) THEN Trap("find")
       ELSE /\ IsAvailable(flow.kind)
            /\ Screen(IF flow.kind = "disconnect" THEN "phrase" ELSE "pair")
            /\ UnchangedByScreens /\ UNCHANGED <<rows, main, tasks, budgets>>

Previous ==
    CASE flow.screen \in {"loading", "estimating", "ready"} -> "menu"
      [] flow.screen = "pair" -> "ready"
      [] flow.screen = "phrase" -> IF flow.kind = "disconnect" THEN "ready" ELSE "pair"
      [] flow.screen = "review" -> IF flow.kind = "connect" THEN "pair" ELSE "phrase"

IsPairing(k) == tasks[k].pc \in {"validating", "unpairing", "pairing", "reading", "paired"}
IsReviewing(k) == ~Free(k) /\ ~IsPairing(k)

\* The back button; the popped screen hears of it (didCancel), tasks go on.
Back ==
    /\ MainIsIdle /\ flow.screen /= "menu"
    /\ Impatient \/ \A k \in Tasks : Free(k)
    /\ Screen(Previous)
    /\ tasks' = [k \in Tasks |->
          IF \/ flow.screen = "pair" /\ IsPairing(k)
             \/ flow.screen = "review" /\ IsReviewing(k)
          THEN [tasks[k] EXCEPT !.left = TRUE] ELSE tasks[k]]
    /\ UnchangedByScreens /\ UNCHANGED <<rows, main, budgets>>

\* The user changes the fee token, elsewhere in the menu.
ChangePaymentToken ==
    /\ MainIsIdle /\ flow.screen = "menu" /\ chosen < MaxChoices
    /\ chosen' = chosen + 1
    /\ wallet' = [wallet EXCEPT !.fee = chosen + 1]
    /\ UNCHANGED <<rows, monitor, flow, main, tasks, loop, cleanup, outside, trap, budgets>>

-----------------------------------------------------------------------------
(* Signing with the recovery phrase, which blocks the main thread.         *)

UnchangedBySigning == UNCHANGED <<monitor, wallet, tasks, loop, cleanup, outside, chosen, trap>>
Counters == <<flows, scans, crashes>>

\* The row is stepped back and found; a network call follows.  The data of a
\* disconnection names the extension that is read before the call.
StepsBackAndWaits(i, row, pc) ==
    /\ rows' = [rows EXCEPT ![i] = SteppedBack(row)]
    /\ main' = [pc |-> pc, copy |-> IF pc = "reading"
                      THEN [SteppedBack(row) EXCEPT !.data = Call(wallet.ext, NoExt)]
                      ELSE SteppedBack(row)]

SignBegins ==
    /\ MainIsIdle /\ flow.screen = "phrase"
    /\ IF Missing(flow.id) THEN Trap("find")
       ELSE /\ StepsBackAndWaits(flow.id, rows[flow.id],
                                 IF flow.kind = "disconnect" THEN "reading" ELSE "estimating")
            /\ UnchangedBySigning /\ UNCHANGED <<flow, budgets>>

\* realTransactionData: nil when the owners cannot be read or the extension is
\* not among them.
WithRealData(tx, owners) ==
    IF tx.data.old \in owners \ {NoExt} THEN tx ELSE [tx EXCEPT !.data = NilData]

\* Disconnect: update saves the copy with the data; then sign steps back again.
SignReads ==
    /\ main.pc = "reading"
    /\ \E owners \in {{}, {contract}} :
          IF ~Editable(main.copy) THEN Trap("edit")
          ELSE /\ ReadOwners(owners)
               /\ StepsBackAndWaits(flow.id, WithRealData(main.copy, owners), "estimating")
               /\ UnchangedBySigning /\ UNCHANGED <<flow, Counters>>

\* estimateNetworkFee answers; the copy is saved.
SignEstimates ==
    /\ main.pc = "estimating"
    /\ IF ~Editable(main.copy) THEN Trap("edit")
       ELSE /\ rows' = [rows EXCEPT ![flow.id] = [main.copy EXCEPT !.nonce = NextNonce]]
            /\ main' = [pc |-> "checking", copy |-> NoRow]
            /\ UnchangedBySigning /\ UNCHANGED <<flow, budgets>>

\* The keys are owners: updateHash, proceed, two signatures, the review screen.
SignFinishes ==
    /\ main.pc = "checking"
    /\ LET tx == rows[flow.id]
       IN  IF Missing(flow.id) THEN Trap("find")
           ELSE IF ~Editable(tx) THEN Trap("edit")
           ELSE /\ rows' = [rows EXCEPT ![flow.id] =
                      [tx EXCEPT !.status = "signing", !.sigs = @ \cup {HashOf(tx)}]]
                /\ main' = IdleMain
                /\ Screen("review")
                /\ UnchangedBySigning /\ UNCHANGED budgets

\* A call throws: the phrase screen shows the error.
SignThrows ==
    /\ main.pc \in {"estimating", "checking"}
    /\ main' = IdleMain
    /\ UNCHANGED <<rows, flow, budgets>> /\ UnchangedBySigning

-----------------------------------------------------------------------------
(* Tasks: a scanned code.                                                  *)

At(k, pc) == tasks[k].pc = pc
Goes(k, pc) == tasks' = [tasks EXCEPT ![k].pc = pc]
Ends(k) == tasks' = [tasks EXCEPT ![k] = NoTask]
UnchangedByTasks == UNCHANGED <<wallet, main, loop, cleanup, contract, held, chosen, trap>>

\* The scan button is disabled while the screen's code is processed.
Scan(k, e) ==
    /\ MainIsIdle /\ flow.screen = "pair" /\ scans < MaxScans
    /\ Free(k) /\ \A j \in Tasks : IsPairing(j) => tasks[j].left
    /\ tasks' = [tasks EXCEPT ![k] = [NoTask EXCEPT !.pc = "validating", !.kind = flow.kind,
                                                    !.id = flow.id, !.ext = e]]
    /\ scans' = scans + 1
    /\ UNCHANGED <<rows, monitor, flow, relay, receipts, pairs, flows, crashes, failedReads>>
    /\ UnchangedByTasks

\* validateNewOwnerAddress, then newOwnerAddress(from:) of the transaction.
PairValidates(k) ==
    /\ At(k, "validating")
    /\ \E owners \in {{}, {contract}} :
          IF Missing(tasks[k].id) THEN Trap("find")
          ELSE /\ ReadOwners(owners)
               /\ IF owners = {} \/ tasks[k].ext \in owners THEN Ends(k)
                  ELSE tasks' = [tasks EXCEPT ![k].copy = rows[tasks[k].id], ![k].pc =
                          IF rows[tasks[k].id].data = NilData THEN "pairing" ELSE "unpairing"]
               /\ UNCHANGED <<rows, monitor, flow, relay, receipts, pairs, Counters>>
               /\ UnchangedByTasks

PairUnpairs(k) ==
    /\ At(k, "unpairing")
    /\ pairs' = pairs \ {tasks[k].copy.data.new}
    /\ Goes(k, "pairing")
    /\ UNCHANGED <<rows, monitor, flow, relay, receipts, budgets>> /\ UnchangedByTasks

\* createPair, then update: stepBack and find; a replacement needs the old
\* extension and reads the owners, a connection saves its data at once.
PairPairs(k) ==
    /\ At(k, "pairing")
    /\ LET i == tasks[k].id
           tx == SteppedBack(rows[i])
       IN  CASE Missing(i) -> Trap("find")
             [] ~Missing(i) /\ tasks[k].kind = "replace" /\ wallet.ext = NoExt -> Trap("owner")
             [] ~Missing(i) /\ tasks[k].kind = "connect" /\ ~Editable(tx) -> Trap("edit")
             [] OTHER ->
                /\ pairs' = pairs \cup {tasks[k].ext}
                /\ IF tasks[k].kind = "connect"
                   THEN /\ rows' = [rows EXCEPT ![i] =
                              [tx EXCEPT !.data = Call(NoExt, tasks[k].ext)]]
                        /\ tasks' = [tasks EXCEPT ![k].pc = "paired", ![k].copy = NoRow]
                   ELSE /\ rows' = [rows EXCEPT ![i] = tx]
                        /\ tasks' = [tasks EXCEPT ![k].pc = "reading",
                              ![k].copy = [tx EXCEPT !.data = Call(wallet.ext, tasks[k].ext)]]
                /\ UNCHANGED <<monitor, flow, relay, receipts, budgets>> /\ UnchangedByTasks

\* The owners are read, the copy is saved with its data.
PairReads(k) ==
    /\ At(k, "reading")
    /\ \E owners \in {{}, {contract}} :
          IF ~Editable(tasks[k].copy) THEN Trap("edit")
          ELSE /\ ReadOwners(owners)
               /\ rows' = [rows EXCEPT ![tasks[k].id] = WithRealData(tasks[k].copy, owners)]
               /\ tasks' = [tasks EXCEPT ![k].pc = "paired", ![k].copy = NoRow]
               /\ UNCHANGED <<monitor, flow, relay, receipts, pairs, Counters>>
               /\ UnchangedByTasks

\* The next screen is pushed, unless the pair screen was left.  The review
\* screen of a connection requests its estimate.
PairFinishes(k) ==
    /\ MainIsIdle /\ At(k, "paired")
    /\ IF tasks[k].left THEN Ends(k) /\ UNCHANGED flow
       ELSE /\ flow' = [screen |-> IF tasks[k].kind = "connect" THEN "review" ELSE "phrase",
                        kind |-> tasks[k].kind, id |-> tasks[k].id]
            /\ IF tasks[k].kind = "connect"
               THEN tasks' = [tasks EXCEPT ![k] = [NoTask EXCEPT !.pc = "start",
                                  !.kind = "connect", !.id = tasks[k].id]]
               ELSE Ends(k)
    /\ UNCHANGED <<rows, monitor, relay, receipts, pairs, budgets>> /\ UnchangedByTasks

\* deletePair or createPair throws.
PairThrows(k) ==
    /\ tasks[k].pc \in {"unpairing", "pairing"}
    /\ Ends(k)
    /\ UNCHANGED <<rows, monitor, flow, relay, receipts, pairs, budgets>> /\ UnchangedByTasks

-----------------------------------------------------------------------------
(* Tasks: the review screen.  The transaction is estimated and signed, so  *)
(* neither needs a confirmation request.                                   *)

Submit(k) ==
    /\ MainIsIdle /\ flow.screen = "review"
    /\ Free(k) /\ \A j \in Tasks : IsReviewing(j) => tasks[j].left
    /\ tasks' = [tasks EXCEPT ![k] = [NoTask EXCEPT !.pc = "start", !.kind = flow.kind,
                                                    !.id = flow.id, !.action = "submit"]]
    /\ UNCHANGED <<rows, monitor, flow, relay, receipts, pairs, budgets>> /\ UnchangedByTasks

\* estimateTransactionIfNeeded: only a connection in draft is estimated again.
ReviewStarts(k) ==
    /\ At(k, "start")
    /\ LET tx == rows[tasks[k].id]
       IN  IF Missing(tasks[k].id) THEN Trap("find")
           ELSE /\ IF tx.kind = "connect" /\ tx.status = "draft"
                   THEN tasks' = [tasks EXCEPT ![k].pc = "estimating", ![k].copy = tx]
                   ELSE Goes(k, "act")
                /\ UNCHANGED <<rows, monitor, flow, relay, receipts, pairs, budgets>>
                /\ UnchangedByTasks

ReviewEstimates(k) ==
    /\ At(k, "estimating")
    /\ rows' = [rows EXCEPT ![tasks[k].id] =
          [tasks[k].copy EXCEPT !.nonce = NextNonce, !.status = "signing"]]
    /\ tasks' = [tasks EXCEPT ![k].pc = "act", ![k].copy = NoRow]
    /\ UNCHANGED <<monitor, flow, relay, receipts, pairs, budgets>> /\ UnchangedByTasks

\* submitTransaction up to the relay: a connection gets the device's signature.
ReviewActs(k) ==
    /\ At(k, "act")
    /\ LET tx == rows[tasks[k].id]
       IN  CASE tasks[k].action = "request" ->
                  /\ Ends(k)
                  /\ UNCHANGED <<rows, monitor, flow, relay, receipts, pairs, budgets>>
                  /\ UnchangedByTasks
             [] tasks[k].action = "submit" /\ Missing(tasks[k].id) -> Trap("find")
             [] tasks[k].action = "submit" /\ ~Missing(tasks[k].id)
                    /\ tx.kind = "connect" /\ wallet.ext /= NoExt -> Trap("unsigned")
             [] OTHER ->
                  /\ tasks' = [tasks EXCEPT ![k].pc = "relaying", ![k].copy =
                        IF tx.kind = "connect" THEN [tx EXCEPT !.sigs = {HashOf(tx)}] ELSE tx]
                  /\ UNCHANGED <<rows, monitor, flow, relay, receipts, pairs, budgets>>
                  /\ UnchangedByTasks

RelayAccepts(k) ==
    /\ At(k, "relaying")
    /\ LET tx == tasks[k].copy
       IN  /\ tx.nonce = NextNonce /\ NextNonce < MaxNonce
           /\ tx.sigs = {HashOf(tx)}
           /\ relay' = Append(relay, [kind |-> tx.kind, data |-> tx.data])
    /\ Goes(k, "accepted")
    /\ UNCHANGED <<rows, monitor, flow, receipts, pairs, budgets>> /\ UnchangedByTasks

\* proceedTransaction: the copy is saved as pending.
RelayAnswers(k) ==
    /\ At(k, "accepted")
    /\ rows' = [rows EXCEPT ![tasks[k].id] = Submitted(tasks[k].copy)]
    /\ tasks' = [tasks EXCEPT ![k].pc = "acted", ![k].copy = Submitted(tasks[k].copy)]
    /\ UNCHANGED <<monitor, flow, relay, receipts, pairs, budgets>> /\ UnchangedByTasks

\* The relay rejects, or a call fails.
ReviewThrows(k) ==
    /\ tasks[k].pc \in {"estimating", "relaying"}
    /\ Ends(k)
    /\ UNCHANGED <<rows, monitor, flow, relay, receipts, pairs, budgets>> /\ UnchangedByTasks

\* The monitor entry of a transaction is found and removed, if there is one.
WithoutEntry(i) ==
    IF \E n \in 1 .. Len(monitor) : monitor[n] = i
    THEN LET n == CHOOSE n \in 1 .. Len(monitor) : monitor[n] = i
         IN  SubSeq(monitor, 1, n - 1) \o SubSeq(monitor, n + 1, Len(monitor))
    ELSE monitor

\* Faulty variant: the flow is left without a monitor entry.
ReviewFinishesUnmonitored(k) ==
    /\ MainIsIdle /\ At(k, "acted")
    /\ Ends(k)
    /\ flow' = IF tasks[k].copy.status = "pending" THEN NoFlow ELSE flow
    /\ UNCHANGED <<rows, monitor, relay, receipts, pairs, budgets>> /\ UnchangedByTasks

\* didFinishReview: startMonitoring, exitFlow.
ReviewFinishes(k) ==
    /\ MainIsIdle /\ At(k, "acted")
    /\ Ends(k)
    /\ IF tasks[k].copy.status = "pending"
       THEN /\ monitor' = Append(WithoutEntry(tasks[k].id), tasks[k].id)
            /\ flow' = NoFlow
       ELSE UNCHANGED <<monitor, flow>>
    /\ UNCHANGED <<rows, relay, receipts, pairs, budgets>> /\ UnchangedByTasks

-----------------------------------------------------------------------------
(* The synchronisation loop and the chain.                                 *)

\* Whether a call goes through; one that failed may always fail.
Succeeds(tx) ==
    \/ tx.data = NilData
    \/ tx.kind = "connect" /\ contract = NoExt
    \/ tx.kind /= "connect" /\ contract = tx.data.old /\ contract /= tx.data.new

Mine(outcome) ==
    /\ Len(receipts) < Len(relay)
    /\ LET tx == relay[Len(receipts) + 1]
       IN  /\ outcome = "success" => Succeeds(tx)
           /\ contract' = IF outcome = "success" /\ tx.data /= NilData
                          THEN tx.data.new ELSE contract
    /\ receipts' = Append(receipts, outcome)
    /\ held' = held \cup {contract'}
    /\ UNCHANGED <<db, flow, main, tasks, loop, cleanup, relay, pairs, chosen, trap, budgets>>

\* updatePendingTransactions, for one transaction.
PollLooks(i) ==
    /\ loop.pc = "idle"
    /\ rows[i].status = "pending" /\ rows[i].sub <= Len(receipts)
    /\ rows' = [rows EXCEPT ![i].status = receipts[rows[i].sub]]
    /\ UNCHANGED <<monitor, wallet, flow, main, tasks, loop, cleanup, outside, chosen, trap, budgets>>

UnchangedByLoop == UNCHANGED <<rows, flow, main, tasks, cleanup, contract, relay, receipts,
                               held, chosen, trap, budgets>>

\* postProcessTransactions of the first service: findAll, sorted by date.
LoopBegins ==
    /\ loop.pc = "idle" /\ monitor /= <<>>
    /\ loop' = [pc |-> "next", svc |-> 1, todo |-> monitor, tx |-> NoRow, copy |-> NoWallet]
    /\ UNCHANGED <<monitor, wallet, pairs>> /\ UnchangedByLoop

\* The service is done: the next one starts, or the round ends.
LoopTurns ==
    /\ loop.pc = "next" /\ loop.todo = <<>>
    /\ loop' = IF loop.svc = 3 THEN Resting
               ELSE [loop EXCEPT !.svc = @ + 1, !.todo = monitor]
    /\ UNCHANGED <<monitor, wallet, pairs>> /\ UnchangedByLoop

Entry == rows[Head(loop.todo)]

\* Faulty variant: a pending transaction is taken for a successful one.
AppliesToAny(tx) == tx.kind = Services[loop.svc] /\ tx.status \in {"pending"} \cup Processed

\* The guard of postProcess.
Applies(tx) == tx.kind = Services[loop.svc] /\ tx.status \in Processed

LoopSkips ==
    /\ loop.pc = "next" /\ loop.todo /= <<>> /\ ~Applies(Entry)
    /\ loop' = [loop EXCEPT !.todo = Tail(@)]
    /\ UNCHANGED <<monitor, wallet, pairs>> /\ UnchangedByLoop

\* Faulty variant: a disconnection leaves the confirmation count.
AppliedKeepingCount(w, tx) == [w EXCEPT !.ext = tx.data.new]

\* What a success does to the wallet, the count of a connection excepted.
Applied(w, tx) ==
    CASE tx.kind = "disconnect" -> [w EXCEPT !.ext = NoExt, !.count = 1]
      [] OTHER -> [w EXCEPT !.ext = tx.data.new]

\* Where postProcess is after the first save.
AfterSave(tx) == IF tx.kind = "connect" THEN "adding" ELSE "unregister"

\* The pair postProcess deletes first, if any: the old extension's after a
\* success, the new one's after a failure.
ToUnpair(tx) ==
    CASE tx.status = "failed" -> IF tx.kind = "disconnect" THEN NoExt ELSE tx.data.new
      [] OTHER -> IF tx.kind = "connect" THEN NoExt ELSE wallet.ext

\* postProcess of the entry, up to the first network call.
LoopProcesses ==
    /\ loop.pc = "next" /\ loop.todo /= <<>> /\ Applies(Entry)
    /\ LET tx == Entry
           done == tx.data = NilData /\ tx.kind /= "disconnect"
           save == ~done /\ tx.status /= "failed" /\ ToUnpair(tx) = NoExt
       IN  /\ wallet' = IF save THEN Applied(wallet, tx) ELSE wallet
           /\ loop' = [loop EXCEPT
                 !.tx = tx, !.copy = wallet',
                 !.pc = CASE done -> "unregister"
                          [] ~done /\ ToUnpair(tx) /= NoExt -> "unpairing"
                          [] OTHER -> IF save THEN AfterSave(tx) ELSE "unregister"]
    /\ UNCHANGED <<monitor, pairs>> /\ UnchangedByLoop

\* deletePair answered: the copy of the wallet is changed and saved.
LoopUnpairs ==
    /\ loop.pc = "unpairing"
    /\ LET tx == loop.tx
           other == IF tx.status = "failed" THEN tx.data.new ELSE loop.copy.ext
       IN  /\ pairs' = pairs \ {other}
           /\ wallet' = IF tx.status = "failed" THEN wallet ELSE Applied(loop.copy, tx)
    /\ loop' = [loop EXCEPT !.pc = "unregister"]
    /\ UNCHANGED monitor /\ UnchangedByLoop

\* deletePair throws, with or without effect: the round ends.
LoopThrows ==
    /\ loop.pc = "unpairing"
    /\ pairs' \in {pairs, pairs \ {IF loop.tx.status = "failed" THEN loop.tx.data.new
                                                               ELSE loop.copy.ext}}
    /\ loop' = Resting
    /\ UNCHANGED <<monitor, wallet>> /\ UnchangedByLoop

\* The second save of a connection.
LoopAdds ==
    /\ loop.pc = "adding"
    /\ wallet' = [loop.copy EXCEPT !.count = 2]
    /\ loop' = [loop EXCEPT !.pc = "unregister"]
    /\ UNCHANGED <<monitor, pairs>> /\ UnchangedByLoop

\* unregisterPostProcessing
LoopUnregisters ==
    /\ loop.pc = "unregister"
    /\ monitor' = WithoutEntry(Head(loop.todo))
    /\ loop' = [loop EXCEPT !.pc = "next", !.todo = Tail(@), !.tx = NoRow, !.copy = NoWallet]
    /\ UNCHANGED <<wallet, pairs>> /\ UnchangedByLoop

-----------------------------------------------------------------------------

ScreenStep ==
    \/ \E kind \in Kinds : OpenFlow(kind)
    \/ \E i \in Ids : IntroCreates(i)
    \/ IntroEstimates \/ IntroFindsNothing \/ StartFlow \/ Back \/ ChangePaymentToken

SignStep == SignBegins \/ SignReads \/ SignEstimates \/ SignFinishes \/ SignThrows

TaskStep(k) ==
    \/ \E e \in Exts : Scan(k, e)
    \/ PairValidates(k) \/ PairUnpairs(k) \/ PairPairs(k) \/ PairReads(k)
    \/ PairFinishes(k) \/ PairThrows(k)
    \/ Submit(k) \/ ReviewStarts(k) \/ ReviewEstimates(k) \/ ReviewActs(k)
    \/ RelayAccepts(k) \/ RelayAnswers(k) \/ ReviewThrows(k) \/ ReviewFinishes(k)

LoopStep ==
    \/ \E i \in Ids : PollLooks(i)
    \/ LoopBegins \/ LoopTurns \/ LoopSkips \/ LoopProcesses
    \/ LoopUnpairs \/ LoopThrows \/ LoopAdds \/ LoopUnregisters

Next ==
    \/ ScreenStep
    \/ SignStep
    \/ \E k \in Tasks : TaskStep(k)
    \/ LoopStep
    \/ \E outcome \in Processed : Mine(outcome)
    \/ CleanUp
    \/ Crash

Spec == Init /\ [][Next]_vars

\* Tasks that wait for an answer and the loop go on, what is submitted is
\* mined and polled, and deletePair does not fail for ever.  Nothing is assumed
\* of the user.
Fairness ==
    /\ WF_vars(\E outcome \in Processed : Mine(outcome))
    /\ \A i \in Ids : SF_vars(PollLooks(i))
    /\ \A k \in Tasks : WF_vars(RelayAnswers(k)) /\ SF_vars(ReviewFinishes(k))
    /\ WF_vars(LoopBegins \/ LoopTurns \/ LoopSkips \/ LoopProcesses \/ LoopAdds
               \/ LoopUnregisters)
    /\ SF_vars(LoopUnpairs)
FairSpec == Spec /\ Fairness

-----------------------------------------------------------------------------
(* Properties.                                                             *)

Follows == wallet.ext = contract /\ wallet.count = (IF contract = NoExt THEN 1 ELSE 2)

\* A disconnection without data was submitted: see DisconnectedWasRemoved.
EmptyDisconnection ==
    \E n \in 1 .. Len(relay) : relay[n] = [kind |-> "disconnect", data |-> NilData]

\* While the process lives: whenever the wallet row differs from the contract,
\* the change that is missing is known: a task has the relay's answer, or a
\* monitor entry is there for it.
ChangeIsRemembered ==
    trap /= "none" \/ crashes > 0 \/ EmptyDisconnection \/
    Follows \/ monitor /= <<>> \/ \E k \in Tasks : tasks[k].pc \in {"accepted", "acted"}

\* An extension the wallet row names was an owner at some time: no failed,
\* unsent or re-processed change is taken over, whenever the process ends.
NamedWasOwner == wallet.ext /= NoExt => wallet.ext \in held

\* The wallet row is without an extension only when the contract was: a
\* disconnection is taken over when it took place.
DisconnectedWasRemoved == wallet.ext = NoExt => NoExt \in held

\* While the process lives, the wallet row comes to agree with the contract,
\* although deletePair fails now and then and ends the round for everybody.
WalletFollows == ~Follows ~> (Follows \/ EmptyDisconnection \/ crashes > 0)

\* "Watches for transactions to process and then executes appropriate actions":
\* also when the process has ended in between.
WalletFollowsRestarts == ~Follows ~> (Follows \/ EmptyDisconnection)

\* The extension that is an owner stays paired: post-processing deletes the
\* pair of the one that is not.
OwnerStaysPaired == Follows /\ contract /= NoExt => contract \in pairs

\* What the review screen submits is signed by both keys of the phrase, once.
SignedByBothKeys ==
    \A i \in Ids : rows[i].status = "signing" /\ rows[i].kind /= "connect" =>
        rows[i].sigs = {HashOf(rows[i])}

\* A submitted transaction's parameters are immutable.
SubmittedStaysSubmitted ==
    [][\A i \in Ids : rows[i].status = "pending" =>
            rows'[i].status \in {"pending"} \cup Processed]_vars

\* A missing extension is an error that is reported, not a failed assertion.
MissingExtensionIsReported == trap /= "owner"

\* The clean-up at launch leaves the transaction of an open flow alone.
OpenTransactionIsFound == trap /= "find"

\* The fee token is the one the user chose.
ChoiceStays == wallet.fee = chosen

=============================================================================
