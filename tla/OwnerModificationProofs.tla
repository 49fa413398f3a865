----------------------- MODULE OwnerModificationProofs -----------------------
(***************************************************************************)
(* Proofs about OwnerModification, for any number of transactions,         *)
(* extensions and tasks and any bounds: the wallet row never names an      *)
(* extension the contract has not had.  Five copies of a row may be on the *)
(* way at a time (the screen's, the tasks', the loop's); the argument      *)
(* follows the data of a transaction through all of them, from the relay's *)
(* queue to the row that is taken over.  And, for a user who waits for his *)
(* tasks: a change the wallet row has not taken over is known to a task or *)
(* to the monitor.                                                         *)
(***************************************************************************)
EXTENDS OwnerModification, SequenceTheorems, TLAPS

Wallets == [ext : AnyExt, count : {1, 2}, fee : 0 .. MaxChoices]
TaskPlaces == {"idle", "validating", "unpairing", "pairing", "reading", "paired", "start",
               "estimating", "act", "relaying", "accepted", "acted", "failed"}
TaskRecords == [pc : TaskPlaces, kind : Kinds, id : Ids \cup {NoId}, ext : AnyExt,
                action : {"request", "submit"}, copy : Rows, left : BOOLEAN]
FlowRecords == [screen : {"menu", "loading", "estimating", "ready", "pair", "phrase", "review"},
                kind : Kinds, id : Ids \cup {NoId}]
MainRecords == [pc : {"idle", "reading", "estimating", "checking"}, copy : Rows]
LoopRecords == [pc : {"idle", "next", "unpairing", "adding", "unregister"}, svc : 1 .. 3,
                todo : Seq(Ids), tx : Rows, copy : Wallets]

\* A row that waits for its outcome or has one is in the relay's queue with
\* its own data, and the outcome is the one the chain has.
RowOK(r) ==
    /\ r.status \in {"pending"} \cup Processed =>
          r.sub \in 1 .. Len(relay) /\ relay[r.sub].data = r.data
    /\ r.status \in Processed => r.sub <= Len(receipts) /\ r.status = receipts[r.sub]

RowsInv == rows \in [Ids -> Rows] /\ \A i \in Ids : RowOK(rows[i])

\* A screen beyond the first has a transaction, and what blocks the main
\* thread belongs to the phrase screen.
FlowInv ==
    /\ flow \in FlowRecords /\ main \in MainRecords
    /\ flow.screen \notin {"menu", "loading"} => flow.id \in Ids
    /\ main.pc # "idle" => flow.screen = "phrase"

\* A task has a transaction, a scanned code is an extension, and a copy the
\* relay has accepted is what the relay has at its nonce.
Scanning == {"validating", "unpairing", "pairing"}
TaskOK(t) ==
    /\ t.pc # "idle" => t.id \in Ids
    /\ t.pc \in Scanning => t.ext \in Exts
    /\ t.pc = "accepted" => /\ t.copy.nonce \in 1 .. Len(relay)
                            /\ relay[t.copy.nonce].data = t.copy.data

TasksInv == tasks \in [Tasks -> TaskRecords] /\ \A k \in Tasks : TaskOK(tasks[k])

WasOwner(e) == e # NoExt => e \in held

\* The copies the loop has in hand name former owners only, and a success it
\* is about to take over put an extension in that the contract has had.
LoopInv ==
    /\ loop \in LoopRecords /\ wallet \in Wallets /\ monitor \in Seq(Ids)
    /\ loop.pc \in {"unpairing", "adding", "unregister"} => loop.todo # <<>>
    /\ loop.pc \in {"unpairing", "adding"} => WasOwner(loop.copy.ext)
    /\ loop.pc = "unpairing" =>
          loop.tx.status = "failed" \/ loop.tx.kind = "disconnect" \/ WasOwner(loop.tx.data.new)
    /\ NamedWasOwner

\* What a successful call has put in has been an owner.
WorldInv ==
    /\ contract \in AnyExt /\ held \subseteq AnyExt /\ pairs \subseteq Exts
    /\ relay \in Seq([kind : Kinds, data : Data]) /\ Len(relay) < MaxNonce
    /\ receipts \in Seq(Processed) /\ Len(receipts) <= Len(relay)
    /\ contract \in held
    /\ \A n \in 1 .. Len(receipts) :
          receipts[n] = "success" /\ relay[n].data # NilData => relay[n].data.new \in held

CountInv ==
    /\ cleanup \in BOOLEAN /\ chosen \in 0 .. MaxChoices
    /\ trap \in {"none", "find", "edit", "owner", "unsigned"}
    /\ flows \in 0 .. MaxFlows /\ scans \in 0 .. MaxScans
    /\ crashes \in 0 .. MaxCrashes /\ failedReads \in 0 .. MaxFailedReads

IInv == RowsInv /\ FlowInv /\ TasksInv /\ LoopInv /\ WorldInv /\ CountInv

-----------------------------------------------------------------------------
(* The records the actions build.                                          *)

LEMMA ConstantFacts ==
    /\ MaxNonce \in Nat /\ MaxNonce >= 2
    /\ NilData \in Data /\ DummyData \in Data
    /\ NoRow \in Rows /\ NoRow.status = "absent"
    /\ NoWallet \in [ext : AnyExt, count : {1, 2}, fee : 0 .. MaxChoices]
    /\ NoWallet.ext = NoExt
<1>1. MaxNonce \in Nat /\ MaxNonce >= 2
  BY ModificationAssumption DEF MaxNonce
<1>2. NilData \in Data /\ DummyData \in Data
  BY DEF NilData, DummyData, Data, AnyExt
<1>3. NoRow \in Rows /\ NoRow.status = "absent"
  BY <1>1, <1>2 DEF NoRow, Rows, Statuses, Kinds
<1>4. NoWallet \in [ext : AnyExt, count : {1, 2}, fee : 0 .. MaxChoices] /\ NoWallet.ext = NoExt
  BY ModificationAssumption DEF NoWallet, AnyExt
<1> QED BY <1>1, <1>2, <1>3, <1>4

LEMMA CallFacts ==
    ASSUME NEW old \in AnyExt, NEW new \in AnyExt
    PROVE  Call(old, new) \in Data
BY DEF Call, Data

\* A copy of a row with one or two fields changed.
LEMMA RowWith ==
    ASSUME NEW r \in Rows
    PROVE  /\ \A s \in Statuses : /\ [r EXCEPT !.status = s] \in Rows
                                  /\ [r EXCEPT !.status = s].status = s
           /\ \A d \in Data : /\ [r EXCEPT !.data = d] \in Rows
                              /\ [r EXCEPT !.data = d].status = r.status
           /\ \A n \in 0 .. MaxNonce : /\ [r EXCEPT !.nonce = n] \in Rows
                                       /\ [r EXCEPT !.nonce = n].status = r.status
           /\ \A s \in Statuses, n \in 0 .. MaxNonce :
                 /\ [r EXCEPT !.status = s, !.nonce = n] \in Rows
                 /\ [r EXCEPT !.status = s, !.nonce = n].status = s
                 /\ [r EXCEPT !.nonce = n, !.status = s] \in Rows
                 /\ [r EXCEPT !.nonce = n, !.status = s].status = s
BY DEF Rows

LEMMA SteppedBackFacts ==
    ASSUME NEW r \in Rows
    PROVE  /\ SteppedBack(r) \in Rows
           /\ SteppedBack(r).status \in {"pending"} \cup Processed => SteppedBack(r) = r
<1>1. CASE r.status = "signing"
  <2>1. "draft" \in Statuses
    BY DEF Statuses
  <2>2. SteppedBack(r) \in Rows /\ SteppedBack(r).status = "draft"
    BY <1>1, <2>1, RowWith DEF SteppedBack
  <2> QED BY <2>2 DEF Processed
<1>2. CASE r.status # "signing"
  BY <1>2 DEF SteppedBack
<1> QED BY <1>1, <1>2

\* What is relayed is over what is signed.
LEMMA HashFacts ==
    ASSUME NEW r \in Rows
    PROVE  /\ HashOf(r) \in Hashes
           /\ [r EXCEPT !.sigs = {HashOf(r)}] \in Rows
           /\ [r EXCEPT !.sigs = {HashOf(r)}].data = r.data
<1>1. HashOf(r) \in Hashes
  BY DEF HashOf, Hashes, Rows
<1>2. {HashOf(r)} \in SUBSET Hashes
  BY <1>1
<1> DEFINE s == {HashOf(r)}
<1> HIDE DEF s
<1>3. [r EXCEPT !.sigs = s] \in Rows /\ [r EXCEPT !.sigs = s].data = r.data
  BY <1>2 DEF Rows, s
<1> QED BY <1>1, <1>3 DEF s

LEMMA SubmittedFacts ==
    ASSUME NEW r \in Rows
    PROVE  /\ Submitted(r) \in Rows
           /\ Submitted(r).sub = r.nonce
           /\ Submitted(r).data = r.data
           /\ Submitted(r).status \in {"signing", "pending"}
BY DEF Submitted, Rows, Statuses

LEMMA RealDataFacts ==
    ASSUME NEW r \in Rows, NEW owners
    PROVE  WithRealData(r, owners) \in Rows /\ WithRealData(r, owners).status = r.status
BY RowWith, ConstantFacts DEF WithRealData

\* A row that neither waits for an outcome nor has one promises nothing.
LEMMA OpenRowOK ==
    ASSUME NEW r, r.status \notin {"pending"} \cup Processed
    PROVE  RowOK(r)
BY DEF RowOK

-----------------------------------------------------------------------------
(* What a step leaves alone, and what it writes.                           *)

LEMMA RowsSame ==
    ASSUME RowsInv, UNCHANGED <<rows, relay, receipts>>
    PROVE  RowsInv'
BY DEF RowsInv, RowOK

LEMMA RowWritten ==
    ASSUME RowsInv, UNCHANGED <<relay, receipts>>,
           NEW i \in Ids, NEW r \in Rows, RowOK(r), rows' = [rows EXCEPT ![i] = r]
    PROVE  RowsInv'
BY DEF RowsInv, RowOK

LEMMA FlowSame ==
    ASSUME FlowInv, UNCHANGED <<flow, main>>
    PROVE  FlowInv'
BY DEF FlowInv

LEMMA TasksSame ==
    ASSUME TasksInv, UNCHANGED <<tasks, relay>>
    PROVE  TasksInv'
BY DEF TasksInv, TaskOK

LEMMA TaskWritten ==
    ASSUME TasksInv, UNCHANGED relay, NEW k \in Tasks, NEW t \in TaskRecords, TaskOK(t),
           tasks' = [tasks EXCEPT ![k] = t]
    PROVE  TasksInv'
BY DEF TasksInv, TaskOK

\* A task goes on, with the copy it has or with another one.
LEMMA TaskGoes ==
    ASSUME TasksInv, UNCHANGED relay, NEW k \in Tasks, NEW p \in TaskPlaces \ {"accepted"},
           tasks[k].pc # "idle", p \in Scanning => tasks[k].pc \in Scanning, Goes(k, p)
    PROVE  TasksInv'
<1> DEFINE t == [tasks[k] EXCEPT !.pc = p]
<1>1. t \in TaskRecords /\ TaskOK(t)
  BY DEF TasksInv, TaskRecords, TaskOK
<1>2. tasks' = [tasks EXCEPT ![k] = t]
  BY DEF Goes, TasksInv, TaskRecords
<1> QED BY <1>1, <1>2, TaskWritten

LEMMA TaskGoesWith ==
    ASSUME TasksInv, UNCHANGED relay, NEW k \in Tasks, NEW p \in TaskPlaces \ {"accepted"},
           NEW c \in Rows, tasks[k].pc # "idle", p \in Scanning => tasks[k].pc \in Scanning,
           \/ tasks' = [tasks EXCEPT ![k].pc = p, ![k].copy = c]
           \/ tasks' = [tasks EXCEPT ![k].copy = c, ![k].pc = p]
    PROVE  TasksInv'
<1> DEFINE t == [tasks[k] EXCEPT !.pc = p, !.copy = c]
<1>2. tasks \in [Tasks -> TaskRecords]
  BY DEF TasksInv
<1>1. t \in TaskRecords /\ TaskOK(t)
  <2>1. tasks[k] \in TaskRecords /\ TaskOK(tasks[k])
    BY <1>2 DEF TasksInv
  <2>2. t \in TaskRecords /\ t.pc = p /\ t.id = tasks[k].id /\ t.ext = tasks[k].ext
    BY <2>1 DEF TaskRecords
  <2> QED BY <2>1, <2>2 DEF TaskOK
<1>3. t = [tasks[k] EXCEPT !.copy = c, !.pc = p]
  BY <1>2 DEF TaskRecords
<1>4. /\ [tasks EXCEPT ![k].pc = p, ![k].copy = c] = [tasks EXCEPT ![k] = t]
      /\ [tasks EXCEPT ![k].copy = c, ![k].pc = p] = [tasks EXCEPT ![k] = t]
  <2> HIDE DEF t
  <2>1. [tasks EXCEPT ![k].pc = p] = [tasks EXCEPT ![k] = [tasks[k] EXCEPT !.pc = p]]
    OBVIOUS
  <2>2. [tasks EXCEPT ![k].copy = c] = [tasks EXCEPT ![k] = [tasks[k] EXCEPT !.copy = c]]
    OBVIOUS
  <2>3. \A x, y : [[tasks EXCEPT ![k] = x] EXCEPT ![k] = y] = [tasks EXCEPT ![k] = y]
    BY <1>2
  <2>4. \A x : [tasks EXCEPT ![k] = x][k] = x
    BY <1>2
  <2> QED BY <1>2, <1>3, <2>1, <2>2, <2>3, <2>4 DEF t
<1> QED BY <1>1, <1>4, TaskWritten

LEMMA NoTaskFacts ==
    NoTask \in TaskRecords /\ TaskOK(NoTask)
BY ConstantFacts DEF NoTask, TaskRecords, TaskPlaces, TaskOK, Kinds, AnyExt, Scanning

LEMMA TaskEnds ==
    ASSUME TasksInv, UNCHANGED relay, NEW k \in Tasks, Ends(k)
    PROVE  TasksInv'
BY NoTaskFacts, TaskWritten DEF Ends

LEMMA LoopSame ==
    ASSUME LoopInv, UNCHANGED <<loop, wallet, monitor, held>>
    PROVE  LoopInv'
BY DEF LoopInv, WasOwner, NamedWasOwner

LEMMA WorldSame ==
    ASSUME WorldInv, UNCHANGED <<contract, relay, receipts, pairs, held>>
    PROVE  WorldInv'
BY DEF WorldInv

\* Pairs do not matter to the contract.
LEMMA PairsChange ==
    ASSUME WorldInv, UNCHANGED <<contract, relay, receipts, held>>, pairs' \subseteq Exts
    PROVE  WorldInv'
BY DEF WorldInv

LEMMA CountSame ==
    ASSUME CountInv, UNCHANGED <<cleanup, chosen, trap, budgets>>
    PROVE  CountInv'
BY DEF CountInv, budgets

LEMMA NonceFacts ==
    ASSUME WorldInv
    PROVE  NextNonce \in 1 .. MaxNonce
BY ConstantFacts DEF WorldInv, NextNonce

-----------------------------------------------------------------------------
(* The process ends.                                                       *)

LEMMA RestingFacts ==
    Resting \in LoopRecords /\ Resting.pc = "idle"
<1>1. <<>> \in Seq(Ids)
  OBVIOUS
<1> DEFINE e == <<>>
<1>2. e \in Seq(Ids)
  BY <1>1
<1> HIDE DEF e
<1>3. [pc |-> "idle", svc |-> 1, todo |-> e, tx |-> NoRow, copy |-> NoWallet] \in LoopRecords
  BY <1>2, ConstantFacts DEF LoopRecords, Wallets
<1> QED BY <1>3 DEF Resting, e

LEMMA RestartFacts ==
    ASSUME Restarted
    PROVE  /\ FlowInv'
           /\ UNCHANGED relay => TasksInv'
           /\ LoopInv /\ UNCHANGED <<wallet, monitor, held>> => LoopInv'
           /\ cleanup' = TRUE
<1>1. FlowInv'
  BY ConstantFacts DEF Restarted, FlowInv, NoFlow, IdleMain, FlowRecords, MainRecords, Kinds
<1>2. ASSUME UNCHANGED relay PROVE TasksInv'
  <2>1. tasks' \in [Tasks -> TaskRecords]
    BY NoTaskFacts DEF Restarted
  <2>2. ASSUME NEW k \in Tasks PROVE TaskOK(tasks[k])'
    <3>1. tasks'[k].pc = "idle"
      BY DEF Restarted, NoTask
    <3> QED BY <3>1 DEF TaskOK, Scanning
  <2> QED BY <2>1, <2>2 DEF TasksInv
<1>3. ASSUME LoopInv, UNCHANGED <<wallet, monitor, held>> PROVE LoopInv'
  BY <1>3, RestingFacts DEF Restarted, LoopInv, NamedWasOwner
<1> QED BY <1>1, <1>2, <1>3 DEF Restarted

LEMMA TrapKeeps ==
    ASSUME IInv, NEW name \in {"find", "edit", "owner", "unsigned"}, Trap(name)
    PROVE  IInv'
<1> USE DEF Trap, db, outside
<1>1. RowsInv'
  BY RowsSame DEF IInv
<1>2. FlowInv' /\ TasksInv' /\ LoopInv'
  BY RestartFacts DEF IInv
<1>3. WorldInv'
  BY WorldSame DEF IInv
<1>4. CountInv'
  BY RestartFacts DEF IInv, CountInv, budgets
<1> QED BY <1>1, <1>2, <1>3, <1>4 DEF IInv

LEMMA CrashKeeps ==
    ASSUME IInv, Crash
    PROVE  IInv'
<1> USE DEF Crash, db, outside
<1>1. RowsInv'
  BY RowsSame DEF IInv
<1>2. FlowInv' /\ TasksInv' /\ LoopInv'
  BY RestartFacts DEF IInv
<1>3. WorldInv'
  BY WorldSame DEF IInv
<1>4. CountInv'
  BY RestartFacts, ModificationAssumption DEF IInv, CountInv
<1> QED BY <1>1, <1>2, <1>3, <1>4 DEF IInv

LEMMA CleanUpKeeps ==
    ASSUME IInv, CleanUp
    PROVE  IInv'
<1> USE DEF CleanUp, outside
<1>1. RowsInv'
  <2>1. rows \in [Ids -> Rows]
    BY DEF IInv, RowsInv
  <2>2. ASSUME NEW i \in Ids
        PROVE  /\ rows'[i] \in Rows
               /\ rows'[i] = rows[i] \/ rows'[i].status = "removed"
    <3>1. "removed" \in Statuses
      BY DEF Statuses
    <3>2. rows[i] \in Rows
      BY <2>1
    <3>3. /\ [rows[i] EXCEPT !.status = "removed"] \in Rows
          /\ [rows[i] EXCEPT !.status = "removed"].status = "removed"
      BY <3>1, <3>2, RowWith
    <3>4. rows'[i] = [rows[i] EXCEPT !.status = "removed"] \/ rows'[i] = rows[i]
      OBVIOUS
    <3> QED BY <3>2, <3>3, <3>4
  <2>3. rows' \in [Ids -> Rows]
    BY <2>2
  <2>4. ASSUME NEW i \in Ids PROVE RowOK(rows[i])'
    <3>1. RowOK(rows[i]) /\ UNCHANGED <<relay, receipts>>
      BY DEF IInv, RowsInv
    <3> QED BY <2>2, <3>1 DEF RowOK, Processed
  <2> QED BY <2>3, <2>4 DEF RowsInv
<1>2. FlowInv' /\ TasksInv' /\ LoopInv' /\ WorldInv'
  BY FlowSame, TasksSame, LoopSame, WorldSame DEF IInv
<1>3. CountInv'
  BY DEF IInv, CountInv, budgets
<1> QED BY <1>1, <1>2, <1>3 DEF IInv

-----------------------------------------------------------------------------
(* The screens.                                                            *)

LEMMA ScreenFacts ==
    ASSUME FlowInv, MainIsIdle, UNCHANGED main, NEW s, Screen(s),
           s \in {"menu", "loading", "estimating", "ready", "pair", "phrase", "review"},
           s \notin {"menu", "loading"} => flow.screen \notin {"menu", "loading"}
    PROVE  FlowInv'
BY DEF FlowInv, FlowRecords, MainIsIdle, Screen

LEMMA OpenFlowKeeps ==
    ASSUME IInv, NEW kind \in Kinds, OpenFlow(kind)
    PROVE  IInv'
<1> USE DEF OpenFlow, UnchangedByScreens, outside
<1>1. FlowInv'
  BY DEF IInv, FlowInv, FlowRecords, MainIsIdle
<1>2. RowsInv' /\ TasksInv' /\ LoopInv' /\ WorldInv'
  BY RowsSame, TasksSame, LoopSame, WorldSame DEF IInv
<1>3. CountInv'
  BY ModificationAssumption DEF IInv, CountInv
<1> QED BY <1>1, <1>2, <1>3 DEF IInv

LEMMA IntroCreatesKeeps ==
    ASSUME IInv, NEW i \in Ids, IntroCreates(i)
    PROVE  IInv'
<1> USE DEF IntroCreates, UnchangedByScreens, outside
<1> DEFINE r == [NoRow EXCEPT !.status = "draft", !.kind = flow.kind, !.data = DummyData]
<1>1. r \in Rows /\ r.status = "draft"
  BY ConstantFacts DEF IInv, FlowInv, FlowRecords, Rows, Statuses
<1>2. RowOK(r)
  BY <1>1, OpenRowOK DEF Processed
<1>3. RowsInv'
  <2>1. rows' = [rows EXCEPT ![i] = r]
    OBVIOUS
  <2> HIDE DEF r
  <2> QED BY <1>1, <1>2, <2>1, RowWritten DEF IInv
<1>4. FlowInv'
  BY DEF IInv, FlowInv, FlowRecords
<1>5. TasksInv' /\ LoopInv' /\ WorldInv' /\ CountInv'
  BY TasksSame, LoopSame, WorldSame, CountSame DEF IInv
<1> QED BY <1>3, <1>4, <1>5 DEF IInv

LEMMA IntroEstimatesKeeps ==
    ASSUME IInv, IntroEstimates
    PROVE  IInv'
<1> USE DEF IntroEstimates, UnchangedByScreens, outside
<1> DEFINE r == [rows[flow.id] EXCEPT !.status = "draft", !.nonce = NextNonce]
<1>1. flow.id \in Ids /\ rows[flow.id] \in Rows
  BY DEF IInv, FlowInv, RowsInv
<1>2. "draft" \in Statuses /\ NextNonce \in 0 .. MaxNonce
  BY NonceFacts DEF Statuses, IInv
<1>3. r \in Rows /\ r.status = "draft"
  BY <1>1, <1>2, RowWith
<1>4. RowsInv'
  <2>1. rows' = [rows EXCEPT ![flow.id] = r]
    OBVIOUS
  <2> HIDE DEF r
  <2>2. RowOK(r)
    BY <1>3, OpenRowOK DEF Processed
  <2> QED BY <1>1, <1>3, <2>1, <2>2, RowWritten DEF IInv
<1>5. FlowInv'
  BY ScreenFacts DEF IInv
<1>6. TasksInv' /\ LoopInv' /\ WorldInv' /\ CountInv'
  BY TasksSame, LoopSame, WorldSame, CountSame DEF IInv
<1> QED BY <1>4, <1>5, <1>6 DEF IInv

LEMMA StartFlowKeeps ==
    ASSUME IInv, StartFlow
    PROVE  IInv'
<1>1. CASE Missing(flow.id)
  BY <1>1, TrapKeeps DEF StartFlow
<1>2. CASE ~Missing(flow.id)
  <2> USE <1>2 DEF StartFlow, UnchangedByScreens, outside
  <2>1. FlowInv'
    BY ScreenFacts DEF IInv
  <2>2. RowsInv' /\ TasksInv' /\ LoopInv' /\ WorldInv' /\ CountInv'
    BY RowsSame, TasksSame, LoopSame, WorldSame, CountSame DEF IInv
  <2> QED BY <2>1, <2>2 DEF IInv
<1> QED BY <1>1, <1>2

LEMMA BackKeeps ==
    ASSUME IInv, Back
    PROVE  IInv'
<1> USE DEF Back, UnchangedByScreens, outside
<1>1. FlowInv'
  <2>1. flow.screen \in {"loading", "estimating", "ready", "pair", "phrase", "review"}
    BY DEF IInv, FlowInv, FlowRecords
  <2>2. /\ Previous \in {"menu", "ready", "pair", "phrase"}
        /\ Previous # "menu" => flow.screen \notin {"menu", "loading"}
    BY <2>1 DEF Previous
  <2> QED BY <2>2, ScreenFacts DEF IInv
<1>2. TasksInv'
  <2>1. tasks \in [Tasks -> TaskRecords]
    BY DEF IInv, TasksInv
  <2>2. ASSUME NEW k \in Tasks
        PROVE  /\ tasks'[k] \in TaskRecords
               /\ tasks'[k].pc = tasks[k].pc /\ tasks'[k].id = tasks[k].id
               /\ tasks'[k].copy = tasks[k].copy /\ tasks'[k].ext = tasks[k].ext
    <3>1. tasks[k] \in TaskRecords
      BY <2>1
    <3>2. /\ [tasks[k] EXCEPT !.left = TRUE] \in TaskRecords
          /\ [tasks[k] EXCEPT !.left = TRUE].pc = tasks[k].pc
          /\ [tasks[k] EXCEPT !.left = TRUE].id = tasks[k].id
          /\ [tasks[k] EXCEPT !.left = TRUE].copy = tasks[k].copy
          /\ [tasks[k] EXCEPT !.left = TRUE].ext = tasks[k].ext
      BY <3>1 DEF TaskRecords
    <3>3. tasks'[k] = [tasks[k] EXCEPT !.left = TRUE] \/ tasks'[k] = tasks[k]
      OBVIOUS
    <3> QED BY <3>1, <3>2, <3>3
  <2>3. tasks' \in [Tasks -> TaskRecords]
    BY <2>2
  <2>4. ASSUME NEW k \in Tasks PROVE TaskOK(tasks[k])'
    BY <2>2 DEF TaskOK, IInv, TasksInv
  <2> QED BY <2>3, <2>4 DEF TasksInv
<1>3. RowsInv' /\ LoopInv' /\ WorldInv' /\ CountInv'
  BY RowsSame, LoopSame, WorldSame, CountSame DEF IInv
<1> QED BY <1>1, <1>2, <1>3 DEF IInv

LEMMA ChangePaymentTokenKeeps ==
    ASSUME IInv, ChangePaymentToken
    PROVE  IInv'
<1> USE DEF ChangePaymentToken, outside
<1>1. wallet' \in Wallets /\ wallet'.ext = wallet.ext
  BY ModificationAssumption DEF IInv, LoopInv, CountInv, Wallets
<1>2. LoopInv'
  BY <1>1 DEF IInv, LoopInv, WasOwner, NamedWasOwner
<1>3. CountInv'
  BY ModificationAssumption DEF IInv, CountInv, budgets
<1>4. RowsInv' /\ FlowInv' /\ TasksInv' /\ WorldInv'
  BY RowsSame, FlowSame, TasksSame, WorldSame DEF IInv
<1> QED BY <1>2, <1>3, <1>4 DEF IInv

-----------------------------------------------------------------------------
(* Signing.                                                                *)

LEMMA MainRecordFacts ==
    ASSUME NEW pc \in {"idle", "reading", "estimating", "checking"}, NEW c \in Rows
    PROVE  [pc |-> pc, copy |-> c] \in MainRecords
BY DEF MainRecords

\* The row is saved as it was or as a draft, and a copy of it is kept.
LEMMA StepsBackFacts ==
    ASSUME RowsInv, FlowInv, UNCHANGED <<relay, receipts, flow>>,
           flow.screen = "phrase", wallet.ext \in AnyExt,
           NEW row \in Rows, RowOK(row), NEW pc \in {"reading", "estimating"},
           StepsBackAndWaits(flow.id, row, pc)
    PROVE  RowsInv' /\ FlowInv'
<1> DEFINE b == SteppedBack(row)
<1>1. b \in Rows /\ (b.status \in {"pending"} \cup Processed => b = row)
  BY SteppedBackFacts
<1>2. flow.id \in Ids
  BY DEF FlowInv
<1>3. rows' = [rows EXCEPT ![flow.id] = b]
  BY DEF StepsBackAndWaits
<1>4. [b EXCEPT !.data = Call(wallet.ext, NoExt)] \in Rows
  BY <1>1, RowWith, CallFacts DEF AnyExt
<1>5. \E c \in Rows : main' = [pc |-> pc, copy |-> c]
  BY <1>1, <1>4 DEF StepsBackAndWaits
<1> HIDE DEF b
<1>6. RowOK(b)
  BY <1>1, OpenRowOK
<1>7. RowsInv'
  BY <1>1, <1>2, <1>3, <1>6, RowWritten
<1>8. main' \in MainRecords
  BY <1>5, MainRecordFacts
<1>9. FlowInv'
  BY <1>8 DEF FlowInv
<1> QED BY <1>7, <1>9

LEMMA ReadOwnersFacts ==
    ASSUME CountInv, NEW owners, ReadOwners(owners),
           UNCHANGED <<cleanup, chosen, trap, flows, scans, crashes>>
    PROVE  CountInv'
BY ModificationAssumption DEF CountInv, ReadOwners

LEMMA SignBeginsKeeps ==
    ASSUME IInv, SignBegins
    PROVE  IInv'
<1>1. CASE Missing(flow.id)
  BY <1>1, TrapKeeps DEF SignBegins
<1>2. CASE ~Missing(flow.id)
  <2> USE <1>2 DEF SignBegins, UnchangedBySigning, outside
  <2>1. flow.id \in Ids /\ rows[flow.id] \in Rows /\ RowOK(rows[flow.id]) /\ wallet.ext \in AnyExt
    BY DEF IInv, FlowInv, RowsInv, LoopInv, Wallets
  <2>2. RowsInv' /\ FlowInv'
    BY <2>1, StepsBackFacts DEF IInv
  <2>3. TasksInv' /\ LoopInv' /\ WorldInv' /\ CountInv'
    BY TasksSame, LoopSame, WorldSame, CountSame DEF IInv
  <2> QED BY <2>2, <2>3 DEF IInv
<1> QED BY <1>1, <1>2

LEMMA SignReadsKeeps ==
    ASSUME IInv, SignReads
    PROVE  IInv'
<1>1. CASE ~Editable(main.copy)
  BY <1>1, TrapKeeps DEF SignReads
<1>2. CASE Editable(main.copy)
  <2> USE <1>2 DEF UnchangedBySigning, outside, Counters
  <2>1. PICK owners \in {{}, {contract}} :
          /\ ReadOwners(owners)
          /\ StepsBackAndWaits(flow.id, WithRealData(main.copy, owners), "estimating")
          /\ UnchangedBySigning /\ UNCHANGED <<flow, Counters>>
    BY DEF SignReads
  <2>2. main.copy \in Rows /\ flow.screen = "phrase" /\ wallet.ext \in AnyExt
    BY DEF SignReads, IInv, FlowInv, MainRecords, LoopInv, Wallets
  <2>3. WithRealData(main.copy, owners) \in Rows /\ WithRealData(main.copy, owners).status = "draft"
    BY <2>2, RealDataFacts DEF Editable
  <2>4. RowOK(WithRealData(main.copy, owners))
    BY <2>3, OpenRowOK DEF Processed
  <2>5. RowsInv' /\ FlowInv'
    BY <2>1, <2>2, <2>3, <2>4, StepsBackFacts DEF IInv
  <2>6. TasksInv' /\ LoopInv' /\ WorldInv' /\ CountInv'
    BY <2>1, TasksSame, LoopSame, WorldSame, ReadOwnersFacts DEF IInv
  <2> QED BY <2>5, <2>6 DEF IInv
<1> QED BY <1>1, <1>2

LEMMA SignEstimatesKeeps ==
    ASSUME IInv, SignEstimates
    PROVE  IInv'
<1>1. CASE ~Editable(main.copy)
  BY <1>1, TrapKeeps DEF SignEstimates
<1>2. CASE Editable(main.copy)
  <2> USE <1>2 DEF SignEstimates, UnchangedBySigning, outside
  <2> DEFINE r == [main.copy EXCEPT !.nonce = NextNonce]
  <2>1. main.copy \in Rows /\ flow.screen = "phrase" /\ flow.id \in Ids
    BY DEF IInv, FlowInv, MainRecords
  <2>2. NextNonce \in 0 .. MaxNonce
    BY NonceFacts DEF IInv
  <2>3. r \in Rows /\ r.status = "draft"
    BY <2>1, <2>2, RowWith DEF Editable
  <2>4. rows' = [rows EXCEPT ![flow.id] = r]
    OBVIOUS
  <2>5. RowsInv'
    <3> HIDE DEF r
    <3>1. RowOK(r)
      BY <2>3, OpenRowOK DEF Processed
    <3> QED BY <2>1, <2>3, <2>4, <3>1, RowWritten DEF IInv
  <2>6. FlowInv'
    BY <2>1, ConstantFacts, MainRecordFacts DEF IInv, FlowInv
  <2>7. TasksInv' /\ LoopInv' /\ WorldInv' /\ CountInv'
    BY TasksSame, LoopSame, WorldSame, CountSame DEF IInv
  <2> QED BY <2>5, <2>6, <2>7 DEF IInv
<1> QED BY <1>1, <1>2

LEMMA SignFinishesKeeps ==
    ASSUME IInv, SignFinishes
    PROVE  IInv'
<1>1. CASE Missing(flow.id) \/ ~Editable(rows[flow.id])
  BY <1>1, TrapKeeps DEF SignFinishes
<1>2. CASE ~Missing(flow.id) /\ Editable(rows[flow.id])
  <2> USE <1>2 DEF SignFinishes, UnchangedBySigning, outside
  <2> DEFINE tx == rows[flow.id]
             s == tx.sigs \cup {HashOf(tx)}
             r == [tx EXCEPT !.status = "signing", !.sigs = s]
  <2>1. flow.screen = "phrase" /\ flow.id \in Ids /\ tx \in Rows
    BY DEF IInv, FlowInv, RowsInv
  <2>2. s \in SUBSET Hashes
    <3>1. tx.sigs \in SUBSET Hashes
      BY <2>1 DEF Rows
    <3> QED BY <2>1, <3>1, HashFacts
  <2>3. rows' = [rows EXCEPT ![flow.id] = r]
    BY DEF s, r
  <2>4. r \in Rows /\ r.status = "signing"
    <3> HIDE DEF s, tx
    <3> QED BY <2>1, <2>2 DEF Rows, Statuses
  <2>5. RowsInv'
    <3> HIDE DEF r
    <3>1. RowOK(r)
      BY <2>4, OpenRowOK DEF Processed
    <3> QED BY <2>1, <2>3, <2>4, <3>1, RowWritten DEF IInv
  <2>6. FlowInv'
    BY <2>1, ConstantFacts, MainRecordFacts DEF IInv, FlowInv, IdleMain, Screen, FlowRecords
  <2>7. TasksInv' /\ LoopInv' /\ WorldInv' /\ CountInv'
    BY TasksSame, LoopSame, WorldSame, CountSame DEF IInv
  <2> QED BY <2>5, <2>6, <2>7 DEF IInv
<1> QED BY <1>1, <1>2

LEMMA SignThrowsKeeps ==
    ASSUME IInv, SignThrows
    PROVE  IInv'
<1> USE DEF SignThrows, UnchangedBySigning, outside
<1>1. FlowInv'
  BY ConstantFacts, MainRecordFacts DEF IInv, FlowInv, IdleMain
<1>2. RowsInv' /\ TasksInv' /\ LoopInv' /\ WorldInv' /\ CountInv'
  BY RowsSame, TasksSame, LoopSame, WorldSame, CountSame DEF IInv
<1> QED BY <1>1, <1>2 DEF IInv

-----------------------------------------------------------------------------
(* Tasks: a scanned code.                                                  *)

\* The row a task works on, and its copy.
LEMMA TaskRowFacts ==
    ASSUME IInv, NEW k \in Tasks, tasks[k].pc # "idle"
    PROVE  /\ tasks[k] \in TaskRecords /\ tasks[k].id \in Ids
           /\ tasks[k].copy \in Rows /\ tasks[k].ext \in AnyExt /\ tasks[k].kind \in Kinds
           /\ rows[tasks[k].id] \in Rows /\ RowOK(rows[tasks[k].id])
           /\ wallet \in Wallets /\ wallet.ext \in AnyExt
BY DEF IInv, TasksInv, TaskOK, TaskRecords, RowsInv, LoopInv, Wallets

LEMMA ScanKeeps ==
    ASSUME IInv, NEW k \in Tasks, NEW e \in Exts, Scan(k, e)
    PROVE  IInv'
<1> USE DEF Scan, UnchangedByTasks
<1> DEFINE t == [NoTask EXCEPT !.pc = "validating", !.kind = flow.kind, !.id = flow.id, !.ext = e]
<1>1. flow.id \in Ids /\ flow.kind \in Kinds
  BY DEF IInv, FlowInv, FlowRecords
<1>2. t \in TaskRecords /\ t.pc = "validating" /\ t.id \in Ids /\ t.ext = e
  BY <1>1, NoTaskFacts DEF TaskRecords, TaskPlaces, AnyExt
<1>3. TasksInv'
  <2>1. TaskOK(t)
    BY <1>2 DEF TaskOK
  <2> QED BY <1>2, <2>1, TaskWritten DEF IInv
<1>4. RowsInv' /\ FlowInv' /\ LoopInv' /\ WorldInv'
  BY RowsSame, FlowSame, LoopSame, WorldSame DEF IInv
<1>5. CountInv'
  BY ModificationAssumption DEF IInv, CountInv
<1> QED BY <1>3, <1>4, <1>5 DEF IInv

LEMMA PairValidatesKeeps ==
    ASSUME IInv, NEW k \in Tasks, PairValidates(k)
    PROVE  IInv'
<1>1. CASE Missing(tasks[k].id)
  BY <1>1, TrapKeeps DEF PairValidates
<1>2. CASE ~Missing(tasks[k].id)
  <2> USE <1>2 DEF UnchangedByTasks, Counters, outside
  <2> DEFINE p == IF rows[tasks[k].id].data = NilData THEN "pairing" ELSE "unpairing"
  <2>1. PICK owners \in {{}, {contract}} :
          /\ ReadOwners(owners)
          /\ \/ Ends(k)
             \/ tasks' = [tasks EXCEPT ![k].copy = rows[tasks[k].id], ![k].pc = p]
          /\ UNCHANGED <<rows, monitor, flow, relay, receipts, pairs, Counters>>
          /\ UnchangedByTasks
    BY DEF PairValidates
  <2>2. tasks[k].pc # "idle" /\ tasks[k].pc \in Scanning
    BY DEF PairValidates, At, Scanning
  <2>3. TasksInv'
    <3>1. CASE Ends(k)
      BY <2>1, <3>1, TaskEnds DEF IInv
    <3>2. CASE tasks' = [tasks EXCEPT ![k].copy = rows[tasks[k].id], ![k].pc = p]
      <4>1. p \in TaskPlaces \ {"accepted"}
        BY DEF TaskPlaces
      <4>2. rows[tasks[k].id] \in Rows
        BY <2>2, TaskRowFacts
      <4> DEFINE c == rows[tasks[k].id]
      <4>3. c \in Rows /\ tasks' = [tasks EXCEPT ![k].copy = c, ![k].pc = p]
        BY <3>2, <4>2
      <4> HIDE DEF p, c
      <4> QED BY <2>1, <2>2, <4>1, <4>3, TaskGoesWith DEF IInv
    <3> QED BY <2>1, <3>1, <3>2
  <2>4. RowsInv' /\ FlowInv' /\ LoopInv' /\ WorldInv' /\ CountInv'
    BY <2>1, RowsSame, FlowSame, LoopSame, WorldSame, ReadOwnersFacts DEF IInv
  <2> QED BY <2>3, <2>4 DEF IInv
<1> QED BY <1>1, <1>2

LEMMA PairUnpairsKeeps ==
    ASSUME IInv, NEW k \in Tasks, PairUnpairs(k)
    PROVE  IInv'
<1> USE DEF PairUnpairs, UnchangedByTasks
<1>1. TasksInv'
  BY TaskGoes DEF IInv, At, TaskPlaces, Scanning
<1>2. WorldInv'
  BY PairsChange DEF IInv, WorldInv
<1>3. RowsInv' /\ FlowInv' /\ LoopInv' /\ CountInv'
  BY RowsSame, FlowSame, LoopSame, CountSame DEF IInv
<1> QED BY <1>1, <1>2, <1>3 DEF IInv

LEMMA PairPairsKeeps ==
    ASSUME IInv, NEW k \in Tasks, PairPairs(k)
    PROVE  IInv'
<1> DEFINE i == tasks[k].id
           tx == SteppedBack(rows[i])
           traps == \/ Missing(i)
                    \/ tasks[k].kind = "replace" /\ wallet.ext = NoExt
                    \/ tasks[k].kind = "connect" /\ ~Editable(tx)
<1>1. CASE traps
  BY <1>1, TrapKeeps DEF PairPairs
<1>2. CASE ~traps
  <2>1. /\ tasks[k].pc # "idle"
        /\ pairs' = pairs \cup {tasks[k].ext}
        /\ UNCHANGED <<monitor, flow, relay, receipts, budgets>> /\ UnchangedByTasks
        /\ IF tasks[k].kind = "connect"
           THEN /\ rows' = [rows EXCEPT ![i] = [tx EXCEPT !.data = Call(NoExt, tasks[k].ext)]]
                /\ tasks' = [tasks EXCEPT ![k].pc = "paired", ![k].copy = NoRow]
           ELSE /\ rows' = [rows EXCEPT ![i] = tx]
                /\ tasks' = [tasks EXCEPT ![k].pc = "reading",
                              ![k].copy = [tx EXCEPT !.data = Call(wallet.ext, tasks[k].ext)]]
    BY <1>2 DEF PairPairs, At
  <2> USE DEF UnchangedByTasks
  <2>2. i \in Ids /\ rows[i] \in Rows /\ RowOK(rows[i])
        /\ tasks[k].ext \in AnyExt /\ wallet.ext \in AnyExt
    BY <2>1, TaskRowFacts
  <2>3. tx \in Rows /\ (tx.status \in {"pending"} \cup Processed => tx = rows[i])
    BY <2>2, SteppedBackFacts
  <2>4. RowOK(tx)
    BY <2>2, <2>3, OpenRowOK
  <2>0. /\ TasksInv /\ UNCHANGED relay
        /\ "paired" \in TaskPlaces \ {"accepted"} /\ "paired" \notin Scanning
        /\ "reading" \in TaskPlaces \ {"accepted"} /\ "reading" \notin Scanning
    BY <2>1 DEF IInv, TaskPlaces, Scanning
  <2>5. ASSUME tasks[k].kind = "connect" PROVE RowsInv' /\ TasksInv'
    <3> DEFINE d == Call(NoExt, tasks[k].ext)
               r == [tx EXCEPT !.data = d]
    <3>1. d \in Data
      BY <2>2, CallFacts DEF AnyExt
    <3>2. r \in Rows /\ r.status = "draft"
      BY <1>2, <2>3, <2>5, <3>1, RowWith DEF Editable
    <3>3. rows' = [rows EXCEPT ![i] = r]
      BY <2>1, <2>5
    <3>4. RowOK(r)
      BY <3>2, OpenRowOK DEF Processed
    <3>5. RowsInv'
      <4> HIDE DEF r, i, tx
      <4> QED BY <2>1, <2>2, <3>2, <3>3, <3>4, RowWritten DEF IInv
    <3>6. TasksInv'
      <4>1. tasks' = [tasks EXCEPT ![k].pc = "paired", ![k].copy = NoRow] /\ NoRow \in Rows
        BY <2>1, <2>5, ConstantFacts
      <4> QED BY <2>0, <2>1, <4>1, TaskGoesWith
    <3> QED BY <3>5, <3>6
  <2>6. ASSUME tasks[k].kind # "connect" PROVE RowsInv' /\ TasksInv'
    <3> DEFINE c == [tx EXCEPT !.data = Call(wallet.ext, tasks[k].ext)]
    <3>1. RowsInv'
      <4>1. rows' = [rows EXCEPT ![i] = tx]
        BY <2>1, <2>6
      <4> HIDE DEF tx, i
      <4> QED BY <2>1, <2>2, <2>3, <2>4, <4>1, RowWritten DEF IInv
    <3>2. c \in Rows
      BY <2>2, <2>3, CallFacts, RowWith
    <3>3. TasksInv'
      <4>1. tasks' = [tasks EXCEPT ![k].pc = "reading", ![k].copy = c]
        BY <2>1, <2>6
      <4> HIDE DEF c
      <4> QED BY <2>0, <2>1, <3>2, <4>1, TaskGoesWith
    <3> QED BY <3>1, <3>3
  <2>7. WorldInv'
    <3>1. tasks[k].ext \in Exts
      BY DEF PairPairs, At, Scanning, IInv, TasksInv, TaskOK
    <3> QED BY <2>1, <3>1, PairsChange DEF IInv, WorldInv
  <2>8. FlowInv' /\ LoopInv' /\ CountInv'
    BY <2>1, FlowSame, LoopSame, CountSame DEF IInv
  <2> QED BY <2>5, <2>6, <2>7, <2>8 DEF IInv
<1> QED BY <1>1, <1>2

LEMMA PairReadsKeeps ==
    ASSUME IInv, NEW k \in Tasks, PairReads(k)
    PROVE  IInv'
<1>1. CASE ~Editable(tasks[k].copy)
  BY <1>1, TrapKeeps DEF PairReads
<1>2. CASE Editable(tasks[k].copy)
  <2> USE <1>2 DEF UnchangedByTasks, Counters
  <2>1. PICK owners \in {{}, {contract}} :
          /\ ReadOwners(owners)
          /\ rows' = [rows EXCEPT ![tasks[k].id] = WithRealData(tasks[k].copy, owners)]
          /\ tasks' = [tasks EXCEPT ![k].pc = "paired", ![k].copy = NoRow]
          /\ UNCHANGED <<monitor, flow, relay, receipts, pairs, Counters>>
          /\ UnchangedByTasks
    BY DEF PairReads
  <2>2. tasks[k].pc # "idle" /\ tasks[k].id \in Ids /\ tasks[k].copy \in Rows
    BY TaskRowFacts DEF PairReads, At
  <2>3. RowsInv'
    <3> DEFINE i == tasks[k].id
               r == WithRealData(tasks[k].copy, owners)
    <3>1. r \in Rows /\ r.status = "draft"
      BY <2>2, RealDataFacts DEF Editable
    <3>2. RowOK(r)
      BY <3>1, OpenRowOK DEF Processed
    <3>3. rows' = [rows EXCEPT ![i] = r] /\ i \in Ids
      BY <2>1, <2>2
    <3> HIDE DEF r, i
    <3> QED BY <2>1, <3>1, <3>2, <3>3, RowWritten DEF IInv
  <2>4. TasksInv'
    <3>1. /\ TasksInv /\ UNCHANGED relay /\ NoRow \in Rows
          /\ "paired" \in TaskPlaces \ {"accepted"} /\ "paired" \notin Scanning
      BY <2>1, ConstantFacts DEF IInv, TaskPlaces, Scanning
    <3> QED BY <2>1, <2>2, <3>1, TaskGoesWith
  <2>5. FlowInv' /\ LoopInv' /\ WorldInv' /\ CountInv'
    BY <2>1, FlowSame, LoopSame, WorldSame, ReadOwnersFacts DEF IInv
  <2> QED BY <2>3, <2>4, <2>5 DEF IInv
<1> QED BY <1>1, <1>2

\* A task of the review screen begins.
LEMMA ReviewBegins ==
    ASSUME TasksInv, UNCHANGED relay, NEW k \in Tasks, NEW kind \in Kinds, NEW i \in Ids,
           \/ tasks' = [tasks EXCEPT ![k] =
                 [NoTask EXCEPT !.pc = "start", !.kind = kind, !.id = i]]
           \/ tasks' = [tasks EXCEPT ![k] =
                 [NoTask EXCEPT !.pc = "start", !.kind = kind, !.id = i, !.action = "submit"]]
    PROVE  TasksInv'
<1> DEFINE t == [NoTask EXCEPT !.pc = "start", !.kind = kind, !.id = i]
           u == [NoTask EXCEPT !.pc = "start", !.kind = kind, !.id = i, !.action = "submit"]
<1>1. /\ t \in TaskRecords /\ t.pc = "start" /\ t.id = i
      /\ u \in TaskRecords /\ u.pc = "start" /\ u.id = i
  BY NoTaskFacts DEF TaskRecords, TaskPlaces
<1>2. TaskOK(t) /\ TaskOK(u)
  BY <1>1 DEF TaskOK, Scanning
<1>3. tasks' = [tasks EXCEPT ![k] = t] \/ tasks' = [tasks EXCEPT ![k] = u]
  OBVIOUS
<1> HIDE DEF t, u
<1> QED BY <1>1, <1>2, <1>3, TaskWritten

LEMMA PairFinishesKeeps ==
    ASSUME IInv, NEW k \in Tasks, PairFinishes(k)
    PROVE  IInv'
<1> USE DEF UnchangedByTasks
<1>1. /\ MainIsIdle /\ tasks[k].pc # "idle"
      /\ UNCHANGED <<rows, monitor, relay, receipts, pairs, budgets>> /\ UnchangedByTasks
  BY DEF PairFinishes, At
<1>2. tasks[k].id \in Ids /\ tasks[k].kind \in Kinds
  BY <1>1, TaskRowFacts
<1>3. TasksInv'
  <2>1. CASE Ends(k)
    BY <1>1, <2>1, TaskEnds DEF IInv
  <2>2. CASE ~Ends(k)
    <3>1. tasks' = [tasks EXCEPT ![k] = [NoTask EXCEPT !.pc = "start", !.kind = "connect",
                                                      !.id = tasks[k].id]]
      BY <2>2 DEF PairFinishes
    <3> DEFINE i == tasks[k].id
    <3>2. i \in Ids /\ tasks' = [tasks EXCEPT ![k] = [NoTask EXCEPT !.pc = "start",
                                                       !.kind = "connect", !.id = i]]
      BY <1>2, <3>1
    <3> HIDE DEF i
    <3> QED BY <1>1, <3>2, ReviewBegins DEF IInv, Kinds
  <2> QED BY <2>1, <2>2
<1>4. FlowInv'
  BY <1>1, <1>2 DEF PairFinishes, IInv, FlowInv, FlowRecords, MainIsIdle
<1>5. RowsInv' /\ LoopInv' /\ WorldInv' /\ CountInv'
  BY <1>1, RowsSame, LoopSame, WorldSame, CountSame DEF IInv
<1> QED BY <1>3, <1>4, <1>5 DEF IInv

LEMMA ThrowsKeeps ==
    ASSUME IInv, NEW k \in Tasks, PairThrows(k) \/ ReviewThrows(k)
    PROVE  IInv'
<1> USE DEF PairThrows, ReviewThrows, UnchangedByTasks
<1>1. TasksInv'
  BY TaskEnds DEF IInv
<1>2. RowsInv' /\ FlowInv' /\ LoopInv' /\ WorldInv' /\ CountInv'
  BY RowsSame, FlowSame, LoopSame, WorldSame, CountSame DEF IInv
<1> QED BY <1>1, <1>2 DEF IInv

-----------------------------------------------------------------------------
(* Tasks: the review screen.                                               *)

LEMMA SubmitKeeps ==
    ASSUME IInv, NEW k \in Tasks, Submit(k)
    PROVE  IInv'
<1> USE DEF Submit, UnchangedByTasks
<1>1. flow.id \in Ids /\ flow.kind \in Kinds
  BY DEF IInv, FlowInv, FlowRecords
<1>2. TasksInv'
  <2> DEFINE i == flow.id
             kind == flow.kind
  <2>1. tasks' = [tasks EXCEPT ![k] = [NoTask EXCEPT !.pc = "start", !.kind = kind, !.id = i,
                                                    !.action = "submit"]]
    OBVIOUS
  <2>2. i \in Ids /\ kind \in Kinds /\ TasksInv /\ UNCHANGED relay
    BY <1>1 DEF IInv
  <2> HIDE DEF i, kind, Submit, UnchangedByTasks
  <2> QED BY <2>1, <2>2, ReviewBegins, Zenon
<1>3. RowsInv' /\ FlowInv' /\ LoopInv' /\ WorldInv' /\ CountInv'
  BY RowsSame, FlowSame, LoopSame, WorldSame, CountSame DEF IInv
<1> QED BY <1>2, <1>3 DEF IInv

LEMMA ReviewStartsKeeps ==
    ASSUME IInv, NEW k \in Tasks, ReviewStarts(k)
    PROVE  IInv'
<1>1. CASE Missing(tasks[k].id)
  BY <1>1, TrapKeeps DEF ReviewStarts
<1>2. CASE ~Missing(tasks[k].id)
  <2> USE <1>2 DEF UnchangedByTasks
  <2> DEFINE c == rows[tasks[k].id]
  <2>1. /\ tasks[k].pc # "idle"
        /\ UNCHANGED <<rows, monitor, flow, relay, receipts, pairs, budgets>> /\ UnchangedByTasks
        /\ \/ tasks' = [tasks EXCEPT ![k].pc = "estimating", ![k].copy = c]
           \/ Goes(k, "act")
    BY DEF ReviewStarts, At
  <2>2. /\ TasksInv /\ UNCHANGED relay /\ c \in Rows
        /\ "estimating" \in TaskPlaces \ {"accepted"} /\ "estimating" \notin Scanning
        /\ "act" \in TaskPlaces \ {"accepted"} /\ "act" \notin Scanning
    BY <2>1, TaskRowFacts DEF IInv, TaskPlaces, Scanning
  <2>3. TasksInv'
    <3> HIDE DEF c
    <3> QED BY <2>1, <2>2, TaskGoes, TaskGoesWith
  <2>4. RowsInv' /\ FlowInv' /\ LoopInv' /\ WorldInv' /\ CountInv'
    BY <2>1, RowsSame, FlowSame, LoopSame, WorldSame, CountSame DEF IInv
  <2> QED BY <2>3, <2>4 DEF IInv
<1> QED BY <1>1, <1>2

LEMMA ReviewEstimatesKeeps ==
    ASSUME IInv, NEW k \in Tasks, ReviewEstimates(k)
    PROVE  IInv'
<1> DEFINE i == tasks[k].id
           n == NextNonce
           r == [tasks[k].copy EXCEPT !.nonce = n, !.status = "signing"]
<1>1. tasks[k].pc # "idle" /\ i \in Ids /\ tasks[k].copy \in Rows
  BY TaskRowFacts DEF ReviewEstimates, At
<1>2. r \in Rows /\ r.status = "signing"
  <2>1. n \in 0 .. MaxNonce /\ "signing" \in Statuses
    BY NonceFacts DEF Statuses, IInv
  <2> HIDE DEF n
  <2> DEFINE c == tasks[k].copy
  <2>2. c \in Rows
    BY <1>1
  <2> HIDE DEF c
  <2>3. /\ [c EXCEPT !.nonce = n, !.status = "signing"] \in Rows
        /\ [c EXCEPT !.nonce = n, !.status = "signing"].status = "signing"
    BY <2>1, <2>2 DEF Rows
  <2> QED BY <2>3 DEF c
<1> USE DEF ReviewEstimates, UnchangedByTasks
<1>3. RowsInv'
  <2>1. RowOK(r)
    BY <1>2, OpenRowOK DEF Processed
  <2>2. rows' = [rows EXCEPT ![i] = r]
    OBVIOUS
  <2> HIDE DEF i, r
  <2> QED BY <1>1, <1>2, <2>1, <2>2, RowWritten DEF IInv
<1>4. TasksInv'
  <2>1. /\ TasksInv /\ UNCHANGED relay /\ NoRow \in Rows
        /\ "act" \in TaskPlaces \ {"accepted"} /\ "act" \notin Scanning
        /\ tasks' = [tasks EXCEPT ![k].pc = "act", ![k].copy = NoRow]
    BY ConstantFacts DEF IInv, TaskPlaces, Scanning
  <2> QED BY <1>1, <2>1, TaskGoesWith
<1>5. FlowInv' /\ LoopInv' /\ WorldInv' /\ CountInv'
  BY FlowSame, LoopSame, WorldSame, CountSame DEF IInv
<1> QED BY <1>3, <1>4, <1>5 DEF IInv

LEMMA ReviewActsKeeps ==
    ASSUME IInv, NEW k \in Tasks, ReviewActs(k)
    PROVE  IInv'
<1> DEFINE tx == rows[tasks[k].id]
           c == IF tx.kind = "connect" THEN [tx EXCEPT !.sigs = {HashOf(tx)}] ELSE tx
<1>1. CASE Trap("find") \/ Trap("unsigned")
  BY <1>1, TrapKeeps
<1>2. CASE ~(Trap("find") \/ Trap("unsigned"))
  <2> USE DEF UnchangedByTasks
  <2>0. tasks[k].action \in {"request", "submit"} /\ tasks[k].pc # "idle" /\ tx \in Rows
    BY TaskRowFacts DEF ReviewActs, At, TaskRecords
  <2>1. /\ UNCHANGED <<rows, monitor, flow, relay, receipts, pairs, budgets>> /\ UnchangedByTasks
        /\ Ends(k) \/ tasks' = [tasks EXCEPT ![k].pc = "relaying", ![k].copy = c]
    BY <1>2, <2>0 DEF ReviewActs
  <2>2. c \in Rows
    BY <2>0, HashFacts
  <2>3. TasksInv'
    <3>1. /\ TasksInv /\ UNCHANGED relay
          /\ "relaying" \in TaskPlaces \ {"accepted"} /\ "relaying" \notin Scanning
      BY <2>1 DEF IInv, TaskPlaces, Scanning
    <3> HIDE DEF c
    <3> QED BY <2>0, <2>1, <2>2, <3>1, TaskEnds, TaskGoesWith
  <2>4. RowsInv' /\ FlowInv' /\ LoopInv' /\ WorldInv' /\ CountInv'
    BY <2>1, RowsSame, FlowSame, LoopSame, WorldSame, CountSame DEF IInv
  <2> QED BY <2>3, <2>4 DEF IInv
<1> QED BY <1>1, <1>2

\* The relay takes the transaction at the end of its queue: what was there
\* stays where it was.
LEMMA RelayAcceptsKeeps ==
    ASSUME IInv, NEW k \in Tasks, RelayAccepts(k)
    PROVE  IInv'
<1> DEFINE tx == tasks[k].copy
           entry == [kind |-> tx.kind, data |-> tx.data]
<1>1. /\ tasks[k].pc # "idle" /\ tx \in Rows /\ tasks[k] \in TaskRecords /\ tasks[k].id \in Ids
      /\ tx.nonce = Len(relay) + 1 /\ Len(relay) + 1 < MaxNonce
      /\ relay' = Append(relay, entry) /\ Goes(k, "accepted")
      /\ UNCHANGED <<rows, monitor, flow, receipts, pairs, budgets>> /\ UnchangedByTasks
  BY TaskRowFacts DEF RelayAccepts, At, NextNonce
<1>2. entry \in [kind : Kinds, data : Data] /\ entry.data = tx.data
  BY <1>1 DEF Rows
<1>3. /\ relay \in Seq([kind : Kinds, data : Data]) /\ Len(relay) \in Nat
      /\ receipts \in Seq(Processed) /\ Len(receipts) \in Nat /\ Len(receipts) <= Len(relay)
  BY DEF IInv, WorldInv
<1>4. /\ relay' \in Seq([kind : Kinds, data : Data])
      /\ Len(relay') = Len(relay) + 1 /\ relay'[Len(relay) + 1] = entry
      /\ \A n \in 1 .. Len(relay) : relay'[n] = relay[n]
  <2> HIDE DEF entry
  <2> QED BY <1>1, <1>2, <1>3
<1> HIDE DEF entry
<1> USE DEF UnchangedByTasks
<1>5. RowsInv'
  <2>1. ASSUME NEW i \in Ids PROVE RowOK(rows[i])'
    <3>1. RowOK(rows[i]) /\ UNCHANGED <<rows, receipts>>
      BY <1>1 DEF IInv, RowsInv
    <3> QED BY <1>3, <1>4, <3>1 DEF RowOK
  <2>2. rows' \in [Ids -> Rows]
    BY <1>1 DEF IInv, RowsInv
  <2> QED BY <2>1, <2>2 DEF RowsInv
<1>6. TasksInv'
  <2>1. tasks \in [Tasks -> TaskRecords] /\ \A j \in Tasks : TaskOK(tasks[j])
    BY DEF IInv, TasksInv
  <2>2. "accepted" \in TaskPlaces
    BY DEF TaskPlaces
  <2>3. /\ tasks' \in [Tasks -> TaskRecords]
        /\ tasks'[k].pc = "accepted" /\ tasks'[k].id = tasks[k].id /\ tasks'[k].copy = tx
        /\ \A j \in Tasks \ {k} : tasks'[j] = tasks[j]
    BY <1>1, <2>1, <2>2 DEF Goes, TaskRecords
  <2>4. ASSUME NEW j \in Tasks, j # k PROVE TaskOK(tasks[j])'
    <3>1. TaskOK(tasks[j]) /\ tasks'[j] = tasks[j]
      BY <2>1, <2>3, <2>4
    <3> QED BY <1>3, <1>4, <3>1 DEF TaskOK
  <2>5. TaskOK(tasks[k])'
    BY <1>1, <1>2, <1>3, <1>4, <2>3 DEF TaskOK, Scanning
  <2> QED BY <2>3, <2>4, <2>5 DEF TasksInv
<1>7. WorldInv'
  <2>1. ASSUME NEW n \in 1 .. Len(receipts), receipts[n] = "success", relay'[n].data # NilData
        PROVE  relay'[n].data.new \in held
    <3>1. n \in 1 .. Len(relay)
      BY <1>3
    <3>2. relay'[n] = relay[n]
      BY <1>4, <3>1
    <3> QED BY <2>1, <3>2 DEF IInv, WorldInv
  <2> QED BY <1>1, <1>3, <1>4, <2>1 DEF IInv, WorldInv
<1>8. FlowInv' /\ LoopInv' /\ CountInv'
  BY <1>1, FlowSame, LoopSame, CountSame DEF IInv
<1> QED BY <1>5, <1>6, <1>7, <1>8 DEF IInv

LEMMA RelayAnswersKeeps ==
    ASSUME IInv, NEW k \in Tasks, RelayAnswers(k)
    PROVE  IInv'
<1> DEFINE i == tasks[k].id
           c == tasks[k].copy
           r == Submitted(c)
<1>1. tasks[k].pc = "accepted" /\ i \in Ids /\ c \in Rows
  BY TaskRowFacts DEF RelayAnswers, At
<1>2. /\ rows' = [rows EXCEPT ![i] = r]
      /\ tasks' = [tasks EXCEPT ![k].pc = "acted", ![k].copy = r]
      /\ UNCHANGED <<monitor, flow, relay, receipts, pairs, budgets>> /\ UnchangedByTasks
  BY DEF RelayAnswers
<1>3. c.nonce \in 1 .. Len(relay) /\ relay[c.nonce].data = c.data
  BY <1>1 DEF IInv, TasksInv, TaskOK
<1>4. /\ r \in Rows /\ r.sub = c.nonce /\ r.data = c.data
      /\ r.status \in {"signing", "pending"}
  BY <1>1, SubmittedFacts
<1> HIDE DEF r, i
<1> USE DEF UnchangedByTasks
<1>5. RowOK(r)
  BY <1>3, <1>4 DEF RowOK, Processed
<1>6. RowsInv'
  BY <1>1, <1>2, <1>4, <1>5, RowWritten DEF IInv
<1>7. TasksInv'
  <2>1. /\ TasksInv /\ UNCHANGED relay
        /\ "acted" \in TaskPlaces \ {"accepted"} /\ "acted" \notin Scanning
    BY <1>2 DEF IInv, TaskPlaces, Scanning
  <2> QED BY <1>1, <1>2, <1>4, <2>1, TaskGoesWith
<1>8. FlowInv' /\ LoopInv' /\ WorldInv' /\ CountInv'
  BY <1>2, FlowSame, LoopSame, WorldSame, CountSame DEF IInv
<1> QED BY <1>6, <1>7, <1>8 DEF IInv

LEMMA WithoutEntryFacts ==
    ASSUME monitor \in Seq(Ids), NEW i
    PROVE  WithoutEntry(i) \in Seq(Ids)
<1>1. CASE \E n \in 1 .. Len(monitor) : monitor[n] = i
  <2> DEFINE m == CHOOSE n \in 1 .. Len(monitor) : monitor[n] = i
  <2>1. m \in 1 .. Len(monitor)
    BY <1>1
  <2>2. WithoutEntry(i) = SubSeq(monitor, 1, m - 1) \o SubSeq(monitor, m + 1, Len(monitor))
    BY <1>1 DEF WithoutEntry
  <2> HIDE DEF m
  <2>3. /\ SubSeq(monitor, 1, m - 1) \in Seq(Ids)
        /\ SubSeq(monitor, m + 1, Len(monitor)) \in Seq(Ids)
    BY <2>1, SubSeqProperties
  <2> QED BY <2>2, <2>3, ConcatProperties
<1>2. CASE ~\E n \in 1 .. Len(monitor) : monitor[n] = i
  BY <1>2 DEF WithoutEntry
<1> QED BY <1>1, <1>2

LEMMA ReviewFinishesKeeps ==
    ASSUME IInv, NEW k \in Tasks, ReviewFinishes(k)
    PROVE  IInv'
<1> USE DEF UnchangedByTasks
<1>1. /\ MainIsIdle /\ tasks[k].pc # "idle" /\ Ends(k)
      /\ UNCHANGED <<rows, relay, receipts, pairs, budgets>> /\ UnchangedByTasks
      /\ \/ monitor' = Append(WithoutEntry(tasks[k].id), tasks[k].id) /\ flow' = NoFlow
         \/ UNCHANGED <<monitor, flow>>
  BY DEF ReviewFinishes, At
<1>2. TasksInv'
  BY <1>1, TaskEnds DEF IInv
<1>3. FlowInv'
  BY <1>1 DEF IInv, FlowInv, MainIsIdle, NoFlow, FlowRecords, Kinds
<1>4. monitor' \in Seq(Ids)
  <2>1. tasks[k].id \in Ids /\ monitor \in Seq(Ids)
    BY <1>1, TaskRowFacts DEF IInv, LoopInv
  <2>2. WithoutEntry(tasks[k].id) \in Seq(Ids)
    BY <2>1, WithoutEntryFacts
  <2> QED BY <1>1, <2>1, <2>2, AppendProperties
<1>5. LoopInv'
  BY <1>1, <1>4 DEF IInv, LoopInv, WasOwner, NamedWasOwner
<1>6. RowsInv' /\ WorldInv' /\ CountInv'
  BY <1>1, RowsSame, WorldSame, CountSame DEF IInv
<1> QED BY <1>2, <1>3, <1>5, <1>6 DEF IInv

-----------------------------------------------------------------------------
(* The chain and the loop.                                                 *)

LEMMA MineKeeps ==
    ASSUME IInv, NEW outcome \in Processed, Mine(outcome)
    PROVE  IInv'
<1> DEFINE n == Len(receipts) + 1
           tx == relay[n]
<1>1. /\ Len(receipts) < Len(relay)
      /\ contract' = IF outcome = "success" /\ tx.data # NilData THEN tx.data.new ELSE contract
      /\ receipts' = Append(receipts, outcome)
      /\ held' = held \cup {contract'}
      /\ UNCHANGED <<db, flow, main, tasks, loop, cleanup, relay, pairs, chosen, trap, budgets>>
  BY DEF Mine
<1> USE DEF db
<1>2. /\ relay \in Seq([kind : Kinds, data : Data]) /\ Len(relay) \in Nat
      /\ receipts \in Seq(Processed) /\ Len(receipts) \in Nat
      /\ contract \in AnyExt /\ held \subseteq AnyExt
  BY DEF IInv, WorldInv
<1>3. /\ receipts' \in Seq(Processed) /\ Len(receipts') = Len(receipts) + 1
      /\ receipts'[n] = outcome /\ \A m \in 1 .. Len(receipts) : receipts'[m] = receipts[m]
  BY <1>1, <1>2
<1>4. tx.data \in Data
  <2>1. n \in 1 .. Len(relay)
    BY <1>1, <1>2
  <2>2. tx \in [kind : Kinds, data : Data]
    BY <1>2, <2>1, ElementOfSeq
  <2> QED BY <2>2
<1>5. contract' \in AnyExt
  <2>1. tx.data.new \in AnyExt
    BY <1>4 DEF Data
  <2> QED BY <1>1, <1>2, <2>1
<1>6. WorldInv'
  <2>1. held' \subseteq AnyExt /\ contract' \in held'
    BY <1>1, <1>2, <1>5
  <2>2. ASSUME NEW m \in 1 .. Len(receipts'), receipts'[m] = "success", relay[m].data # NilData
        PROVE  relay[m].data.new \in held'
    <3>1. CASE m = n
      BY <1>1, <1>3, <2>1, <2>2, <3>1
    <3>2. CASE m # n
      <4>1. m \in 1 .. Len(receipts) /\ receipts[m] = "success"
        BY <1>2, <1>3, <2>2, <3>2
      <4>2. relay[m].data.new \in held
        BY <2>2, <4>1 DEF IInv, WorldInv
      <4> QED BY <1>1, <4>2
    <3> QED BY <3>1, <3>2
  <2>3. Len(receipts') <= Len(relay)
    BY <1>1, <1>2, <1>3
  <2> QED BY <1>1, <1>3, <1>5, <2>1, <2>2, <2>3 DEF IInv, WorldInv
<1>7. RowsInv'
  <2>1. ASSUME NEW i \in Ids PROVE RowOK(rows[i])'
    <3>1. RowOK(rows[i]) /\ UNCHANGED <<rows, relay>> /\ rows[i] \in Rows
      BY <1>1 DEF IInv, RowsInv
    <3>2. rows[i].sub \in Nat
      BY <3>1, ConstantFacts DEF Rows
    <3> QED BY <1>2, <1>3, <3>1, <3>2 DEF RowOK
  <2>2. rows' \in [Ids -> Rows]
    BY <1>1 DEF IInv, RowsInv
  <2> QED BY <2>1, <2>2 DEF RowsInv
<1>8. LoopInv'
  <2>1. held \subseteq held'
    BY <1>1
  <2> QED BY <1>1, <2>1 DEF IInv, LoopInv, WasOwner, NamedWasOwner
<1>9. FlowInv' /\ TasksInv' /\ CountInv'
  BY <1>1, FlowSame, TasksSame, CountSame DEF IInv
<1> QED BY <1>6, <1>7, <1>8, <1>9 DEF IInv

LEMMA PollLooksKeeps ==
    ASSUME IInv, NEW i \in Ids, PollLooks(i)
    PROVE  IInv'
<1> USE DEF outside
<1> DEFINE s == receipts[rows[i].sub]
           r == [rows[i] EXCEPT !.status = s]
<1>1. /\ rows[i].status = "pending" /\ rows[i].sub <= Len(receipts)
      /\ rows' = [rows EXCEPT ![i].status = s]
      /\ UNCHANGED <<monitor, wallet, flow, main, tasks, loop, cleanup, outside, chosen, trap,
                     budgets>>
  BY DEF PollLooks
<1>2. rows[i] \in Rows /\ RowOK(rows[i]) /\ rows \in [Ids -> Rows] /\ receipts \in Seq(Processed)
  BY DEF IInv, RowsInv, WorldInv
<1>3. rows[i].sub \in 1 .. Len(relay) /\ relay[rows[i].sub].data = rows[i].data
  BY <1>1, <1>2 DEF RowOK
<1>4. s \in Processed
  BY <1>1, <1>2, <1>3
<1>5. rows' = [rows EXCEPT ![i] = r]
  BY <1>1, <1>2
<1>6. r \in Rows /\ r.status = s /\ r.sub = rows[i].sub /\ r.data = rows[i].data
  <2> HIDE DEF s
  <2> QED BY <1>2, <1>4 DEF Rows, Statuses, Processed
<1>7. RowsInv'
  <2>1. RowOK(r)
    BY <1>1, <1>3, <1>6 DEF RowOK
  <2> HIDE DEF r
  <2> QED BY <1>1, <1>5, <1>6, <2>1, RowWritten DEF IInv
<1>8. FlowInv' /\ TasksInv' /\ LoopInv' /\ WorldInv' /\ CountInv'
  BY <1>1, FlowSame, TasksSame, LoopSame, WorldSame, CountSame DEF IInv
<1> QED BY <1>7, <1>8 DEF IInv

\* What every step of the round leaves alone.
LEMMA LoopFrame ==
    ASSUME IInv, UnchangedByLoop, pairs' \subseteq Exts, LoopInv'
    PROVE  IInv'
<1> USE DEF UnchangedByLoop
<1>1. RowsInv' /\ FlowInv' /\ TasksInv' /\ CountInv'
  BY RowsSame, FlowSame, TasksSame, CountSame DEF IInv
<1>2. WorldInv'
  BY PairsChange DEF IInv
<1> QED BY <1>1, <1>2 DEF IInv

LEMMA LoopRests ==
    ASSUME LoopInv, UNCHANGED <<wallet, monitor, held>>, loop' = Resting
    PROVE  LoopInv'
BY RestingFacts DEF LoopInv, NamedWasOwner

LEMMA LoopBeginsKeeps ==
    ASSUME IInv, LoopBegins
    PROVE  IInv'
<1> USE DEF LoopBegins
<1>1. monitor \in Seq(Ids)
  BY DEF IInv, LoopInv
<1>2. loop' \in LoopRecords /\ loop'.pc = "next"
  BY <1>1, ConstantFacts DEF LoopRecords, Wallets
<1>3. LoopInv'
  BY <1>2 DEF IInv, LoopInv, NamedWasOwner, UnchangedByLoop
<1>4. pairs' \subseteq Exts
  BY DEF IInv, WorldInv
<1> QED BY <1>3, <1>4, LoopFrame

\* The round goes on with another list.
LEMMA LoopGoesOn ==
    ASSUME LoopInv, UNCHANGED <<wallet, monitor, held>>, loop.pc = "next",
           NEW v \in 1 .. 3, NEW s \in Seq(Ids),
           loop' = [loop EXCEPT !.svc = v, !.todo = s]
    PROVE  LoopInv'
<1>1. loop' \in LoopRecords /\ loop'.pc = "next"
  BY DEF LoopInv, LoopRecords
<1> QED BY <1>1 DEF LoopInv, NamedWasOwner

LEMMA LoopTurnsKeeps ==
    ASSUME IInv, LoopTurns
    PROVE  IInv'
<1> USE DEF LoopTurns
<1>1. UNCHANGED <<wallet, monitor, held>> /\ LoopInv /\ monitor \in Seq(Ids) /\ loop \in LoopRecords
  BY DEF UnchangedByLoop, IInv, LoopInv
<1>2. LoopInv'
  <2>1. CASE loop.svc = 3
    BY <1>1, <2>1, LoopRests
  <2>2. CASE loop.svc # 3
    <3> DEFINE v == loop.svc + 1
    <3>1. v \in 1 .. 3
      BY <1>1, <2>2 DEF LoopRecords
    <3>2. loop' = [loop EXCEPT !.svc = v, !.todo = monitor]
      BY <2>2
    <3> HIDE DEF v, LoopTurns
    <3>3. loop.pc = "next"
      BY DEF LoopTurns
    <3> QED BY <1>1, <3>1, <3>2, <3>3, LoopGoesOn
  <2> QED BY <2>1, <2>2
<1>3. pairs' \subseteq Exts
  BY DEF IInv, WorldInv
<1> QED BY <1>2, <1>3, LoopFrame

LEMMA LoopSkipsKeeps ==
    ASSUME IInv, LoopSkips
    PROVE  IInv'
<1>1. /\ loop.pc = "next" /\ loop.todo # <<>> /\ loop' = [loop EXCEPT !.todo = Tail(@)]
      /\ UNCHANGED <<monitor, wallet, pairs>> /\ UnchangedByLoop
  BY DEF LoopSkips
<1>2. loop \in LoopRecords /\ loop.todo \in Seq(Ids)
  BY DEF IInv, LoopInv, LoopRecords
<1> DEFINE s == Tail(loop.todo)
<1>3. s \in Seq(Ids)
  BY <1>1, <1>2, HeadTailProperties
<1>4. loop' = [loop EXCEPT !.todo = s]
  BY <1>1
<1>5. loop' \in LoopRecords /\ loop'.pc = "next"
  <2> HIDE DEF s
  <2> QED BY <1>1, <1>2, <1>3, <1>4 DEF LoopRecords
<1>6. LoopInv'
  BY <1>1, <1>5 DEF IInv, LoopInv, NamedWasOwner, UnchangedByLoop
<1>7. pairs' \subseteq Exts
  BY <1>1 DEF IInv, WorldInv
<1> QED BY <1>1, <1>6, <1>7, LoopFrame

\* The wallet that postProcess saves.
LEMMA AppliedFacts ==
    ASSUME NEW w \in Wallets, NEW tx \in Rows
    PROVE  /\ Applied(w, tx) \in Wallets
           /\ Applied(w, tx).ext = IF tx.kind = "disconnect" THEN NoExt ELSE tx.data.new
<1> DEFINE e == tx.data.new
<1>1. e \in AnyExt
  BY DEF Rows, Data
<1>2. NoExt \in AnyExt
  BY DEF AnyExt
<1> HIDE DEF e
<1>3. /\ [w EXCEPT !.ext = NoExt, !.count = 1] \in Wallets
      /\ [w EXCEPT !.ext = NoExt, !.count = 1].ext = NoExt
  BY <1>2 DEF Wallets
<1>4. [w EXCEPT !.ext = e] \in Wallets /\ [w EXCEPT !.ext = e].ext = e
  BY <1>1 DEF Wallets
<1> QED BY <1>3, <1>4 DEF Applied, e

\* A processed row is what the chain says: a success that is not empty put in
\* an extension that has been an owner since.
LEMMA SuccessWasOwner ==
    ASSUME IInv, NEW tx \in Rows, RowOK(tx), tx.status = "success", tx.data # NilData
    PROVE  WasOwner(tx.data.new)
<1>1. /\ tx.sub \in 1 .. Len(relay) /\ relay[tx.sub].data = tx.data
      /\ tx.sub <= Len(receipts) /\ receipts[tx.sub] = "success"
  BY DEF RowOK, Processed
<1>2. tx.sub \in 1 .. Len(receipts)
  BY <1>1 DEF IInv, WorldInv
<1> QED BY <1>1, <1>2 DEF IInv, WorldInv, WasOwner

LEMMA LoopProcessesKeeps ==
    ASSUME IInv, LoopProcesses
    PROVE  IInv'
<1> DEFINE tx == Entry
           done == tx.data = NilData /\ tx.kind # "disconnect"
           save == ~done /\ tx.status # "failed" /\ ToUnpair(tx) = NoExt
           w == IF save THEN Applied(wallet, tx) ELSE wallet
           p == CASE done -> "unregister"
                  [] ~done /\ ToUnpair(tx) # NoExt -> "unpairing"
                  [] OTHER -> IF save THEN AfterSave(tx) ELSE "unregister"
<1>1. /\ loop.pc = "next" /\ loop.todo # <<>> /\ Applies(tx)
      /\ wallet' = w
      /\ loop' = [loop EXCEPT !.tx = tx, !.copy = wallet', !.pc = p]
      /\ UNCHANGED <<monitor, pairs>> /\ UnchangedByLoop
  BY DEF LoopProcesses
<1>2. /\ loop \in LoopRecords /\ loop.todo \in Seq(Ids) /\ wallet \in Wallets
      /\ NamedWasOwner /\ monitor \in Seq(Ids)
  BY DEF IInv, LoopInv, LoopRecords
<1>3. Head(loop.todo) \in Ids
  BY <1>1, <1>2, HeadTailProperties
<1>4. tx \in Rows /\ RowOK(tx)
  BY <1>3 DEF Entry, IInv, RowsInv
<1>5. tx.status \in {"success", "failed"}
  BY <1>1 DEF Applies, Processed
<1>6. ASSUME tx.status = "success", ~done
      PROVE  tx.kind = "disconnect" \/ WasOwner(tx.data.new)
  BY <1>4, <1>6, SuccessWasOwner
<1>7. w \in Wallets /\ WasOwner(w.ext)
  <2>1. CASE save
    <3>1. /\ w = Applied(wallet, tx) /\ w \in Wallets
          /\ w.ext = IF tx.kind = "disconnect" THEN NoExt ELSE tx.data.new
      BY <1>2, <1>4, <2>1, AppliedFacts
    <3>2. tx.status = "success" /\ ~done
      BY <1>5, <2>1
    <3> HIDE DEF w, tx
    <3> QED BY <1>6, <3>1, <3>2 DEF WasOwner
  <2>2. CASE ~save
    BY <1>2, <2>2 DEF NamedWasOwner, WasOwner
  <2> QED BY <2>1, <2>2
<1>8. /\ p \in {"unregister", "unpairing", "adding"}
      /\ p = "unpairing" => ~done
  BY DEF AfterSave
<1> HIDE DEF w, p, done, save, tx
<1>9. /\ loop' \in LoopRecords /\ loop'.pc = p /\ loop'.tx = tx /\ loop'.copy = w
      /\ loop'.todo = loop.todo
  BY <1>1, <1>2, <1>4, <1>7, <1>8 DEF LoopRecords
<1>10. UNCHANGED <<held, monitor>> /\ pairs' \subseteq Exts
  BY <1>1 DEF UnchangedByLoop, IInv, WorldInv
<1>11. LoopInv'
  BY <1>1, <1>2, <1>5, <1>6, <1>7, <1>8, <1>9, <1>10 DEF LoopInv, NamedWasOwner, WasOwner
<1> QED BY <1>1, <1>10, <1>11, LoopFrame

\* The round goes on, with a wallet that names a former owner.
LEMMA LoopSaves ==
    ASSUME LoopInv, UNCHANGED <<monitor, held>>, loop.todo # <<>>,
           wallet' \in Wallets, WasOwner(wallet'.ext),
           loop' = [loop EXCEPT !.pc = "unregister"]
    PROVE  LoopInv'
<1>1. loop' \in LoopRecords /\ loop'.pc = "unregister" /\ loop'.todo = loop.todo
  BY DEF LoopInv, LoopRecords
<1> QED BY <1>1 DEF LoopInv, NamedWasOwner, WasOwner

LEMMA LoopUnpairsKeeps ==
    ASSUME IInv, LoopUnpairs
    PROVE  IInv'
<1> DEFINE tx == loop.tx
<1>1. /\ loop.pc = "unpairing" /\ loop' = [loop EXCEPT !.pc = "unregister"]
      /\ pairs' \subseteq pairs
      /\ wallet' = IF tx.status = "failed" THEN wallet ELSE Applied(loop.copy, tx)
      /\ UNCHANGED monitor /\ UnchangedByLoop
  BY DEF LoopUnpairs
<1>2. /\ LoopInv /\ loop.todo # <<>> /\ loop.copy \in Wallets /\ tx \in Rows /\ wallet \in Wallets
      /\ tx.status = "failed" \/ tx.kind = "disconnect" \/ WasOwner(tx.data.new)
      /\ WasOwner(wallet.ext)
  BY <1>1 DEF IInv, LoopInv, LoopRecords, NamedWasOwner, WasOwner
<1>3. /\ Applied(loop.copy, tx) \in Wallets
      /\ Applied(loop.copy, tx).ext = IF tx.kind = "disconnect" THEN NoExt ELSE tx.data.new
  BY <1>2, AppliedFacts
<1> HIDE DEF tx
<1>4. wallet' \in Wallets /\ WasOwner(wallet'.ext)
  <2>1. CASE tx.status = "failed"
    BY <1>1, <1>2, <2>1
  <2>2. CASE tx.status # "failed"
    BY <1>1, <1>2, <1>3, <2>2 DEF WasOwner
  <2> QED BY <2>1, <2>2
<1>5. UNCHANGED held /\ pairs' \subseteq Exts
  BY <1>1 DEF UnchangedByLoop, IInv, WorldInv
<1>6. LoopInv'
  BY <1>1, <1>2, <1>4, <1>5, LoopSaves
<1> QED BY <1>1, <1>5, <1>6, LoopFrame

LEMMA LoopThrowsKeeps ==
    ASSUME IInv, LoopThrows
    PROVE  IInv'
<1>1. /\ loop' = Resting /\ pairs' \subseteq pairs
      /\ UNCHANGED <<monitor, wallet>> /\ UnchangedByLoop
  BY DEF LoopThrows
<1>2. UNCHANGED held /\ pairs' \subseteq Exts /\ LoopInv
  BY <1>1 DEF UnchangedByLoop, IInv, WorldInv
<1>3. LoopInv'
  BY <1>1, <1>2, LoopRests
<1> QED BY <1>1, <1>2, <1>3, LoopFrame

LEMMA LoopAddsKeeps ==
    ASSUME IInv, LoopAdds
    PROVE  IInv'
<1>1. /\ loop.pc = "adding" /\ wallet' = [loop.copy EXCEPT !.count = 2]
      /\ loop' = [loop EXCEPT !.pc = "unregister"]
      /\ UNCHANGED <<monitor, pairs>> /\ UnchangedByLoop
  BY DEF LoopAdds
<1>2. LoopInv /\ loop.todo # <<>> /\ loop.copy \in Wallets /\ WasOwner(loop.copy.ext)
  BY <1>1 DEF IInv, LoopInv, LoopRecords
<1>3. wallet' \in Wallets /\ wallet'.ext = loop.copy.ext
  BY <1>1, <1>2 DEF Wallets
<1>4. UNCHANGED held /\ pairs' \subseteq Exts
  BY <1>1 DEF UnchangedByLoop, IInv, WorldInv
<1>5. LoopInv'
  BY <1>1, <1>2, <1>3, <1>4, LoopSaves
<1> QED BY <1>1, <1>4, <1>5, LoopFrame

LEMMA LoopUnregistersKeeps ==
    ASSUME IInv, LoopUnregisters
    PROVE  IInv'
<1> DEFINE s == Tail(loop.todo)
<1>1. /\ loop.pc = "unregister" /\ monitor' = WithoutEntry(Head(loop.todo))
      /\ loop' = [loop EXCEPT !.pc = "next", !.todo = s, !.tx = NoRow, !.copy = NoWallet]
      /\ UNCHANGED <<wallet, pairs>> /\ UnchangedByLoop
  BY DEF LoopUnregisters
<1>2. loop \in LoopRecords /\ loop.todo \in Seq(Ids) /\ loop.todo # <<>> /\ monitor \in Seq(Ids)
  BY <1>1 DEF IInv, LoopInv, LoopRecords
<1>3. s \in Seq(Ids)
  BY <1>2, HeadTailProperties
<1>4. monitor' \in Seq(Ids)
  BY <1>1, <1>2, WithoutEntryFacts
<1>5. loop' \in LoopRecords /\ loop'.pc = "next"
  <2> HIDE DEF s
  <2> QED BY <1>1, <1>2, <1>3, ConstantFacts DEF LoopRecords, Wallets
<1>6. LoopInv'
  BY <1>1, <1>4, <1>5 DEF IInv, LoopInv, NamedWasOwner, UnchangedByLoop
<1>7. pairs' \subseteq Exts
  BY <1>1 DEF IInv, WorldInv
<1> QED BY <1>1, <1>6, <1>7, LoopFrame

-----------------------------------------------------------------------------
(* The theorems.                                                           *)

LEMMA InitIInv ==
    ASSUME Init
    PROVE  IInv
<1> USE DEF Init
<1>1. RowsInv
  <2>1. \A i \in Ids : rows[i] = NoRow
    OBVIOUS
  <2>2. rows \in [Ids -> Rows]
    BY ConstantFacts
  <2>3. ASSUME NEW i \in Ids PROVE RowOK(rows[i])
    <3>1. rows[i].status = "absent"
      BY <2>1, ConstantFacts
    <3> QED BY <3>1, OpenRowOK DEF Processed
  <2> QED BY <2>2, <2>3 DEF RowsInv
<1>2. FlowInv
  BY ConstantFacts DEF FlowInv, NoFlow, IdleMain, FlowRecords, MainRecords, Kinds
<1>3. TasksInv
  <2>1. tasks \in [Tasks -> TaskRecords] /\ \A k \in Tasks : tasks[k] = NoTask
    BY NoTaskFacts
  <2> QED BY <2>1, NoTaskFacts DEF TasksInv
<1>4. LoopInv
  <2>1. wallet \in Wallets /\ wallet.ext = First
    BY ModificationAssumption DEF Wallets, AnyExt
  <2>2. monitor \in Seq(Ids)
    OBVIOUS
  <2> QED BY <2>1, <2>2, RestingFacts DEF LoopInv, NamedWasOwner
<1>5. WorldInv
  <2>1. /\ relay \in Seq([kind : Kinds, data : Data]) /\ Len(relay) = 0
        /\ receipts \in Seq(Processed) /\ Len(receipts) = 0
    OBVIOUS
  <2>2. contract \in AnyExt /\ contract \in held /\ held \subseteq AnyExt /\ pairs \subseteq Exts
    BY ModificationAssumption DEF AnyExt
  <2> QED BY <2>1, <2>2, ConstantFacts DEF WorldInv
<1>6. CountInv
  <2>1. /\ MaxFlows \in Nat /\ MaxScans \in Nat /\ MaxCrashes \in Nat
        /\ MaxFailedReads \in Nat /\ MaxChoices \in Nat
    BY ModificationAssumption
  <2>2. /\ cleanup = FALSE /\ chosen = 0 /\ trap = "none"
        /\ flows = 0 /\ scans = 0 /\ crashes = 0 /\ failedReads = 0
    OBVIOUS
  <2> HIDE DEF Init
  <2>3. cleanup \in BOOLEAN
    BY <2>2, Zenon
  <2> QED BY <2>1, <2>2, <2>3 DEF CountInv
<1> QED BY <1>1, <1>2, <1>3, <1>4, <1>5, <1>6 DEF IInv

LEMMA IntroFindsNothingKeeps ==
    ASSUME IInv, IntroFindsNothing
    PROVE  IInv'
BY TrapKeeps DEF IntroFindsNothing

LEMMA StutterKeeps ==
    ASSUME IInv, UNCHANGED vars
    PROVE  IInv'
BY RowsSame, FlowSame, TasksSame, LoopSame, WorldSame, CountSame DEF IInv, vars, db, outside

LEMMA NextIInv ==
    ASSUME IInv, Next
    PROVE  IInv'
<1>1. ASSUME ScreenStep PROVE IInv'
  BY <1>1, OpenFlowKeeps, IntroCreatesKeeps, IntroEstimatesKeeps, IntroFindsNothingKeeps,
     StartFlowKeeps, BackKeeps, ChangePaymentTokenKeeps DEF ScreenStep
<1>2. ASSUME SignStep PROVE IInv'
  BY <1>2, SignBeginsKeeps, SignReadsKeeps, SignEstimatesKeeps, SignFinishesKeeps,
     SignThrowsKeeps DEF SignStep
<1>3. ASSUME NEW k \in Tasks, TaskStep(k) PROVE IInv'
  BY <1>3, ScanKeeps, PairValidatesKeeps, PairUnpairsKeeps, PairPairsKeeps, PairReadsKeeps,
     PairFinishesKeeps, ThrowsKeeps, SubmitKeeps, ReviewStartsKeeps, ReviewEstimatesKeeps,
     ReviewActsKeeps, RelayAcceptsKeeps, RelayAnswersKeeps, ReviewFinishesKeeps DEF TaskStep
<1>4. ASSUME LoopStep PROVE IInv'
  BY <1>4, PollLooksKeeps, LoopBeginsKeeps, LoopTurnsKeeps, LoopSkipsKeeps, LoopProcessesKeeps,
     LoopUnpairsKeeps, LoopThrowsKeeps, LoopAddsKeeps, LoopUnregistersKeeps DEF LoopStep
<1> QED BY <1>1, <1>2, <1>3, <1>4, MineKeeps, CleanUpKeeps, CrashKeeps DEF Next

LEMMA IInvariance == Spec => []IInv
<1>1. Init => IInv
  BY InitIInv
<1>2. IInv /\ [Next]_vars => IInv'
  BY NextIInv, StutterKeeps
<1> QED BY <1>1, <1>2, PTL DEF Spec

\* Every variable has its type, however screens, tasks, the loop and crashes
\* interleave: a copy that is saved is a row, a nonce is below its bound.
THEOREM ModificationTypeCorrect == Spec => []TypeOK
<1>1. IInv => TypeOK
  <2> SUFFICES ASSUME IInv PROVE TypeOK
    OBVIOUS
  <2>1. /\ loop.pc \in {"idle", "next", "unpairing", "adding", "unregister"}
        /\ loop.svc \in 1 .. 3 /\ loop.todo \in Seq(Ids) /\ loop.tx \in Rows
        /\ loop.copy \in [ext : AnyExt, count : {1, 2}, fee : 0 .. MaxChoices]
    BY DEF IInv, LoopInv, LoopRecords, Wallets
  <2> QED BY <2>1 DEF TypeOK, IInv, RowsInv, FlowInv, TasksInv, LoopInv, WorldInv, CountInv,
                      FlowRecords, MainRecords, TaskRecords, TaskPlaces, Wallets
<1> QED BY <1>1, IInvariance, PTL

\* An extension the wallet row names was an owner of the contract at some time,
\* for any number of flows, tasks and crashes: postProcess takes over only what
\* the chain has confirmed, of the transaction it was confirmed for.
THEOREM NamedExtensionWasOwner == Spec => []NamedWasOwner
<1>1. IInv => NamedWasOwner
  BY DEF IInv, LoopInv
<1> QED BY <1>1, IInvariance, PTL

-----------------------------------------------------------------------------
(* THE PATIENT USER, while the process lives.  The user does not leave a   *)
(* screen while its task is running, nothing has ended the process, and no *)
(* disconnection without data was submitted.                               *)

Quiet == trap = "none" /\ crashes = 0 /\ ~EmptyDisconnection

Sent == {"pending"} \cup Processed
Opened == flow.screen \notin {"menu", "loading"}
Acted == \E k \in Tasks : tasks[k].pc = "acted"
Relayed == \E k \in Tasks : tasks[k].pc \in {"accepted", "acted"}

\* One task at a time, which is the open screen's.
TurnInv ==
    /\ cleanup = FALSE
    /\ \A j, k \in Tasks : ~Free(j) /\ ~Free(k) => j = k
    /\ \A k \in Tasks : ~Free(k) =>
          /\ tasks[k].id = flow.id /\ tasks[k].kind = flow.kind /\ tasks[k].left = FALSE
          /\ flow.screen = IF IsPairing(k) THEN "pair" ELSE "review"

\* What the data of a transaction may be, by its kind.
DataOK(kind, d) ==
    /\ d.op = "nil" => d = NilData
    /\ d.op = "dummy" => d = DummyData
    /\ d.op = "call" => /\ (d.old = NoExt) <=> (kind = "connect")
                        /\ (d.new = NoExt) <=> (kind = "disconnect")

\* The open transaction is not submitted unless a task says so; on the review
\* screen it is signed, and a connection has its data.
OpenInv ==
    /\ \A i \in Ids : DataOK(rows[i].kind, rows[i].data)
    /\ Opened =>
          /\ rows[flow.id].kind = flow.kind
          /\ ~Acted => rows[flow.id].status \in {"draft", "signing"}
    /\ flow.screen = "review" /\ flow.kind # "connect" /\ ~Acted => rows[flow.id].status = "signing"
    /\ flow.screen = "review" /\ flow.kind = "connect" => rows[flow.id].data.op = "call"
    /\ flow.screen = "phrase" => flow.kind # "connect"
    /\ flow.screen = "pair" => flow.kind # "disconnect"
    /\ main.pc \in {"reading", "estimating"} => main.copy.kind = flow.kind
    /\ main.pc = "estimating" => main.copy.data = rows[flow.id].data
    /\ main.pc = "reading" =>
          flow.kind = "disconnect" /\ main.copy.data.op = "call" /\ main.copy.data.new = NoExt

\* The copy a task holds is the row it will save, submit or has submitted.
SameTx(r, s) == r.kind = s.kind /\ r.data = s.data
CopyOK(t) ==
    /\ t.pc = "reading" => t.copy.kind = t.kind /\ DataOK(t.copy.kind, t.copy.data)
                           /\ t.kind # "connect"
    /\ t.pc = "paired" /\ t.kind = "connect" => rows[t.id].data.op = "call"
    /\ t.pc \in {"estimating", "relaying", "accepted"} => SameTx(t.copy, rows[t.id])
    /\ t.pc \in {"act", "relaying", "accepted"} => rows[t.id].status = "signing"
    /\ t.pc \in {"relaying", "accepted"} => t.copy.status = "signing"
    /\ t.pc = "accepted" => t.copy.nonce = Len(relay) /\ relay[Len(relay)].kind = t.copy.kind
    /\ t.pc = "acted" => t.copy.status = "pending" /\ rows[t.id].status \in Sent
CopiesInv == \A k \in Tasks : CopyOK(tasks[k])

\* The relay has the rows that were submitted, one each.
SentInv ==
    /\ \A i \in Ids : rows[i].status \in Sent => relay[rows[i].sub].kind = rows[i].kind
    /\ \A i, j \in Ids : rows[i].status \in Sent /\ rows[j].status \in Sent
                            /\ rows[i].sub = rows[j].sub => i = j
    /\ \A k \in Tasks : tasks[k].pc = "accepted" =>
          \A i \in Ids : rows[i].status \in Sent => rows[i].sub # Len(relay)
    /\ \A n \in 1 .. Len(relay) : DataOK(relay[n].kind, relay[n].data)
    /\ \A n \in 1 .. Len(relay) : relay[n].kind = "connect" => relay[n].data.op = "call"
    /\ \A n \in 1 .. Len(receipts) : receipts[n] = "success" => relay[n].data.op # "dummy"

\* What is monitored was submitted; the loop works through monitored entries,
\* each of them once, with the row and the wallet as they are stored.
Elements(s) == {s[n] : n \in 1 .. Len(s)}
NoneTwice(s) == \A m, n \in 1 .. Len(s) : s[m] = s[n] => m = n
RightCount(w) == w.count = IF w.ext = NoExt THEN 1 ELSE 2

MonitorInv ==
    /\ NoneTwice(monitor) /\ NoneTwice(loop.todo)
    /\ Elements(loop.todo) \subseteq Elements(monitor)
    /\ \A i \in Elements(monitor) : rows[i].status \in Sent
    /\ Opened => flow.id \notin Elements(monitor)
    /\ loop.pc \in {"unpairing", "adding", "unregister"} =>
          rows[Head(loop.todo)].status \in Processed
    /\ loop.pc = "unpairing" =>
          /\ loop.tx = rows[Head(loop.todo)]
          /\ loop.copy.ext = wallet.ext /\ loop.copy.count = wallet.count
          /\ loop.tx.status = "success" => loop.tx.kind # "connect" /\ loop.tx.data.op = "call"
    /\ loop.pc = "adding" => loop.copy.ext = wallet.ext /\ wallet.ext # NoExt
    /\ loop.pc # "adding" => RightCount(wallet)

\* Somebody will take the outcome of the n-th transaction over.
Watched(i) ==
    /\ \/ i \in Elements(monitor)
       \/ \E k \in Tasks : tasks[k].pc = "acted" /\ tasks[k].id = i
    /\ ~(loop.pc \in {"adding", "unregister"} /\ i = Head(loop.todo))
Carried(n) ==
    \/ \E k \in Tasks : tasks[k].pc = "accepted" /\ tasks[k].copy.nonce = n
    \/ \E i \in Ids : Watched(i) /\ rows[i].status \in Sent /\ rows[i].sub = n

Mined == 1 .. Len(receipts)
Unmined == Len(receipts) + 1 .. Len(relay)
Owed(n) == n \in Mined /\ receipts[n] = "success" /\ relay[n].data.op = "call" /\ Carried(n)
Waiting(n) == n \in Unmined /\ relay[n].data.op = "call"

\* What a call that may still be submitted takes out: a connection nothing, and
\* so from the moment its flow is opened.
Drafted(e) ==
    \/ flow.screen # "menu" /\ ~Relayed /\ flow.kind = "connect" /\ e = NoExt
    \/ /\ Opened /\ ~Relayed
       /\ rows[flow.id].data.op = "call" /\ e = rows[flow.id].data.old
    \/ main.pc = "reading" /\ e = main.copy.data.old
    \/ \E k \in Tasks : tasks[k].pc = "reading" /\ e = tasks[k].copy.data.old

\* The wallet row is the contract's, or one change is missing, and that one is
\* known.
DebtInv ==
    /\ \A n \in Unmined : Carried(n)
    /\ \/ wallet.ext = contract /\ \A n \in Mined : ~Owed(n)
       \/ /\ wallet.ext # contract
          /\ \E n \in Mined : /\ Owed(n) /\ \A m \in Mined : Owed(m) => m = n
                              /\ relay[n].data.old = wallet.ext
                              /\ relay[n].data.new = contract

\* What is out of date comes first: after a call that takes the wallet's
\* extension out, and while a change is missing, nothing takes out another one.
OrderInv ==
    /\ \A m, n \in Unmined : Waiting(m) /\ Waiting(n) /\ m < n =>
          (relay[m].data.old = wallet.ext => relay[n].data.old = wallet.ext)
    /\ wallet.ext # contract => \A n \in Unmined : Waiting(n) => relay[n].data.old = wallet.ext
    /\ \A e \in AnyExt : Drafted(e) /\ e # wallet.ext =>
          /\ wallet.ext = contract
          /\ \A n \in Unmined : Waiting(n) => relay[n].data.old # wallet.ext

QInv == TurnInv /\ OpenInv /\ CopiesInv /\ SentInv /\ MonitorInv /\ DebtInv /\ OrderInv
CalmInv == Quiet => QInv

LEMMA KindFacts ==
    ASSUME NEW kind \in Kinds
    PROVE  /\ DataOK(kind, NilData) /\ DataOK(kind, DummyData)
           /\ \A e \in Exts : kind = "connect" => DataOK(kind, Call(NoExt, e))
           /\ \A d, e \in Exts : kind = "replace" => DataOK(kind, Call(d, e))
           /\ \A d \in Exts : kind = "disconnect" => DataOK(kind, Call(d, NoExt))
           /\ NilData.op = "nil" /\ DummyData.op = "dummy"
           /\ \A d, e : /\ Call(d, e).op = "call" /\ Call(d, e).old = d
                        /\ Call(d, e).new = e
BY ModificationAssumption DEF DataOK, NilData, DummyData, Call, Kinds

\* While another screen than the review is open, or a task is elsewhere, no
\* task has the relay's answer.
LEMMA NotRelayed ==
    ASSUME TurnInv
    PROVE  /\ flow.screen # "review" => ~Relayed
           /\ flow.screen \notin {"pair", "review"} => \A k \in Tasks : Free(k)
           /\ main.pc # "idle" /\ FlowInv => \A k \in Tasks : Free(k)
           /\ \A k \in Tasks : tasks[k].pc \notin {"idle", "accepted", "acted"} => ~Relayed
BY DEF TurnInv, Relayed, Free, IsPairing, FlowInv

\* A step that submits nothing and hears of nothing.
Local ==
    /\ UNCHANGED <<monitor, loop, relay, receipts, contract>>
    /\ wallet'.ext = wallet.ext /\ wallet'.count = wallet.count
    /\ \A i \in Ids : \/ rows'[i] = rows[i]
                      \/ rows[i].status \notin Sent /\ rows'[i].status \notin Sent
    /\ ~Relayed /\ ~Relayed'

LEMMA LocalCarried ==
    ASSUME IInv, Local, NEW n
    PROVE  Carried(n)' <=> Carried(n)
<1>1. \A i : Watched(i)' <=> Watched(i)
  BY DEF Local, Watched, Relayed, Elements
<1>2. \A i \in Ids : /\ rows'[i].status \in Sent <=> rows[i].status \in Sent
                     /\ rows[i].status \in Sent => rows'[i].sub = rows[i].sub
  BY DEF Local
<1> QED BY <1>1, <1>2 DEF Local, Carried, Relayed

LEMMA LocalKeeps ==
    ASSUME IInv, QInv, Local
    PROVE  /\ SentInv' /\ DebtInv'
           /\ (Opened' => flow'.id \notin Elements(monitor)) => MonitorInv'
           /\ (\A e \in AnyExt : Drafted(e)' => Drafted(e) \/ e = wallet.ext)
                => OrderInv'
<1>1. /\ UNCHANGED <<monitor, loop, relay, receipts, contract>> /\ wallet'.ext = wallet.ext
      /\ wallet'.count = wallet.count
  BY DEF Local
<1>2. SentInv'
  <2>1. \A i \in Ids : /\ rows'[i].status \in Sent <=> rows[i].status \in Sent
                       /\ rows[i].status \in Sent => rows'[i] = rows[i]
    BY DEF Local
  <2> QED BY <1>1, <2>1 DEF QInv, SentInv, Local, Relayed
<1>3. DebtInv'
  <2>1. Mined' = Mined /\ Unmined' = Unmined
    BY <1>1 DEF Mined, Unmined
  <2>2. \A n : Carried(n)' <=> Carried(n)
    BY LocalCarried
  <2>3. \A n : Owed(n)' <=> Owed(n)
    BY <1>1, <2>1, <2>2 DEF Owed
  <2> QED BY <1>1, <2>1, <2>2, <2>3 DEF QInv, DebtInv
<1>4. ASSUME Opened' => flow'.id \notin Elements(monitor)
      PROVE  MonitorInv'
  <2>1. \A i \in Ids : rows[i].status \in Sent => rows'[i] = rows[i]
    BY DEF Local
  <2>2. \A i \in Elements(monitor) : i \in Ids
    BY DEF IInv, LoopInv, Elements
  <2>3. loop.pc \in {"unpairing", "adding", "unregister"} => Head(loop.todo) \in Elements(monitor)
    <3>1. loop.pc \in {"unpairing", "adding", "unregister"} => loop.todo # <<>>
      BY DEF IInv, LoopInv
    <3>2. loop.todo \in Seq(Ids)
      BY DEF IInv, LoopInv, LoopRecords
    <3>3. loop.todo # <<>> => Head(loop.todo) \in Elements(loop.todo)
      BY <3>2 DEF Elements
    <3> QED BY <3>1, <3>3 DEF QInv, MonitorInv
  <2>4. loop' = loop /\ Elements(monitor)' = Elements(monitor) /\ NoneTwice(monitor)' = NoneTwice(monitor)
    BY <1>1 DEF Elements, NoneTwice
  <2>5. Elements(loop.todo)' = Elements(loop.todo) /\ NoneTwice(loop.todo)' = NoneTwice(loop.todo)
    BY <2>4 DEF Elements, NoneTwice
  <2>6. RightCount(wallet)' <=> RightCount(wallet)
    BY <1>1 DEF RightCount
  <2>7. \A i \in Elements(monitor) : rows[i].status \in Sent /\ rows'[i] = rows[i]
    BY <2>1, <2>2 DEF QInv, MonitorInv
  <2> QED BY <1>1, <1>4, <2>3, <2>4, <2>5, <2>6, <2>7 DEF QInv, MonitorInv
<1>5. ASSUME \A e \in AnyExt : Drafted(e)' => Drafted(e) \/ e = wallet.ext
      PROVE  OrderInv'
  <2>1. Mined' = Mined /\ Unmined' = Unmined
    BY <1>1 DEF Mined, Unmined
  <2>2. \A n : Waiting(n)' <=> Waiting(n)
    BY <1>1, <2>1 DEF Waiting
  <2>3. \A e \in AnyExt : Drafted(e)' /\ e # wallet'.ext => Drafted(e)
    BY <1>1, <1>5
  <2>4. OrderInv
    BY DEF QInv
  <2> QED BY <1>1, <2>1, <2>2, <2>3, <2>4 DEF OrderInv
<1> QED BY <1>2, <1>3, <1>4, <1>5

\* Without a task nothing is said about tasks.
LEMMA AllFree ==
    ASSUME cleanup' = FALSE, \A k \in Tasks : tasks'[k].pc = "idle"
    PROVE  TurnInv' /\ CopiesInv' /\ ~Relayed' /\ ~Acted'
BY DEF TurnInv, CopiesInv, CopyOK, Relayed, Acted, Free

LEMMA NoTrap ==
    ASSUME NEW name \in {"find", "edit", "owner", "unsigned"}, Trap(name)
    PROVE  ~Quiet'
BY DEF Trap, Quiet

-----------------------------------------------------------------------------
(* Screens.                                                                *)

\* The open transaction's row is not submitted and not monitored.
LEMMA OpenRow ==
    ASSUME IInv, QInv, Opened
    PROVE  /\ flow.id \in Ids /\ rows[flow.id] \in Rows /\ flow.kind \in Kinds
           /\ flow.id \notin Elements(monitor)
           /\ rows[flow.id].kind = flow.kind
           /\ ~Acted => rows[flow.id].status \in {"draft", "signing"}
           /\ ~Acted => rows[flow.id].status \notin Sent
           /\ DataOK(rows[flow.id].kind, rows[flow.id].data)
BY DEF IInv, FlowInv, FlowRecords, RowsInv, QInv, OpenInv, MonitorInv, Opened, Sent, Processed

LEMMA OpenFlowCalm ==
    ASSUME IInv, QInv, NEW kind \in Kinds, OpenFlow(kind)
    PROVE  QInv'
<1> USE DEF OpenFlow, UnchangedByScreens, outside
<1>1. ~Relayed /\ \A k \in Tasks : Free(k)
  BY NotRelayed DEF QInv
<1>2. TurnInv' /\ CopiesInv' /\ ~Relayed' /\ ~Acted'
  BY <1>1, AllFree DEF QInv, TurnInv, Free
<1>3. flow'.screen = "loading" /\ flow'.kind = kind /\ main' = main /\ main.pc = "idle"
  BY DEF MainIsIdle
<1>4. OpenInv'
  BY <1>3 DEF QInv, OpenInv, Opened
<1>5. Local
  BY <1>1, <1>2 DEF Local
<1>6. ASSUME NEW e \in AnyExt, Drafted(e)' PROVE e = wallet.ext
  BY <1>1, <1>3, <1>6 DEF Drafted, Opened, IsAvailable, Free
<1>7. ~Opened'
  BY <1>3 DEF Opened
<1> QED BY <1>2, <1>4, <1>5, <1>6, <1>7, LocalKeeps DEF QInv

LEMMA IntroCreatesCalm ==
    ASSUME IInv, QInv, NEW i \in Ids, IntroCreates(i)
    PROVE  QInv'
<1> USE DEF IntroCreates, UnchangedByScreens, outside
<1> DEFINE r == [NoRow EXCEPT !.status = "draft", !.kind = flow.kind, !.data = DummyData]
<1>1. ~Relayed /\ \A k \in Tasks : Free(k)
  BY NotRelayed DEF QInv
<1>2. TurnInv' /\ CopiesInv' /\ ~Relayed' /\ ~Acted'
  BY <1>1, AllFree DEF QInv, TurnInv, Free
<1>3. /\ flow \in FlowRecords /\ flow'.screen = "estimating" /\ flow'.id = i
      /\ flow'.kind = flow.kind /\ flow.kind \in Kinds
      /\ main' = main /\ main.pc = "idle"
  BY DEF IInv, FlowInv, FlowRecords
<1>4. /\ r.status = "draft" /\ r.kind = flow.kind /\ r.data = DummyData
      /\ rows' = [rows EXCEPT ![i] = r] /\ rows \in [Ids -> Rows]
  BY DEF NoRow, IInv, RowsInv
<1> HIDE DEF r
<1>5. DataOK(r.kind, r.data) /\ r.data.op # "call"
  BY <1>3, <1>4, KindFacts
<1>6. OpenInv'
  <2>1. \A j \in Ids : DataOK(rows'[j].kind, rows'[j].data)
    BY <1>4, <1>5 DEF QInv, OpenInv
  <2> QED BY <1>3, <1>4, <2>1 DEF OpenInv
<1>7. Local
  BY <1>1, <1>2, <1>4 DEF Local, Sent, Processed
<1>8. ASSUME NEW e \in AnyExt, Drafted(e)' PROVE Drafted(e)
  <2>1. rows'[flow'.id].data.op # "call"
    BY <1>3, <1>4, <1>5
  <2>2. flow.screen # "menu" /\ \A k \in Tasks : tasks'[k].pc = "idle"
    BY <1>1 DEF Free
  <2> QED BY <1>1, <1>3, <1>8, <2>1, <2>2 DEF Drafted
<1>9. i \notin Elements(monitor)
  BY DEF QInv, MonitorInv, Sent, Processed
<1> QED BY <1>2, <1>3, <1>6, <1>7, <1>8, <1>9, LocalKeeps DEF QInv

LEMMA IntroEstimatesCalm ==
    ASSUME IInv, QInv, IntroEstimates
    PROVE  QInv'
<1> USE DEF IntroEstimates, UnchangedByScreens, outside
<1> DEFINE r == [rows[flow.id] EXCEPT !.status = "draft", !.nonce = NextNonce]
<1>1. ~Relayed /\ (\A k \in Tasks : Free(k)) /\ ~Acted
  BY NotRelayed DEF QInv, Acted, Relayed
<1>2. TurnInv' /\ CopiesInv' /\ ~Relayed' /\ ~Acted'
  BY <1>1, AllFree DEF QInv, TurnInv, Free
<1>3. /\ flow'.screen = "ready" /\ flow'.id = flow.id /\ flow'.kind = flow.kind
      /\ main' = main /\ main.pc = "idle" /\ Opened
  BY DEF IInv, FlowInv, FlowRecords, Screen, MainIsIdle, Opened
<1>4. /\ flow.id \in Ids /\ rows[flow.id] \in Rows /\ rows \in [Ids -> Rows]
      /\ rows[flow.id].status \notin Sent /\ rows[flow.id].kind = flow.kind
      /\ flow.id \notin Elements(monitor)
  BY <1>1, <1>3, OpenRow DEF IInv, RowsInv
<1>5. /\ r.status = "draft" /\ r.kind = rows[flow.id].kind /\ r.data = rows[flow.id].data
      /\ rows' = [rows EXCEPT ![flow.id] = r]
  BY <1>4 DEF Rows
<1> HIDE DEF r
<1>6. OpenInv'
  <2>1. \A j \in Ids : DataOK(rows'[j].kind, rows'[j].data)
    BY <1>4, <1>5 DEF QInv, OpenInv
  <2> QED BY <1>3, <1>4, <1>5, <2>1 DEF OpenInv
<1>7. Local
  BY <1>1, <1>2, <1>4, <1>5 DEF Local, Sent, Processed
<1>8. ASSUME NEW e \in AnyExt, Drafted(e)' PROVE Drafted(e)
  <2>1. rows'[flow'.id].data = rows[flow.id].data
    BY <1>3, <1>4, <1>5
  <2> QED BY <1>1, <1>3, <1>8, <2>1 DEF Drafted, Free
<1> QED BY <1>2, <1>3, <1>4, <1>6, <1>7, <1>8, LocalKeeps DEF QInv

\* Another screen of the same flow, or none, while nothing is under way.
LEMMA ScreenChanges ==
    ASSUME IInv, QInv, MainIsIdle, \A k \in Tasks : Free(k),
           UNCHANGED <<rows, main, monitor, loop, cleanup, relay, receipts, contract, wallet>>,
           \A k \in Tasks : tasks'[k] = tasks[k],
           NEW s, Screen(s), s # "review", s \notin {"menu", "loading"} => Opened,
           s = "phrase" => flow.kind # "connect", s = "pair" => flow.kind # "disconnect",
           flow.screen # "menu"
    PROVE  QInv'
<1>1. ~Relayed /\ ~Acted
  BY DEF Relayed, Acted, Free
<1>2. TurnInv' /\ CopiesInv' /\ ~Relayed' /\ ~Acted'
  BY AllFree DEF QInv, TurnInv, Free
<1>3. /\ flow'.screen = s /\ flow'.id = flow.id /\ flow'.kind = flow.kind
      /\ main' = main /\ main.pc = "idle"
  BY DEF IInv, FlowInv, FlowRecords, Screen, MainIsIdle
<1>4. Opened' => Opened
  BY <1>3 DEF Opened
<1>5. OpenInv'
  BY <1>1, <1>3, <1>4 DEF QInv, OpenInv
<1>6. Local
  BY <1>1, <1>2 DEF Local
<1>7. ASSUME NEW e \in AnyExt, Drafted(e)' PROVE Drafted(e)
  BY <1>1, <1>3, <1>4, <1>7 DEF Drafted, Free
<1>8. Opened' => flow'.id \notin Elements(monitor)
  BY <1>3, <1>4, OpenRow
<1> QED BY <1>2, <1>5, <1>6, <1>7, <1>8, LocalKeeps DEF QInv

LEMMA StartFlowCalm ==
    ASSUME IInv, QInv, Quiet', StartFlow
    PROVE  QInv'
<1>1. ~Missing(flow.id)
  BY NoTrap DEF StartFlow
<1> USE <1>1 DEF StartFlow, UnchangedByScreens, outside
<1>2. \A k \in Tasks : Free(k)
  BY NotRelayed DEF QInv
<1>3. flow.screen = "ready" /\ Opened
  BY DEF Opened
<1> DEFINE s == IF flow.kind = "disconnect" THEN "phrase" ELSE "pair"
<1>4. Screen(s) /\ MainIsIdle /\ s \in {"phrase", "pair"}
      /\ UNCHANGED <<rows, main, monitor, loop, cleanup, relay, receipts, contract, wallet, tasks>>
  OBVIOUS
<1>5. (s = "phrase" => flow.kind # "connect") /\ (s = "pair" => flow.kind # "disconnect")
  OBVIOUS
<1> HIDE DEF s
<1> QED BY <1>2, <1>3, <1>4, <1>5, ScreenChanges

LEMMA BackCalm ==
    ASSUME ~Impatient, IInv, QInv, Back
    PROVE  QInv'
<1> USE DEF Back, UnchangedByScreens, outside
<1>1. \A k \in Tasks : Free(k)
  OBVIOUS
<1>2. \A k \in Tasks : tasks'[k] = tasks[k]
  BY <1>1 DEF IsPairing, IsReviewing, Free
<1>3. flow.screen \in {"loading", "estimating", "ready", "pair", "phrase", "review"}
  BY DEF IInv, FlowInv, FlowRecords
<1>4. /\ Previous \in {"menu", "ready", "pair", "phrase"}
      /\ Previous # "menu" => Opened
      /\ Previous = "phrase" => flow.kind # "connect"
      /\ Previous = "pair" => flow.kind # "disconnect"
  <2>1. flow.screen = "pair" => flow.kind # "disconnect"
    BY DEF QInv, OpenInv
  <2> QED BY <1>3, <2>1 DEF Previous, Opened
<1> QED BY <1>1, <1>2, <1>3, <1>4, ScreenChanges

LEMMA ChangePaymentTokenCalm ==
    ASSUME IInv, QInv, ChangePaymentToken
    PROVE  QInv'
<1> USE DEF ChangePaymentToken, outside
<1>1. ~Relayed /\ \A k \in Tasks : Free(k)
  BY NotRelayed DEF QInv
<1>2. TurnInv' /\ CopiesInv' /\ ~Relayed' /\ ~Acted'
  BY <1>1, AllFree DEF QInv, TurnInv, Free
<1>3. wallet'.ext = wallet.ext /\ wallet'.count = wallet.count
  BY DEF IInv, LoopInv, Wallets
<1>4. OpenInv' /\ ~Opened'
  BY DEF QInv, OpenInv, Opened, Acted
<1>5. Local
  BY <1>1, <1>2, <1>3 DEF Local
<1>6. ASSUME NEW e \in AnyExt, Drafted(e)' PROVE Drafted(e)
  BY <1>1, <1>4, <1>6 DEF Drafted
<1> QED BY <1>2, <1>4, <1>5, <1>6, LocalKeeps DEF QInv

-----------------------------------------------------------------------------
(* Signing.  The open transaction's row is written; no task is running.    *)

LEMMA SigningCalm ==
    ASSUME IInv, QInv, flow.screen = "phrase",
           NEW r \in Rows, r.status \in {"draft", "signing"}, r.kind = flow.kind,
           DataOK(r.kind, r.data), rows' = [rows EXCEPT ![flow.id] = r],
           flow'.id = flow.id, flow'.kind = flow.kind, flow'.screen \in {"phrase", "review"},
           flow'.screen = "review" => r.status = "signing",
           UNCHANGED <<monitor, loop, tasks, relay, receipts, contract, wallet, cleanup>>,
           r.data.op = "call" =>
              \/ r.data = rows[flow.id].data
              \/ main.pc = "reading" /\ r.data.old = main.copy.data.old,
           main'.pc \in {"reading", "estimating"} => main'.copy.kind = flow.kind,
           main'.pc = "estimating" => main'.copy.data = r.data,
           main'.pc = "reading" =>
              /\ flow.kind = "disconnect" /\ main'.copy.data.op = "call"
              /\ main'.copy.data.old = wallet.ext /\ main'.copy.data.new = NoExt
    PROVE  QInv'
<1>1. ~Relayed /\ ~Acted /\ \A k \in Tasks : Free(k)
  BY NotRelayed DEF QInv, Acted, Relayed, Free
<1>2. TurnInv' /\ CopiesInv' /\ ~Relayed' /\ ~Acted'
  BY <1>1, AllFree DEF QInv, TurnInv, Free
<1>3. /\ Opened /\ flow.id \in Ids /\ rows \in [Ids -> Rows]
      /\ rows[flow.id].status \notin Sent /\ flow.id \notin Elements(monitor)
      /\ flow.kind # "connect"
  BY <1>1, OpenRow DEF Opened, IInv, RowsInv, QInv, OpenInv
<1>4. rows'[flow.id] = r /\ \A i \in Ids : i # flow.id => rows'[i] = rows[i]
  BY <1>3
<1>5. OpenInv'
  <2>1. \A i \in Ids : DataOK(rows'[i].kind, rows'[i].data)
    BY <1>4 DEF QInv, OpenInv
  <2> QED BY <1>2, <1>3, <1>4, <2>1 DEF OpenInv, Opened
<1>6. Local
  BY <1>1, <1>2, <1>3, <1>4 DEF Local, Sent, Processed
<1>7. ASSUME NEW e \in AnyExt, Drafted(e)' PROVE Drafted(e) \/ e = wallet.ext
  <2>1. \A k \in Tasks : tasks'[k].pc # "reading"
    BY <1>1 DEF Free
  <2>2. \/ rows'[flow.id].data.op = "call" /\ e = rows'[flow.id].data.old
        \/ main'.pc = "reading" /\ e = main'.copy.data.old
    BY <1>3, <1>7, <2>1 DEF Drafted
  <2> QED BY <1>1, <1>3, <1>4, <2>2 DEF Drafted
<1> QED BY <1>2, <1>3, <1>5, <1>6, <1>7, LocalKeeps DEF QInv

LEMMA SteppedBackCalm ==
    ASSUME NEW r \in Rows
    PROVE  /\ SteppedBack(r).kind = r.kind /\ SteppedBack(r).data = r.data
           /\ r.status \in {"draft", "signing"} => SteppedBack(r).status = "draft"
BY DEF SteppedBack, Rows

LEMMA WithDataFacts ==
    ASSUME NEW r \in Rows, NEW d
    PROVE  /\ [r EXCEPT !.data = d].data = d /\ [r EXCEPT !.data = d].kind = r.kind
           /\ [r EXCEPT !.data = d].status = r.status
BY DEF Rows

LEMMA RealDataCalm ==
    ASSUME NEW r \in Rows, NEW owners
    PROVE  /\ WithRealData(r, owners).kind = r.kind
           /\ \/ WithRealData(r, owners).data = NilData
              \/ WithRealData(r, owners).data = r.data /\ r.data.old # NoExt
<1>1. CASE r.data.old \in owners \ {NoExt}
  BY <1>1 DEF WithRealData
<1>2. CASE r.data.old \notin owners \ {NoExt}
  BY <1>2, WithDataFacts DEF WithRealData
<1> QED BY <1>1, <1>2

LEMMA IntroFindsNothingCalm ==
    ASSUME Quiet', IntroFindsNothing
    PROVE  QInv'
BY NoTrap DEF IntroFindsNothing

LEMMA SignBeginsCalm ==
    ASSUME IInv, QInv, Quiet', SignBegins
    PROVE  QInv'
<1>1. ~Missing(flow.id)
  BY NoTrap DEF SignBegins
<1> DEFINE r == SteppedBack(rows[flow.id])
           pc == IF flow.kind = "disconnect" THEN "reading" ELSE "estimating"
           c == [r EXCEPT !.data = Call(wallet.ext, NoExt)]
<1>2. /\ flow.screen = "phrase" /\ rows' = [rows EXCEPT ![flow.id] = r]
      /\ main' = [pc |-> pc, copy |-> IF pc = "reading" THEN c ELSE r]
      /\ UNCHANGED <<monitor, loop, tasks, relay, receipts, contract, wallet, cleanup, flow>>
  BY <1>1 DEF SignBegins, StepsBackAndWaits, UnchangedBySigning, outside
<1>3. ~Acted /\ Opened
  BY <1>2, NotRelayed DEF QInv, Acted, Relayed, Opened
<1>4. /\ flow.id \in Ids /\ rows[flow.id] \in Rows /\ rows[flow.id].kind = flow.kind
      /\ rows[flow.id].status \in {"draft", "signing"}
      /\ DataOK(rows[flow.id].kind, rows[flow.id].data)
  BY <1>3, OpenRow
<1>5. /\ r \in Rows /\ r.status = "draft" /\ r.kind = flow.kind /\ r.data = rows[flow.id].data
  BY <1>4, SteppedBackFacts, SteppedBackCalm
<1>6. c.kind = r.kind /\ c.data = Call(wallet.ext, NoExt)
  BY <1>5, WithDataFacts
<1>7. c.data.op = "call" /\ c.data.old = wallet.ext /\ c.data.new = NoExt
  BY <1>6 DEF Call
<1> HIDE DEF r, c
<1> QED BY <1>2, <1>4, <1>5, <1>6, <1>7, SigningCalm

LEMMA SignReadsCalm ==
    ASSUME IInv, QInv, Quiet', SignReads
    PROVE  QInv'
<1>1. Editable(main.copy)
  BY NoTrap DEF SignReads
<1>2. PICK owners \in {{}, {contract}} :
         /\ StepsBackAndWaits(flow.id, WithRealData(main.copy, owners), "estimating")
         /\ UnchangedBySigning /\ UNCHANGED <<flow, Counters>>
  BY <1>1 DEF SignReads
<1> DEFINE d == WithRealData(main.copy, owners)
           r == SteppedBack(d)
<1>3. /\ rows' = [rows EXCEPT ![flow.id] = r] /\ main' = [pc |-> "estimating", copy |-> r]
      /\ UNCHANGED <<monitor, loop, tasks, relay, receipts, contract, wallet, cleanup, flow>>
  BY <1>2 DEF StepsBackAndWaits, UnchangedBySigning, outside
<1>4. /\ main.pc = "reading" /\ flow.screen = "phrase" /\ main.copy \in Rows
      /\ main.copy.kind = flow.kind /\ flow.kind = "disconnect"
      /\ main.copy.data.op = "call" /\ main.copy.data.new = NoExt
      /\ main.copy.status = "draft"
  BY <1>1 DEF SignReads, IInv, FlowInv, MainRecords, QInv, OpenInv, Editable
<1>5. /\ d \in Rows /\ d.status = "draft" /\ d.kind = flow.kind
      /\ d.data = NilData \/ (d.data = main.copy.data /\ d.data.old # NoExt)
  BY <1>4, RealDataFacts, RealDataCalm
<1>6. DataOK("disconnect", d.data)
  BY <1>4, <1>5, KindFacts DEF DataOK, Kinds
<1>7. r \in Rows /\ r.status = "draft" /\ r.kind = flow.kind /\ r.data = d.data
  BY <1>5, SteppedBackFacts, SteppedBackCalm
<1> HIDE DEF r, d
<1>8. r.data.op = "call" => main.pc = "reading" /\ r.data.old = main.copy.data.old
  BY <1>4, <1>5, <1>7, KindFacts DEF Kinds
<1> QED BY <1>3, <1>4, <1>6, <1>7, <1>8, SigningCalm

LEMMA SignEstimatesCalm ==
    ASSUME IInv, QInv, Quiet', SignEstimates
    PROVE  QInv'
<1>1. Editable(main.copy)
  BY NoTrap DEF SignEstimates
<1> DEFINE r == [main.copy EXCEPT !.nonce = NextNonce]
<1>2. /\ rows' = [rows EXCEPT ![flow.id] = r] /\ main' = [pc |-> "checking", copy |-> NoRow]
      /\ UNCHANGED <<monitor, loop, tasks, relay, receipts, contract, wallet, cleanup, flow>>
  BY <1>1 DEF SignEstimates, UnchangedBySigning, outside
<1>3. /\ main.pc = "estimating" /\ flow.screen = "phrase" /\ main.copy \in Rows
      /\ main.copy.kind = flow.kind /\ main.copy.data = rows[flow.id].data
      /\ main.copy.status = "draft"
  BY <1>1 DEF SignEstimates, IInv, FlowInv, MainRecords, QInv, OpenInv, Editable
<1>4. Opened
  BY <1>3 DEF Opened
<1>5. DataOK(flow.kind, rows[flow.id].data)
  BY <1>4, OpenRow
<1>6. NextNonce \in 0 .. MaxNonce
  BY NonceFacts DEF IInv
<1>7. r \in Rows /\ r.status = "draft" /\ r.kind = flow.kind /\ r.data = rows[flow.id].data
  BY <1>3, <1>6 DEF Rows
<1> HIDE DEF r
<1> QED BY <1>2, <1>3, <1>5, <1>7, SigningCalm

LEMMA SignFinishesCalm ==
    ASSUME IInv, QInv, Quiet', SignFinishes
    PROVE  QInv'
<1>1. ~Missing(flow.id) /\ Editable(rows[flow.id])
  BY NoTrap DEF SignFinishes
<1> DEFINE tx == rows[flow.id]
           s == tx.sigs \cup {HashOf(tx)}
           r == [tx EXCEPT !.status = "signing", !.sigs = s]
<1>2. /\ rows' = [rows EXCEPT ![flow.id] = r] /\ main' = IdleMain /\ Screen("review")
      /\ UNCHANGED <<monitor, loop, tasks, relay, receipts, contract, wallet, cleanup>>
  BY <1>1 DEF SignFinishes, UnchangedBySigning, outside
<1>3. flow.screen = "phrase" /\ Opened
  BY DEF SignFinishes, IInv, FlowInv, Opened
<1>4. tx \in Rows /\ tx.kind = flow.kind /\ DataOK(tx.kind, tx.data)
  BY <1>3, OpenRow
<1>5. s \in SUBSET Hashes
  <2>1. tx.sigs \in SUBSET Hashes
    BY <1>4 DEF Rows
  <2> QED BY <1>4, <2>1, HashFacts
<1>6. r \in Rows /\ r.status = "signing" /\ r.kind = tx.kind /\ r.data = tx.data
  <2> HIDE DEF s, tx
  <2> QED BY <1>4, <1>5 DEF Rows, Statuses
<1>7. flow'.id = flow.id /\ flow'.kind = flow.kind /\ flow'.screen = "review"
  BY <1>2 DEF Screen, IInv, FlowInv, FlowRecords
<1>8. main'.pc = "idle"
  BY <1>2 DEF IdleMain
<1> HIDE DEF r
<1> QED BY <1>2, <1>3, <1>4, <1>6, <1>7, <1>8, SigningCalm

LEMMA SignThrowsCalm ==
    ASSUME IInv, QInv, SignThrows
    PROVE  QInv'
<1> DEFINE r == rows[flow.id]
<1>1. /\ main'.pc = "idle" /\ rows' = rows /\ flow' = flow /\ main.pc # "idle"
      /\ UNCHANGED <<monitor, loop, tasks, relay, receipts, contract, wallet, cleanup>>
  BY DEF SignThrows, IdleMain, UnchangedBySigning, outside
<1>2. flow.screen = "phrase" /\ Opened /\ ~Acted
  BY <1>1, NotRelayed DEF IInv, FlowInv, Opened, QInv, Acted, Relayed
<1>3. /\ r \in Rows /\ r.status \in {"draft", "signing"} /\ r.kind = flow.kind
      /\ DataOK(r.kind, r.data)
  BY <1>2, OpenRow
<1>4. rows' = [rows EXCEPT ![flow.id] = r]
  BY <1>1 DEF IInv, RowsInv
<1> QED BY <1>1, <1>2, <1>3, <1>4, SigningCalm

-----------------------------------------------------------------------------
(* Tasks, before the relay has the transaction.                            *)

PairPlaces == {"validating", "unpairing", "pairing", "reading", "paired"}

\* One task goes on or ends and may write the open transaction's row.
LEMMA TaskCalm ==
    ASSUME IInv, QInv, NEW k \in Tasks, Opened, main.pc = "idle",
           tasks[k].pc \notin {"accepted", "acted"}, tasks'[k].pc \notin {"accepted", "acted"},
           \A j \in Tasks : j # k => Free(j) /\ tasks'[j] = tasks[j],
           tasks'[k].pc # "idle" =>
              /\ tasks'[k].id = flow.id /\ tasks'[k].kind = flow.kind /\ tasks'[k].left = FALSE
              /\ flow'.screen = IF tasks'[k].pc \in PairPlaces THEN "pair" ELSE "review",
           CopyOK(tasks[k])',
           \A i \in Ids : i # flow.id => rows'[i] = rows[i],
           rows'[flow.id].status \in {"draft", "signing"}, rows'[flow.id].kind = flow.kind,
           DataOK(rows'[flow.id].kind, rows'[flow.id].data),
           flow'.id = flow.id, flow'.kind = flow.kind,
           flow'.screen \in {"pair", "phrase", "review"},
           flow'.screen = "review" /\ flow.kind # "connect" => rows'[flow.id].status = "signing",
           flow'.screen = "review" /\ flow.kind = "connect" => rows'[flow.id].data.op = "call",
           flow'.screen = "phrase" => flow.kind # "connect",
           flow'.screen = "pair" => flow.kind # "disconnect",
           UNCHANGED <<monitor, loop, relay, receipts, contract, wallet, cleanup, main>>,
           rows'[flow.id].data.op = "call" =>
              \/ rows'[flow.id].data = rows[flow.id].data
              \/ rows'[flow.id].data.old = wallet.ext
              \/ \E d : Drafted(d) /\ rows'[flow.id].data.old = d,
           tasks'[k].pc = "reading" => tasks'[k].copy.data.old = wallet.ext
    PROVE  QInv'
<1>1. ~Relayed /\ ~Acted /\ ~Relayed' /\ ~Acted'
  BY DEF Relayed, Acted, Free
<1>2. TurnInv'
  <2>1. cleanup' = FALSE
    BY DEF QInv, TurnInv
  <2>2. \A j \in Tasks : tasks'[j].pc # "idle" => j = k
    BY DEF Free
  <2> QED BY <2>1, <2>2 DEF TurnInv, Free, IsPairing, PairPlaces
<1>3. CopiesInv'
  <2>1. ASSUME NEW j \in Tasks, j # k PROVE CopyOK(tasks[j])'
    BY <2>1 DEF CopyOK, Free
  <2> QED BY <2>1 DEF CopiesInv
<1>4. /\ flow.id \in Ids /\ rows[flow.id].status \notin Sent
      /\ flow.id \notin Elements(monitor)
  BY <1>1, OpenRow
<1>5. OpenInv'
  <2>1. \A i \in Ids : DataOK(rows'[i].kind, rows'[i].data)
    BY DEF QInv, OpenInv
  <2> QED BY <1>1, <2>1 DEF OpenInv
<1>6. Local
  BY <1>1, <1>4 DEF Local, Sent, Processed
<1>7. ASSUME NEW e \in AnyExt, Drafted(e)' PROVE Drafted(e) \/ e = wallet.ext
  <2>1. \A j \in Tasks : tasks'[j].pc = "reading" => j = k
    BY DEF Free
  <2>2. flow.screen # "menu"
    BY DEF Opened
  <2>3. \/ flow.kind = "connect" /\ e = NoExt
        \/ rows'[flow.id].data.op = "call" /\ e = rows'[flow.id].data.old
        \/ e = wallet.ext
    BY <1>7, <2>1 DEF Drafted
  <2>4. CASE rows'[flow.id].data.op = "call" /\ rows'[flow.id].data # rows[flow.id].data
             /\ e = rows'[flow.id].data.old
    BY <2>4
  <2> QED BY <1>1, <2>2, <2>3, <2>4 DEF Drafted
<1> QED BY <1>2, <1>3, <1>4, <1>5, <1>6, <1>7, LocalKeeps DEF QInv

\* The task that is running, and the transaction it runs for.
LEMMA RunningTask ==
    ASSUME IInv, QInv, NEW k \in Tasks, tasks[k].pc # "idle"
    PROVE  /\ tasks[k].id = flow.id /\ tasks[k].kind = flow.kind /\ tasks[k].left = FALSE
           /\ flow.screen = IF tasks[k].pc \in PairPlaces THEN "pair" ELSE "review"
           /\ Opened /\ main.pc = "idle"
           /\ \A j \in Tasks : j # k => Free(j)
           /\ tasks[k].pc # "acted" => ~Acted
           /\ tasks[k].pc \notin {"accepted", "acted"} => ~Relayed
           /\ CopyOK(tasks[k])
<1>1. \A j \in Tasks : j # k => Free(j)
  BY DEF QInv, TurnInv, Free
<1>2. flow.screen \in {"pair", "review"}
  BY DEF QInv, TurnInv, Free
<1>3. Opened /\ main.pc = "idle"
  BY <1>2 DEF Opened, IInv, FlowInv
<1>4. /\ tasks[k].pc # "acted" => ~Acted
      /\ tasks[k].pc \notin {"accepted", "acted"} => ~Relayed
  BY <1>1 DEF Acted, Relayed, Free
<1> QED BY <1>1, <1>3, <1>4 DEF QInv, TurnInv, CopiesInv, Free, IsPairing, PairPlaces

\* What a task that leaves the rows alone keeps.
LEMMA TaskMovesCalm ==
    ASSUME IInv, QInv, NEW k \in Tasks, tasks[k].pc # "idle",
           tasks[k].pc \notin {"accepted", "acted"}, tasks'[k].pc \notin {"accepted", "acted"},
           \A j \in Tasks : j # k => tasks'[j] = tasks[j],
           tasks'[k].pc # "idle" =>
              /\ tasks'[k].id = tasks[k].id /\ tasks'[k].kind = tasks[k].kind
              /\ tasks'[k].left = tasks[k].left
              /\ (tasks'[k].pc \in PairPlaces) <=> (tasks[k].pc \in PairPlaces),
           CopyOK(tasks[k])', tasks'[k].pc # "reading",
           UNCHANGED <<rows, flow, monitor, loop, relay, receipts, contract, wallet, cleanup, main>>
    PROVE  QInv'
<1>1. /\ tasks[k].id = flow.id /\ tasks[k].kind = flow.kind /\ tasks[k].left = FALSE
      /\ flow.screen = IF tasks[k].pc \in PairPlaces THEN "pair" ELSE "review"
      /\ Opened /\ main.pc = "idle" /\ ~Acted
      /\ \A j \in Tasks : j # k => Free(j)
  BY RunningTask
<1>2. /\ rows[flow.id].status \in {"draft", "signing"} /\ rows[flow.id].kind = flow.kind
      /\ DataOK(rows[flow.id].kind, rows[flow.id].data)
  BY <1>1, OpenRow
<1>3. /\ flow.screen = "review" /\ flow.kind # "connect" => rows[flow.id].status = "signing"
      /\ flow.screen = "review" /\ flow.kind = "connect" => rows[flow.id].data.op = "call"
      /\ flow.screen = "phrase" => flow.kind # "connect"
      /\ flow.screen = "pair" => flow.kind # "disconnect"
  BY <1>1 DEF QInv, OpenInv
<1> QED BY <1>1, <1>2, <1>3, TaskCalm

LEMMA EndsCalm ==
    ASSUME IInv, QInv, NEW k \in Tasks, tasks[k].pc # "idle",
           tasks[k].pc \notin {"accepted", "acted"}, Ends(k),
           UNCHANGED <<rows, flow, monitor, loop, relay, receipts, contract, wallet, cleanup, main>>
    PROVE  QInv'
<1>1. tasks \in [Tasks -> TaskRecords]
  BY DEF IInv, TasksInv
<1>2. tasks'[k].pc = "idle" /\ \A j \in Tasks : j # k => tasks'[j] = tasks[j]
  BY <1>1 DEF Ends, NoTask
<1>3. CopyOK(tasks[k])'
  BY <1>2 DEF CopyOK
<1> QED BY <1>2, <1>3, TaskMovesCalm

LEMMA ThrowsCalm ==
    ASSUME IInv, QInv, NEW k \in Tasks, PairThrows(k) \/ ReviewThrows(k)
    PROVE  QInv'
<1>1. /\ tasks[k].pc \in {"unpairing", "pairing", "estimating", "relaying"} /\ Ends(k)
      /\ UNCHANGED <<rows, flow, monitor, loop, relay, receipts, contract, wallet, cleanup, main>>
  BY DEF PairThrows, ReviewThrows, UnchangedByTasks
<1> QED BY <1>1, EndsCalm

\* A task begins on its screen.
LEMMA BeginsCalm ==
    ASSUME IInv, QInv, NEW k \in Tasks, Opened, flow.screen \in {"pair", "review"},
           \A j \in Tasks : Free(j),
           tasks'[k].pc = IF flow.screen = "pair" THEN "validating" ELSE "start",
           tasks'[k].id = flow.id, tasks'[k].kind = flow.kind, tasks'[k].left = FALSE,
           \A j \in Tasks : j # k => tasks'[j] = tasks[j],
           UNCHANGED <<rows, flow, monitor, loop, relay, receipts, contract, wallet, cleanup, main>>
    PROVE  QInv'
<1>1. ~Acted /\ main.pc = "idle" /\ tasks[k].pc = "idle"
  BY DEF Acted, Free, IInv, FlowInv
<1>2. /\ rows[flow.id].status \in {"draft", "signing"} /\ rows[flow.id].kind = flow.kind
      /\ DataOK(rows[flow.id].kind, rows[flow.id].data)
  BY <1>1, OpenRow
<1>3. /\ flow.screen = "review" /\ flow.kind # "connect" => rows[flow.id].status = "signing"
      /\ flow.screen = "review" /\ flow.kind = "connect" => rows[flow.id].data.op = "call"
      /\ flow.screen = "phrase" => flow.kind # "connect"
      /\ flow.screen = "pair" => flow.kind # "disconnect"
  BY <1>1 DEF QInv, OpenInv
<1>4. CopyOK(tasks[k])'
  BY DEF CopyOK
<1> QED BY <1>1, <1>2, <1>3, <1>4, TaskCalm DEF PairPlaces

LEMMA ScanCalm ==
    ASSUME IInv, QInv, NEW k \in Tasks, NEW e \in Exts, Scan(k, e)
    PROVE  QInv'
<1> USE DEF Scan, UnchangedByTasks
<1>1. \A j \in Tasks : Free(j)
  BY RunningTask DEF IsPairing, PairPlaces, Free
<1>2. /\ tasks'[k].pc = "validating" /\ tasks'[k].id = flow.id
      /\ tasks'[k].kind = flow.kind /\ tasks'[k].left = FALSE
      /\ \A j \in Tasks : j # k => tasks'[j] = tasks[j]
  BY DEF NoTask, IInv, TasksInv
<1> QED BY <1>1, <1>2, BeginsCalm DEF Opened

LEMMA SubmitCalm ==
    ASSUME IInv, QInv, NEW k \in Tasks, Submit(k)
    PROVE  QInv'
<1> USE DEF Submit, UnchangedByTasks
<1>1. \A j \in Tasks : Free(j)
  BY RunningTask DEF IsReviewing, IsPairing, PairPlaces, Free
<1>2. /\ tasks'[k].pc = "start" /\ tasks'[k].id = flow.id
      /\ tasks'[k].kind = flow.kind /\ tasks'[k].left = FALSE
      /\ \A j \in Tasks : j # k => tasks'[j] = tasks[j]
  BY DEF NoTask, IInv, TasksInv
<1> QED BY <1>1, <1>2, BeginsCalm DEF Opened

\* The fields of a task that goes on.
LEMMA GoesFields ==
    ASSUME IInv, NEW k \in Tasks, NEW p, Goes(k, p)
    PROVE  /\ tasks'[k].pc = p /\ tasks'[k].copy = tasks[k].copy /\ tasks'[k].id = tasks[k].id
           /\ tasks'[k].kind = tasks[k].kind /\ tasks'[k].left = tasks[k].left
           /\ \A j \in Tasks : j # k => tasks'[j] = tasks[j]
BY DEF Goes, IInv, TasksInv, TaskRecords

LEMMA GoesWithFields ==
    ASSUME IInv, NEW k \in Tasks, NEW p, NEW c,
           \/ tasks' = [tasks EXCEPT ![k].pc = p, ![k].copy = c]
           \/ tasks' = [tasks EXCEPT ![k].copy = c, ![k].pc = p]
    PROVE  /\ tasks'[k].pc = p /\ tasks'[k].copy = c /\ tasks'[k].id = tasks[k].id
           /\ tasks'[k].kind = tasks[k].kind /\ tasks'[k].left = tasks[k].left
           /\ \A j \in Tasks : j # k => tasks'[j] = tasks[j]
BY DEF IInv, TasksInv, TaskRecords

LEMMA PairValidatesCalm ==
    ASSUME IInv, QInv, Quiet', NEW k \in Tasks, PairValidates(k)
    PROVE  QInv'
<1>1. ~Missing(tasks[k].id) /\ tasks[k].pc = "validating"
  BY NoTrap DEF PairValidates, At
<1> DEFINE p == IF rows[tasks[k].id].data = NilData THEN "pairing" ELSE "unpairing"
           c == rows[tasks[k].id]
<1>2. /\ Ends(k) \/ tasks' = [tasks EXCEPT ![k].copy = c, ![k].pc = p]
      /\ UNCHANGED <<rows, flow, monitor, loop, relay, receipts, contract, wallet, cleanup, main>>
  BY <1>1 DEF PairValidates, UnchangedByTasks
<1>3. p \in {"pairing", "unpairing"}
  OBVIOUS
<1>4. CASE Ends(k)
  BY <1>1, <1>2, <1>4, EndsCalm
<1>5. CASE ~Ends(k)
  <2> HIDE DEF p, c
  <2>0. tasks' = [tasks EXCEPT ![k].copy = c, ![k].pc = p]
    BY <1>2, <1>5
  <2>1. /\ tasks'[k].pc = p /\ tasks'[k].id = tasks[k].id
        /\ tasks'[k].kind = tasks[k].kind /\ tasks'[k].left = tasks[k].left
        /\ \A j \in Tasks : j # k => tasks'[j] = tasks[j]
    BY <2>0, GoesWithFields
  <2>2. CopyOK(tasks[k])'
    BY <1>3, <2>1 DEF CopyOK
  <2> QED BY <1>1, <1>2, <1>3, <2>1, <2>2, TaskMovesCalm DEF PairPlaces
<1> QED BY <1>4, <1>5

LEMMA PairUnpairsCalm ==
    ASSUME IInv, QInv, NEW k \in Tasks, PairUnpairs(k)
    PROVE  QInv'
<1> USE DEF PairUnpairs, UnchangedByTasks, At
<1>1. /\ tasks'[k].pc = "pairing" /\ tasks'[k].id = tasks[k].id
      /\ tasks'[k].kind = tasks[k].kind /\ tasks'[k].left = tasks[k].left
      /\ \A j \in Tasks : j # k => tasks'[j] = tasks[j]
  BY GoesFields
<1>2. CopyOK(tasks[k])'
  BY <1>1 DEF CopyOK
<1> QED BY <1>1, <1>2, TaskMovesCalm DEF PairPlaces

LEMMA PairPairsCalm ==
    ASSUME IInv, QInv, Quiet', NEW k \in Tasks, PairPairs(k)
    PROVE  QInv'
<1> DEFINE i == tasks[k].id
           tx == SteppedBack(rows[i])
<1>1. tasks[k].pc = "pairing" /\ tasks[k].pc # "idle"
  BY DEF PairPairs, At
<1>2. /\ i = flow.id /\ tasks[k].kind = flow.kind /\ tasks[k].left = FALSE
      /\ flow.screen = "pair" /\ Opened /\ main.pc = "idle" /\ ~Acted
      /\ \A j \in Tasks : j # k => Free(j)
  BY <1>1, RunningTask DEF PairPlaces
<1>3. /\ flow.id \in Ids /\ rows[flow.id] \in Rows /\ rows[flow.id].kind = flow.kind
      /\ rows[flow.id].status \in {"draft", "signing"}
      /\ DataOK(rows[flow.id].kind, rows[flow.id].data) /\ flow.kind \in Kinds
      /\ flow.kind # "disconnect"
  BY <1>2, OpenRow DEF QInv, OpenInv
<1>4. tx \in Rows /\ tx.status = "draft" /\ tx.kind = flow.kind /\ tx.data = rows[flow.id].data
  BY <1>2, <1>3, SteppedBackFacts, SteppedBackCalm
<1>5. ~(tasks[k].kind = "replace" /\ wallet.ext = NoExt)
  BY <1>1, NoTrap DEF PairPairs
<1>6. ~Missing(i)
  BY NoTrap DEF PairPairs
<1>7. /\ UNCHANGED <<monitor, flow, loop, relay, receipts, contract, wallet, cleanup, main>>
      /\ IF tasks[k].kind = "connect"
         THEN /\ rows' = [rows EXCEPT ![i] = [tx EXCEPT !.data = Call(NoExt, tasks[k].ext)]]
              /\ tasks' = [tasks EXCEPT ![k].pc = "paired", ![k].copy = NoRow]
         ELSE /\ rows' = [rows EXCEPT ![i] = tx]
              /\ tasks' = [tasks EXCEPT ![k].pc = "reading",
                            ![k].copy = [tx EXCEPT !.data = Call(wallet.ext, tasks[k].ext)]]
  BY <1>4, <1>5, <1>6 DEF PairPairs, UnchangedByTasks, Editable
<1>8. /\ tasks[k].ext \in Exts /\ wallet.ext \in AnyExt /\ rows \in [Ids -> Rows]
  BY <1>1 DEF IInv, TasksInv, TaskOK, Scanning, LoopInv, Wallets, RowsInv
<1> HIDE DEF tx
<1>9. CASE flow.kind = "connect"
  <2> DEFINE r == [tx EXCEPT !.data = Call(NoExt, tasks[k].ext)]
  <2>0. tasks' = [tasks EXCEPT ![k].pc = "paired", ![k].copy = NoRow]
    BY <1>2, <1>7, <1>9
  <2>1. /\ tasks'[k].pc = "paired" /\ tasks'[k].id = tasks[k].id
        /\ tasks'[k].kind = tasks[k].kind /\ tasks'[k].left = tasks[k].left
        /\ \A j \in Tasks : j # k => tasks'[j] = tasks[j]
    BY <2>0, GoesWithFields
  <2>2. r.data = Call(NoExt, tasks[k].ext) /\ r.kind = flow.kind /\ r.status = "draft"
    BY <1>4, WithDataFacts
  <2>3. rows' = [rows EXCEPT ![flow.id] = r]
    BY <1>2, <1>7, <1>9
  <2> HIDE DEF r
  <2>4. rows'[flow.id] = r /\ \A j \in Ids : j # flow.id => rows'[j] = rows[j]
    BY <1>3, <1>8, <2>3
  <2>5. /\ r.data.op = "call" /\ r.data.old = NoExt /\ DataOK(r.kind, r.data)
    BY <1>3, <1>8, <1>9, <2>2, KindFacts
  <2>6. CopyOK(tasks[k])'
    BY <1>2, <2>1, <2>4, <2>5 DEF CopyOK
  <2>7. flow.id = flow'.id /\ Drafted(NoExt)
    BY <1>1, <1>2, <1>7, <1>9, RunningTask DEF Drafted
  <2>8. /\ rows'[flow.id].status = "draft" /\ rows'[flow.id].kind = flow.kind
        /\ rows'[flow.id].data.op = "call" /\ rows'[flow.id].data.old = NoExt
        /\ DataOK(rows'[flow.id].kind, rows'[flow.id].data)
        /\ \A j \in Ids : j # flow.id => rows'[j] = rows[j]
    BY <2>2, <2>4, <2>5
  <2>9. UNCHANGED <<monitor, flow, loop, relay, receipts, contract, wallet, cleanup, main>>
    BY <1>7
  <2> QED BY <1>1, <1>2, <1>3, <1>9, <2>1, <2>6, <2>7, <2>8, <2>9, TaskCalm DEF PairPlaces
<1>10. CASE flow.kind # "connect"
  <2> DEFINE c == [tx EXCEPT !.data = Call(wallet.ext, tasks[k].ext)]
  <2>1. c.data = Call(wallet.ext, tasks[k].ext) /\ c.kind = flow.kind
    BY <1>4, WithDataFacts
  <2>2. rows' = [rows EXCEPT ![flow.id] = tx] /\ tasks' = [tasks EXCEPT ![k].pc = "reading", ![k].copy = c]
    BY <1>2, <1>7, <1>10
  <2> HIDE DEF c
  <2>3. /\ tasks'[k].pc = "reading" /\ tasks'[k].copy = c /\ tasks'[k].id = tasks[k].id
        /\ tasks'[k].kind = tasks[k].kind /\ tasks'[k].left = tasks[k].left
        /\ \A j \in Tasks : j # k => tasks'[j] = tasks[j]
    BY <2>2, GoesWithFields
  <2>4. rows'[flow.id] = tx /\ \A j \in Ids : j # flow.id => rows'[j] = rows[j]
    BY <1>3, <1>8, <2>2
  <2>5. flow.kind = "replace" /\ wallet.ext \in Exts
    BY <1>2, <1>3, <1>5, <1>8, <1>10 DEF Kinds, AnyExt
  <2>6. c.data.old = wallet.ext /\ DataOK(c.kind, c.data)
    BY <1>3, <1>8, <2>1, <2>5, KindFacts
  <2>7. CopyOK(tasks[k])'
    BY <1>2, <1>10, <2>1, <2>3, <2>6 DEF CopyOK
  <2>8. /\ rows'[flow.id].status = "draft" /\ rows'[flow.id].kind = flow.kind
        /\ rows'[flow.id].data = rows[flow.id].data
        /\ \A j \in Ids : j # flow.id => rows'[j] = rows[j]
    BY <1>4, <2>4
  <2>9. UNCHANGED <<monitor, flow, loop, relay, receipts, contract, wallet, cleanup, main>>
    BY <1>7
  <2> QED BY <1>1, <1>2, <1>3, <1>10, <2>3, <2>6, <2>7, <2>8, <2>9, TaskCalm DEF PairPlaces
<1> QED BY <1>9, <1>10

LEMMA PairReadsCalm ==
    ASSUME IInv, QInv, Quiet', NEW k \in Tasks, PairReads(k)
    PROVE  QInv'
<1>1. Editable(tasks[k].copy) /\ tasks[k].pc = "reading" /\ tasks[k].pc # "idle"
  BY NoTrap DEF PairReads, At
<1>2. PICK owners \in {{}, {contract}} :
         /\ rows' = [rows EXCEPT ![tasks[k].id] = WithRealData(tasks[k].copy, owners)]
         /\ tasks' = [tasks EXCEPT ![k].pc = "paired", ![k].copy = NoRow]
         /\ UNCHANGED <<flow, monitor, loop, relay, receipts, contract, wallet, cleanup, main>>
  BY <1>1 DEF PairReads, UnchangedByTasks
<1> DEFINE r == WithRealData(tasks[k].copy, owners)
<1>3. /\ tasks[k].id = flow.id /\ tasks[k].kind = flow.kind /\ tasks[k].left = FALSE
      /\ flow.screen = "pair" /\ Opened /\ main.pc = "idle"
      /\ \A j \in Tasks : j # k => Free(j)
  BY <1>1, RunningTask DEF PairPlaces
<1>4. /\ tasks[k].copy \in Rows /\ tasks[k].copy.kind = flow.kind /\ flow.kind # "connect"
      /\ DataOK(flow.kind, tasks[k].copy.data) /\ tasks[k].copy.status = "draft"
  BY <1>1, <1>3, RunningTask, TaskRowFacts DEF CopyOK, Editable
<1>5. /\ r \in Rows /\ r.status = "draft" /\ r.kind = flow.kind
      /\ r.data = NilData \/ r.data = tasks[k].copy.data
  BY <1>4, RealDataFacts, RealDataCalm
<1>6. tasks' = [tasks EXCEPT ![k].pc = "paired", ![k].copy = NoRow]
  BY <1>2
<1>7. /\ tasks'[k].pc = "paired" /\ tasks'[k].id = tasks[k].id
      /\ tasks'[k].kind = tasks[k].kind /\ tasks'[k].left = tasks[k].left
      /\ \A j \in Tasks : j # k => tasks'[j] = tasks[j]
  BY <1>6, GoesWithFields
<1>8. rows' = [rows EXCEPT ![flow.id] = r] /\ rows \in [Ids -> Rows] /\ flow.id \in Ids
  BY <1>2, <1>3, OpenRow DEF IInv, RowsInv
<1> HIDE DEF r
<1>9. rows'[flow.id] = r /\ \A j \in Ids : j # flow.id => rows'[j] = rows[j]
  BY <1>8
<1>10. flow.kind \in Kinds /\ DataOK(r.kind, r.data)
  BY <1>3, <1>4, <1>5, OpenRow, KindFacts
<1>11. r.data.op = "call" => Drafted(tasks[k].copy.data.old) /\ r.data.old = tasks[k].copy.data.old
  BY <1>1, <1>5, <1>10, KindFacts DEF Drafted
<1>12. CopyOK(tasks[k])'
  BY <1>3, <1>4, <1>7 DEF CopyOK
<1>13. flow.kind # "disconnect"
  BY <1>3 DEF QInv, OpenInv
<1>14. UNCHANGED <<flow, monitor, loop, relay, receipts, contract, wallet, cleanup, main>>
  BY <1>2
<1> QED BY <1>1, <1>3, <1>4, <1>5, <1>7, <1>9, <1>10, <1>11, <1>12, <1>13, <1>14, TaskCalm
        DEF PairPlaces

LEMMA PairFinishesCalm ==
    ASSUME IInv, QInv, NEW k \in Tasks, PairFinishes(k)
    PROVE  QInv'
<1>1. tasks[k].pc = "paired" /\ tasks[k].pc # "idle"
  BY DEF PairFinishes, At
<1>2. /\ tasks[k].id = flow.id /\ tasks[k].kind = flow.kind /\ tasks[k].left = FALSE
      /\ flow.screen = "pair" /\ Opened /\ main.pc = "idle" /\ ~Acted
      /\ \A j \in Tasks : j # k => Free(j)
      /\ CopyOK(tasks[k])
  BY <1>1, RunningTask DEF PairPlaces
<1>3. /\ flow' = [screen |-> IF tasks[k].kind = "connect" THEN "review" ELSE "phrase",
                  kind |-> tasks[k].kind, id |-> tasks[k].id]
      /\ IF tasks[k].kind = "connect"
         THEN tasks' = [tasks EXCEPT ![k] = [NoTask EXCEPT !.pc = "start",
                            !.kind = "connect", !.id = tasks[k].id]]
         ELSE Ends(k)
      /\ UNCHANGED <<rows, monitor, loop, relay, receipts, contract, wallet, cleanup, main>>
  BY <1>2 DEF PairFinishes, UnchangedByTasks
<1>4. /\ tasks'[k].pc = IF flow.kind = "connect" THEN "start" ELSE "idle"
      /\ tasks'[k].pc = "start" => /\ tasks'[k].id = flow.id /\ tasks'[k].kind = flow.kind
                                   /\ tasks'[k].left = FALSE
      /\ \A j \in Tasks : j # k => tasks'[j] = tasks[j]
  <2>1. tasks \in [Tasks -> TaskRecords]
    BY DEF IInv, TasksInv
  <2>2. CASE flow.kind = "connect"
    <3> DEFINE t == [NoTask EXCEPT !.pc = "start", !.kind = "connect", !.id = tasks[k].id]
    <3>1. t.pc = "start" /\ t.kind = "connect" /\ t.id = tasks[k].id /\ t.left = FALSE
      BY DEF NoTask
    <3>2. tasks' = [tasks EXCEPT ![k] = t]
      BY <1>2, <1>3, <2>2
    <3> HIDE DEF t
    <3>3. tasks'[k] = t /\ \A j \in Tasks : j # k => tasks'[j] = tasks[j]
      BY <2>1, <3>2
    <3> QED BY <1>2, <2>2, <3>1, <3>3
  <2>3. CASE flow.kind # "connect"
    BY <1>2, <1>3, <2>1, <2>3 DEF Ends, NoTask
  <2> QED BY <2>2, <2>3
<1>5. /\ rows[flow.id].kind = flow.kind /\ rows[flow.id].status \in {"draft", "signing"}
      /\ DataOK(rows[flow.id].kind, rows[flow.id].data)
  BY <1>2, OpenRow
<1>6. flow.kind = "connect" => rows[flow.id].data.op = "call"
  BY <1>1, <1>2 DEF CopyOK
<1>7. CopyOK(tasks[k])'
  BY <1>4 DEF CopyOK
<1> QED BY <1>1, <1>2, <1>3, <1>4, <1>5, <1>6, <1>7, TaskCalm DEF PairPlaces

LEMMA ReviewStartsCalm ==
    ASSUME IInv, QInv, Quiet', NEW k \in Tasks, ReviewStarts(k)
    PROVE  QInv'
<1>1. ~Missing(tasks[k].id) /\ tasks[k].pc = "start" /\ tasks[k].pc # "idle"
  BY NoTrap DEF ReviewStarts, At
<1> DEFINE c == rows[tasks[k].id]
<1>2. /\ \/ tasks' = [tasks EXCEPT ![k].pc = "estimating", ![k].copy = c]
         \/ Goes(k, "act") /\ ~(c.kind = "connect" /\ c.status = "draft")
      /\ UNCHANGED <<rows, flow, monitor, loop, relay, receipts, contract, wallet, cleanup, main>>
  BY <1>1 DEF ReviewStarts, UnchangedByTasks
<1>3. /\ tasks[k].id = flow.id /\ tasks[k].kind = flow.kind
      /\ flow.screen = "review" /\ Opened /\ ~Acted
  BY <1>1, RunningTask DEF PairPlaces
<1>4. c.kind = flow.kind /\ c.status \in {"draft", "signing"}
  BY <1>3, OpenRow
<1>5. flow.kind # "connect" => c.status = "signing"
  BY <1>3 DEF QInv, OpenInv
<1>6. CASE tasks' = [tasks EXCEPT ![k].pc = "estimating", ![k].copy = c]
  <2>1. /\ tasks'[k].pc = "estimating" /\ tasks'[k].copy = c /\ tasks'[k].id = tasks[k].id
        /\ tasks'[k].kind = tasks[k].kind /\ tasks'[k].left = tasks[k].left
        /\ \A j \in Tasks : j # k => tasks'[j] = tasks[j]
    <3> HIDE DEF c
    <3> QED BY <1>6, GoesWithFields
  <2>2. CopyOK(tasks[k])'
    BY <1>2, <2>1 DEF CopyOK, SameTx
  <2> QED BY <1>1, <1>2, <2>1, <2>2, TaskMovesCalm DEF PairPlaces
<1>7. CASE Goes(k, "act") /\ ~(c.kind = "connect" /\ c.status = "draft")
  <2>1. /\ tasks'[k].pc = "act" /\ tasks'[k].id = tasks[k].id
        /\ tasks'[k].kind = tasks[k].kind /\ tasks'[k].left = tasks[k].left
        /\ \A j \in Tasks : j # k => tasks'[j] = tasks[j]
    BY <1>7, GoesFields
  <2>2. c.status = "signing"
    BY <1>4, <1>5, <1>7
  <2>3. CopyOK(tasks[k])'
    BY <1>2, <2>1, <2>2 DEF CopyOK
  <2> QED BY <1>1, <1>2, <2>1, <2>3, TaskMovesCalm DEF PairPlaces
<1> QED BY <1>2, <1>6, <1>7

LEMMA ReviewEstimatesCalm ==
    ASSUME IInv, QInv, NEW k \in Tasks, ReviewEstimates(k)
    PROVE  QInv'
<1> DEFINE r == [tasks[k].copy EXCEPT !.nonce = NextNonce, !.status = "signing"]
<1>1. /\ tasks[k].pc = "estimating" /\ tasks[k].pc # "idle"
      /\ rows' = [rows EXCEPT ![tasks[k].id] = r]
      /\ tasks' = [tasks EXCEPT ![k].pc = "act", ![k].copy = NoRow]
      /\ UNCHANGED <<flow, monitor, loop, relay, receipts, contract, wallet, cleanup, main>>
  BY DEF ReviewEstimates, At, UnchangedByTasks
<1>2. /\ tasks[k].id = flow.id /\ tasks[k].kind = flow.kind /\ tasks[k].left = FALSE
      /\ flow.screen = "review" /\ Opened /\ main.pc = "idle"
      /\ \A j \in Tasks : j # k => Free(j)
      /\ CopyOK(tasks[k])
  BY <1>1, RunningTask DEF PairPlaces
<1>3. /\ tasks[k].copy \in Rows /\ tasks[k].copy.kind = rows[flow.id].kind
      /\ tasks[k].copy.data = rows[flow.id].data
  BY <1>1, <1>2, TaskRowFacts DEF CopyOK, SameTx
<1>4. r.status = "signing" /\ r.kind = tasks[k].copy.kind /\ r.data = tasks[k].copy.data
  <2> DEFINE c == tasks[k].copy
             n == NextNonce
  <2> HIDE DEF c, n
  <2>1. c \in Rows
    BY <1>3 DEF c
  <2>2. /\ [c EXCEPT !.nonce = n, !.status = "signing"].status = "signing"
        /\ [c EXCEPT !.nonce = n, !.status = "signing"].kind = c.kind
        /\ [c EXCEPT !.nonce = n, !.status = "signing"].data = c.data
    BY <2>1 DEF Rows
  <2> QED BY <2>2 DEF c, n
<1>5. tasks' = [tasks EXCEPT ![k].pc = "act", ![k].copy = NoRow]
  BY <1>1
<1>6. /\ tasks'[k].pc = "act" /\ tasks'[k].id = tasks[k].id
      /\ tasks'[k].kind = tasks[k].kind /\ tasks'[k].left = tasks[k].left
      /\ \A j \in Tasks : j # k => tasks'[j] = tasks[j]
  BY <1>5, GoesWithFields
<1>7. rows' = [rows EXCEPT ![flow.id] = r] /\ rows \in [Ids -> Rows] /\ flow.id \in Ids
  BY <1>1, <1>2, OpenRow DEF IInv, RowsInv
<1> HIDE DEF r
<1>8. rows'[flow.id] = r /\ \A j \in Ids : j # flow.id => rows'[j] = rows[j]
  BY <1>7
<1>9. /\ rows[flow.id].kind = flow.kind /\ DataOK(rows[flow.id].kind, rows[flow.id].data)
      /\ flow.kind = "connect" => rows[flow.id].data.op = "call"
  BY <1>2, OpenRow DEF QInv, OpenInv
<1>10. CopyOK(tasks[k])'
  BY <1>2, <1>4, <1>6, <1>8 DEF CopyOK
<1>11. /\ UNCHANGED <<flow, monitor, loop, relay, receipts, contract, wallet, cleanup, main>>
       /\ tasks[k].pc = "estimating"
  BY <1>1
<1>12. /\ rows'[flow.id].status = "signing" /\ rows'[flow.id].kind = flow.kind
       /\ rows'[flow.id].data = rows[flow.id].data
  BY <1>3, <1>4, <1>8, <1>9
<1> QED BY <1>2, <1>6, <1>8, <1>9, <1>10, <1>11, <1>12, TaskCalm DEF PairPlaces

LEMMA SignedFacts ==
    ASSUME NEW r \in Rows, NEW s
    PROVE  /\ [r EXCEPT !.sigs = s].kind = r.kind /\ [r EXCEPT !.sigs = s].data = r.data
           /\ [r EXCEPT !.sigs = s].status = r.status
BY DEF Rows

LEMMA ReviewActsCalm ==
    ASSUME IInv, QInv, Quiet', NEW k \in Tasks, ReviewActs(k)
    PROVE  QInv'
<1> DEFINE tx == rows[tasks[k].id]
           c == IF tx.kind = "connect" THEN [tx EXCEPT !.sigs = {HashOf(tx)}] ELSE tx
<1>1. tasks[k].pc = "act" /\ tasks[k].pc # "idle" /\ ~Trap("find") /\ ~Trap("unsigned")
  BY NoTrap DEF ReviewActs, At
<1>2. tasks[k].action \in {"request", "submit"} /\ tx \in Rows /\ tx.status = "signing"
  BY <1>1, TaskRowFacts, RunningTask DEF TaskRecords, CopyOK
<1>3. /\ Ends(k) \/ tasks' = [tasks EXCEPT ![k].pc = "relaying", ![k].copy = c]
      /\ UNCHANGED <<rows, flow, monitor, loop, relay, receipts, contract, wallet, cleanup, main>>
  BY <1>1, <1>2 DEF ReviewActs, UnchangedByTasks
<1>4. SameTx(c, tx) /\ c.status = tx.status
  BY <1>2, SignedFacts DEF SameTx
<1>5. CASE Ends(k)
  BY <1>1, <1>3, <1>5, EndsCalm
<1>6. CASE tasks' = [tasks EXCEPT ![k].pc = "relaying", ![k].copy = c]
  <2>1. /\ tasks'[k].pc = "relaying" /\ tasks'[k].copy = c /\ tasks'[k].id = tasks[k].id
        /\ tasks'[k].kind = tasks[k].kind /\ tasks'[k].left = tasks[k].left
        /\ \A j \in Tasks : j # k => tasks'[j] = tasks[j]
    <3> HIDE DEF c
    <3> QED BY <1>6, GoesWithFields
  <2> HIDE DEF c
  <2>2. CopyOK(tasks[k])'
    BY <1>2, <1>3, <1>4, <2>1 DEF CopyOK, SameTx
  <2> QED BY <1>1, <1>3, <2>1, <2>2, TaskMovesCalm DEF PairPlaces
<1> QED BY <1>3, <1>5, <1>6

-----------------------------------------------------------------------------
(* The relay takes a transaction and answers.                              *)

LEMMA MonitorSame ==
    ASSUME MonitorInv, UNCHANGED <<rows, monitor, loop, wallet, flow>>
    PROVE  MonitorInv'
<1>1. /\ Opened' <=> Opened
      /\ \A s : Elements(s)' = Elements(s) /\ NoneTwice(s)' = NoneTwice(s)
  BY DEF Opened, Elements, NoneTwice
<1>2. /\ Elements(monitor)' = Elements(monitor) /\ Elements(loop.todo)' = Elements(loop.todo)
      /\ NoneTwice(monitor)' = NoneTwice(monitor) /\ NoneTwice(loop.todo)' = NoneTwice(loop.todo)
      /\ RightCount(wallet)' = RightCount(wallet)
  BY DEF Elements, NoneTwice, RightCount
<1> QED BY <1>1, <1>2 DEF MonitorInv

\* What is submitted last takes out the wallet's extension, when something
\* before it does or a change is missing.
LEMMA RelayAcceptsCalm ==
    ASSUME IInv, QInv, NEW k \in Tasks, RelayAccepts(k)
    PROVE  QInv'
<1> DEFINE tx == tasks[k].copy
           entry == [kind |-> tx.kind, data |-> tx.data]
<1>0. PICK N : N = Len(relay) + 1
  OBVIOUS
<1>1. /\ tasks[k].pc = "relaying" /\ tasks[k].pc # "idle" /\ tx.nonce = N
      /\ relay' = Append(relay, entry) /\ Goes(k, "accepted")
      /\ UNCHANGED <<rows, monitor, flow, receipts, contract, wallet, loop, cleanup, main>>
  BY <1>0 DEF RelayAccepts, At, NextNonce, UnchangedByTasks
<1>2. /\ tasks[k].id = flow.id /\ tasks[k].kind = flow.kind /\ tasks[k].left = FALSE
      /\ flow.screen = "review" /\ Opened /\ main.pc = "idle" /\ ~Acted /\ ~Relayed
      /\ \A j \in Tasks : j # k => Free(j)
      /\ CopyOK(tasks[k])
  BY <1>1, RunningTask DEF PairPlaces
<1>3. /\ tx \in Rows /\ SameTx(tx, rows[flow.id]) /\ rows[flow.id].status = "signing"
      /\ tx.status = "signing" /\ flow.id \in Ids
  BY <1>1, <1>2, TaskRowFacts DEF CopyOK
<1>4. /\ tx.kind = flow.kind /\ DataOK(tx.kind, tx.data) /\ tx.data.old \in AnyExt
      /\ tx.kind = "connect" => tx.data.op = "call"
  <2>1. rows[flow.id].kind = flow.kind /\ DataOK(rows[flow.id].kind, rows[flow.id].data)
    BY <1>2, OpenRow
  <2>2. flow.kind = "connect" => rows[flow.id].data.op = "call"
    BY <1>2 DEF QInv, OpenInv
  <2> QED BY <1>3, <2>1, <2>2 DEF SameTx, Rows, Data
<1>5. /\ tasks'[k].pc = "accepted" /\ tasks'[k].copy = tx /\ tasks'[k].id = tasks[k].id
      /\ tasks'[k].kind = tasks[k].kind /\ tasks'[k].left = tasks[k].left
      /\ \A j \in Tasks : j # k => tasks'[j] = tasks[j]
  BY <1>1, GoesFields
<1>6. /\ Len(relay) \in Nat /\ Len(receipts) \in Nat /\ Len(receipts) <= Len(relay)
      /\ Len(relay') = N /\ relay'[N] = entry
      /\ \A n \in 1 .. Len(relay) : relay'[n] = relay[n]
  <2>1. relay \in Seq([kind : Kinds, data : Data]) /\ entry \in [kind : Kinds, data : Data]
    BY <1>3 DEF IInv, WorldInv, Rows
  <2>2. receipts \in Seq(Processed) /\ Len(receipts) <= Len(relay)
    BY DEF IInv, WorldInv
  <2> HIDE DEF entry
  <2> QED BY <1>0, <1>1, <2>1, <2>2
<1>7. entry.kind = tx.kind /\ entry.data = tx.data
  OBVIOUS
<1> HIDE DEF entry
<1>8. Relayed' /\ ~Acted'
  BY <1>5, <1>2 DEF Relayed, Acted, Free
<1>9. \A i \in Ids : rows[i].status \in Sent => rows[i].sub \in 1 .. Len(relay)
  BY DEF IInv, RowsInv, RowOK, Sent
<1> HIDE DEF tx
<1>10. TurnInv'
  BY <1>1, <1>2, <1>5 DEF QInv, TurnInv, Free, IsPairing
<1>11. OpenInv'
  BY <1>1, <1>2, <1>8 DEF QInv, OpenInv, Opened
<1>12. CopiesInv'
  <2>1. CopyOK(tasks[k])'
    BY <1>1, <1>2, <1>3, <1>5, <1>6, <1>7 DEF CopyOK
  <2>2. ASSUME NEW j \in Tasks, j # k PROVE CopyOK(tasks[j])'
    BY <1>2, <1>5, <2>2 DEF CopyOK, Free
  <2> QED BY <2>1, <2>2 DEF CopiesInv
<1>13. SentInv'
  <2>1. \A i \in Ids : rows'[i].status \in Sent => relay'[rows'[i].sub].kind = rows'[i].kind
    BY <1>1, <1>6, <1>9 DEF QInv, SentInv
  <2>2. \A i \in Ids : rows'[i].status \in Sent => rows'[i].sub # Len(relay')
    BY <1>0, <1>1, <1>6, <1>9
  <2>3. \A n \in 1 .. Len(relay') : /\ DataOK(relay'[n].kind, relay'[n].data)
                                    /\ relay'[n].kind = "connect" => relay'[n].data.op = "call"
    <3> TAKE n \in 1 .. Len(relay')
    <3>1. CASE n = N
      BY <1>4, <1>6, <1>7, <3>1
    <3>2. CASE n # N
      <4>1. n \in 1 .. Len(relay)
        BY <1>0, <1>6, <3>2
      <4> QED BY <1>6, <4>1 DEF QInv, SentInv
    <3> QED BY <3>1, <3>2
  <2>4. \A n \in 1 .. Len(receipts) : receipts[n] = "success" => relay'[n].data.op # "dummy"
    <3>1. \A n \in 1 .. Len(receipts) : n \in 1 .. Len(relay)
      BY <1>6
    <3> QED BY <1>6, <3>1 DEF QInv, SentInv
  <2> QED BY <1>1, <2>1, <2>2, <2>3, <2>4 DEF QInv, SentInv
<1>14. MonitorInv'
  BY <1>1, MonitorSame DEF QInv
<1>15. /\ N \in Nat /\ Mined' = Mined /\ Unmined' = Unmined \cup {N} /\ N \notin Mined /\ N \notin Unmined
       /\ \A n \in Mined \cup Unmined : n \in 1 .. Len(relay)
  BY <1>0, <1>1, <1>6 DEF Mined, Unmined
<1>16. Carried(N)' /\ \A n \in Mined \cup Unmined : Carried(n)' <=> Carried(n)
  <2>1. Carried(N)'
    BY <1>1, <1>5 DEF Carried, tx
  <2>2. \A i : Watched(i)' <=> Watched(i)
    <3>1. \A j \in Tasks : tasks[j].pc # "acted" /\ tasks'[j].pc # "acted"
      BY <1>1, <1>2, <1>5 DEF Free
    <3> QED BY <1>1, <3>1 DEF Watched, Elements
  <2>3. ASSUME NEW n \in Mined \cup Unmined PROVE Carried(n)' <=> Carried(n)
    <3>1. n # N
      BY <1>15
    <3>2. ~\E j \in Tasks : tasks'[j].pc = "accepted" /\ tasks'[j].copy.nonce = n
      BY <1>1, <1>2, <1>5, <3>1 DEF Free, tx
    <3>3. ~\E j \in Tasks : tasks[j].pc = "accepted" /\ tasks[j].copy.nonce = n
      BY <1>2 DEF Relayed
    <3> QED BY <1>1, <2>2, <3>2, <3>3 DEF Carried
  <2> QED BY <2>1, <2>3
<1>17. DebtInv'
  <2>1. \A n \in Mined : Owed(n)' <=> Owed(n)
    BY <1>1, <1>6, <1>15, <1>16 DEF Owed
  <2>2. \A n \in Mined : relay'[n] = relay[n]
    BY <1>6, <1>15
  <2>3. \A n \in Unmined' : Carried(n)'
    BY <1>15, <1>16 DEF QInv, DebtInv
  <2> QED BY <1>1, <1>15, <2>1, <2>2, <2>3 DEF QInv, DebtInv
<1>18. OrderInv'
  <2>1. tx.data.op = "call" => Drafted(tx.data.old)
    BY <1>2, <1>3 DEF Drafted, SameTx
  <2>2. \A n \in Unmined : relay'[n] = relay[n] /\ (Waiting(n)' <=> Waiting(n))
    BY <1>6, <1>15 DEF Waiting
  <2>3. Waiting(N)' => tx.data.op = "call" /\ relay'[N].data.old = tx.data.old
    BY <1>6, <1>7 DEF Waiting
  <2>4. \A e \in AnyExt : ~Drafted(e)'
    BY <1>1, <1>2, <1>5, <1>8 DEF Drafted, Free
  <2>5. ASSUME Waiting(N)', tx.data.old # wallet.ext
        PROVE  /\ wallet.ext = contract
               /\ \A n \in Unmined : Waiting(n) => relay[n].data.old # wallet.ext
    BY <1>4, <2>1, <2>3, <2>5 DEF QInv, OrderInv
  <2>6. \A m, n \in Unmined' : Waiting(m)' /\ Waiting(n)' /\ m < n =>
           (relay'[m].data.old = wallet'.ext => relay'[n].data.old = wallet'.ext)
    <3> TAKE m, n \in Unmined'
    <3>1. CASE n = N
      <4>1. m < n => m \in Unmined
        BY <1>15, <3>1
      <4> QED BY <1>1, <2>2, <2>3, <2>5, <3>1, <4>1
    <3>2. CASE n # N
      <4>1. n \in Unmined /\ n < N
        BY <1>0, <1>6, <1>15, <3>2
      <4>2. m < n => m \in Unmined
        BY <1>0, <1>6, <1>15, <4>1
      <4> QED BY <1>1, <2>2, <4>1, <4>2 DEF QInv, OrderInv
    <3> QED BY <3>1, <3>2
  <2>7. wallet'.ext # contract' =>
           \A n \in Unmined' : Waiting(n)' => relay'[n].data.old = wallet'.ext
    BY <1>1, <1>15, <2>2, <2>3, <2>5 DEF QInv, OrderInv
  <2> QED BY <2>4, <2>6, <2>7 DEF OrderInv
<1> QED BY <1>10, <1>11, <1>12, <1>13, <1>14, <1>17, <1>18 DEF QInv

\* The entry the loop works on is monitored.
LEMMA HeadMonitored ==
    ASSUME IInv, MonitorInv
    PROVE  /\ loop.todo # <<>> => Head(loop.todo) \in Elements(monitor)
           /\ loop.pc \in {"unpairing", "adding", "unregister"} => loop.todo # <<>>
           /\ \A i \in Elements(monitor) : i \in Ids
<1>1. loop.todo \in Seq(Ids) /\ monitor \in Seq(Ids)
  BY DEF IInv, LoopInv, LoopRecords
<1>2. loop.todo # <<>> => Head(loop.todo) \in Elements(loop.todo)
  BY <1>1 DEF Elements
<1>3. Elements(loop.todo) \subseteq Elements(monitor)
  BY DEF MonitorInv
<1>4. loop.pc \in {"unpairing", "adding", "unregister"} => loop.todo # <<>>
  BY DEF IInv, LoopInv
<1>5. \A i \in Elements(monitor) : i \in Ids
  BY <1>1 DEF Elements
<1> QED BY <1>2, <1>3, <1>4, <1>5

\* Rows that are not monitored do not matter to the loop.
LEMMA MonitorKeeps ==
    ASSUME IInv, MonitorInv, UNCHANGED <<monitor, loop, wallet, flow>>,
           \A i \in Elements(monitor) : rows'[i] = rows[i]
    PROVE  MonitorInv'
<1>1. Opened' <=> Opened
  BY DEF Opened
<1>2. /\ Elements(monitor)' = Elements(monitor) /\ Elements(loop.todo)' = Elements(loop.todo)
      /\ NoneTwice(monitor)' = NoneTwice(monitor) /\ NoneTwice(loop.todo)' = NoneTwice(loop.todo)
      /\ RightCount(wallet)' = RightCount(wallet)
  BY DEF Elements, NoneTwice, RightCount
<1>3. loop.pc \in {"unpairing", "adding", "unregister"} =>
         rows'[Head(loop.todo)] = rows[Head(loop.todo)]
  BY HeadMonitored
<1> QED BY <1>1, <1>2, <1>3 DEF MonitorInv

LEMMA DebtKeeps ==
    ASSUME DebtInv, UNCHANGED <<relay, receipts, contract>>, wallet'.ext = wallet.ext,
           \A n \in Nat : Carried(n)' <=> Carried(n), IInv
    PROVE  DebtInv'
<1>1. Mined' = Mined /\ Unmined' = Unmined /\ Mined \subseteq Nat /\ Unmined \subseteq Nat
  BY DEF Mined, Unmined, IInv, WorldInv
<1>2. \A n \in Mined : Owed(n)' <=> Owed(n)
  BY <1>1 DEF Owed
<1> QED BY <1>1, <1>2 DEF DebtInv

LEMMA OrderKeeps ==
    ASSUME OrderInv, UNCHANGED <<relay, receipts, contract>>, wallet'.ext = wallet.ext,
           \A e \in AnyExt : Drafted(e)' => Drafted(e)
    PROVE  OrderInv'
<1>1. Unmined' = Unmined /\ \A n : Waiting(n)' <=> Waiting(n)
  BY DEF Unmined, Waiting
<1> QED BY <1>1 DEF OrderInv

\* The copy is saved as pending: the row takes the task's place.
LEMMA RelayAnswersCalm ==
    ASSUME IInv, QInv, NEW k \in Tasks, RelayAnswers(k)
    PROVE  QInv'
<1> DEFINE c == tasks[k].copy
           r == Submitted(c)
<1>1. /\ tasks[k].pc = "accepted" /\ tasks[k].pc # "idle"
      /\ rows' = [rows EXCEPT ![tasks[k].id] = r]
      /\ UNCHANGED <<monitor, flow, relay, receipts, contract, wallet, loop, cleanup, main>>
  BY DEF RelayAnswers, At, UnchangedByTasks
<1>2. /\ tasks[k].id = flow.id /\ tasks[k].kind = flow.kind /\ tasks[k].left = FALSE
      /\ flow.screen = "review" /\ Opened /\ main.pc = "idle" /\ ~Acted
      /\ \A j \in Tasks : j # k => Free(j)
      /\ CopyOK(tasks[k])
  BY <1>1, RunningTask DEF PairPlaces
<1>3. /\ c \in Rows /\ SameTx(c, rows[flow.id]) /\ c.status = "signing" /\ flow.id \in Ids
      /\ c.nonce = Len(relay) /\ relay[Len(relay)].kind = c.kind
  BY <1>1, <1>2, TaskRowFacts DEF CopyOK
<1>4. /\ r.status = "pending" /\ r.sub = Len(relay) /\ r.kind = c.kind /\ r.data = c.data
  <2> HIDE DEF c
  <2> QED BY <1>3 DEF Submitted, Rows
<1>5. tasks' = [tasks EXCEPT ![k].pc = "acted", ![k].copy = r]
  BY DEF RelayAnswers
<1> HIDE DEF r
<1>6. /\ tasks'[k].pc = "acted" /\ tasks'[k].copy = r /\ tasks'[k].id = tasks[k].id
      /\ tasks'[k].kind = tasks[k].kind /\ tasks'[k].left = tasks[k].left
      /\ \A j \in Tasks : j # k => tasks'[j] = tasks[j]
  BY <1>5, GoesWithFields
<1>7. rows'[flow.id] = r /\ \A i \in Ids : i # flow.id => rows'[i] = rows[i]
  BY <1>1, <1>2, <1>3 DEF IInv, RowsInv
<1>8. /\ rows[flow.id].kind = flow.kind /\ DataOK(rows[flow.id].kind, rows[flow.id].data)
      /\ rows[flow.id].status \notin Sent /\ flow.id \notin Elements(monitor)
      /\ flow.kind = "connect" => rows[flow.id].data.op = "call"
  BY <1>2, OpenRow DEF QInv, OpenInv
<1>9. r.kind = flow.kind /\ r.data = rows[flow.id].data /\ r.status \in Sent
  BY <1>3, <1>4, <1>8 DEF SameTx, Sent
<1> HIDE DEF c
<1>10. Acted' /\ Relayed'
  BY <1>6 DEF Acted, Relayed
<1>11. TurnInv'
  BY <1>1, <1>2, <1>6 DEF QInv, TurnInv, Free, IsPairing
<1>12. OpenInv'
  <2>1. \A i \in Ids : DataOK(rows'[i].kind, rows'[i].data)
    BY <1>7, <1>8, <1>9 DEF QInv, OpenInv
  <2> QED BY <1>1, <1>2, <1>7, <1>8, <1>9, <1>10, <2>1 DEF QInv, OpenInv
<1>13. CopiesInv'
  <2>1. CopyOK(tasks[k])'
    BY <1>2, <1>4, <1>6, <1>7, <1>9 DEF CopyOK
  <2>2. ASSUME NEW j \in Tasks, j # k PROVE CopyOK(tasks[j])'
    BY <1>2, <1>6, <2>2 DEF CopyOK, Free
  <2> QED BY <2>1, <2>2 DEF CopiesInv
<1>14. \A j \in Tasks : tasks'[j].pc # "accepted"
  BY <1>2, <1>6 DEF Free
<1>15. SentInv'
  <2>1. \A i \in Ids : rows[i].status \in Sent => rows[i].sub # Len(relay)
    BY <1>1 DEF QInv, SentInv
  <2>2. \A i \in Ids : rows'[i].status \in Sent => relay'[rows'[i].sub].kind = rows'[i].kind
    BY <1>1, <1>3, <1>4, <1>7 DEF QInv, SentInv
  <2>3. \A i, j \in Ids : rows'[i].status \in Sent /\ rows'[j].status \in Sent
                            /\ rows'[i].sub = rows'[j].sub => i = j
    BY <1>4, <1>7, <2>1 DEF QInv, SentInv
  <2> QED BY <1>1, <1>14, <2>2, <2>3 DEF QInv, SentInv
<1>16. MonitorInv'
  <2>1. \A i \in Elements(monitor) : i \in Ids
    BY HeadMonitored DEF QInv
  <2> QED BY <1>1, <1>7, <1>8, <2>1, MonitorKeeps DEF QInv
<1>17. \A n \in Nat : Carried(n)' <=> Carried(n)
  <2>1. \A i : i = flow.id => ~Watched(i) /\ Watched(i)'
    <3>1. loop.pc \in {"adding", "unregister"} => Head(loop.todo) # flow.id
      BY <1>8, HeadMonitored DEF QInv
    <3> QED BY <1>1, <1>2, <1>6, <1>8, <3>1 DEF Watched, Acted
  <2>2. \A i : i # flow.id => (Watched(i)' <=> Watched(i))
    BY <1>1, <1>2, <1>6 DEF Watched, Elements, Free
  <2>3. ASSUME NEW n \in Nat PROVE Carried(n)' <=> Carried(n)
    <3>1. (\E j \in Tasks : tasks[j].pc = "accepted" /\ tasks[j].copy.nonce = n) <=> n = Len(relay)
      BY <1>1, <1>2, <1>3 DEF Free, c
    <3>2. (\E i \in Ids : Watched(i)' /\ rows'[i].status \in Sent /\ rows'[i].sub = n)
             <=> \/ n = Len(relay)
                 \/ \E i \in Ids : Watched(i) /\ rows[i].status \in Sent /\ rows[i].sub = n
      <4>1. \A i \in Ids : i # flow.id =>
               (Watched(i)' /\ rows'[i].status \in Sent /\ rows'[i].sub = n
                  <=> Watched(i) /\ rows[i].status \in Sent /\ rows[i].sub = n)
        BY <1>7, <2>2
      <4>2. \A i : i = flow.id =>
               (Watched(i)' /\ rows'[i].status \in Sent /\ rows'[i].sub = n <=> n = Len(relay))
        BY <1>1, <1>4, <1>7, <1>9, <2>1
      <4> QED BY <1>3, <2>1, <4>1, <4>2
    <3> QED BY <1>14, <3>1, <3>2 DEF Carried
  <2> QED BY <2>3
<1>18. DebtInv'
  BY <1>1, <1>17, DebtKeeps DEF QInv
<1>19. OrderInv'
  <2>1. \A e \in AnyExt : ~Drafted(e)'
    BY <1>1, <1>2, <1>6, <1>10 DEF Drafted, Free
  <2> QED BY <1>1, <2>1, OrderKeeps DEF QInv
<1> QED BY <1>11, <1>12, <1>13, <1>15, <1>16, <1>18, <1>19 DEF QInv

LEMMA AppendFacts ==
    ASSUME NEW s \in Seq(Ids), NEW i \in Ids, i \notin Elements(s), NoneTwice(s)
    PROVE  /\ Elements(Append(s, i)) = Elements(s) \cup {i}
           /\ NoneTwice(Append(s, i))
<1>1. /\ Len(s) \in Nat /\ Len(Append(s, i)) = Len(s) + 1 /\ Append(s, i)[Len(s) + 1] = i
      /\ \A n \in 1 .. Len(s) : Append(s, i)[n] = s[n]
  OBVIOUS
<1>2. 1 .. Len(s) + 1 = (1 .. Len(s)) \cup {Len(s) + 1}
  BY <1>1
<1>3. Elements(Append(s, i)) = Elements(s) \cup {i}
  BY <1>1, <1>2 DEF Elements
<1>4. \A n \in 1 .. Len(s) : s[n] # i
  BY DEF Elements
<1>5. NoneTwice(Append(s, i))
  BY <1>1, <1>2, <1>4 DEF NoneTwice
<1> QED BY <1>3, <1>5

\* startMonitoring: the monitor entry takes the task's place.
LEMMA ReviewFinishesCalm ==
    ASSUME IInv, QInv, NEW k \in Tasks, ReviewFinishes(k)
    PROVE  QInv'
<1>1. /\ tasks[k].pc = "acted" /\ tasks[k].pc # "idle" /\ Ends(k)
      /\ UNCHANGED <<rows, relay, receipts, contract, wallet, loop, cleanup, main>>
  BY DEF ReviewFinishes, At, UnchangedByTasks
<1>2. /\ tasks[k].id = flow.id /\ Opened /\ main.pc = "idle"
      /\ \A j \in Tasks : j # k => Free(j)
      /\ CopyOK(tasks[k])
  BY <1>1, RunningTask
<1>3. /\ flow.id \in Ids /\ flow.id \notin Elements(monitor)
      /\ tasks[k].copy.status = "pending" /\ rows[flow.id].status \in Sent
  BY <1>1, <1>2, OpenRow DEF CopyOK
<1>4. WithoutEntry(flow.id) = monitor
  BY <1>3 DEF WithoutEntry, Elements
<1>5. monitor' = Append(monitor, flow.id) /\ flow' = NoFlow
  BY <1>2, <1>3, <1>4 DEF ReviewFinishes
<1>6. \A j \in Tasks : tasks'[j].pc = "idle"
  BY <1>1, <1>2 DEF Ends, NoTask, Free, IInv, TasksInv
<1>7. TurnInv' /\ CopiesInv' /\ ~Relayed' /\ ~Acted'
  BY <1>1, <1>6, AllFree DEF QInv, TurnInv
<1>8. flow'.screen = "menu" /\ ~Opened'
  BY <1>5 DEF NoFlow, Opened
<1>9. OpenInv'
  BY <1>1, <1>2, <1>8 DEF QInv, OpenInv
<1>10. SentInv'
  BY <1>1, <1>6 DEF QInv, SentInv
<1>11. /\ Elements(monitor') = Elements(monitor) \cup {flow.id} /\ NoneTwice(monitor')
       /\ monitor \in Seq(Ids)
  <2>1. monitor \in Seq(Ids) /\ NoneTwice(monitor)
    BY DEF IInv, LoopInv, QInv, MonitorInv
  <2> QED BY <1>3, <1>5, <2>1, AppendFacts
<1>12. /\ Elements(loop.todo)' = Elements(loop.todo) /\ Elements(monitor)' = Elements(monitor')
       /\ NoneTwice(loop.todo)' = NoneTwice(loop.todo) /\ NoneTwice(monitor)' = NoneTwice(monitor')
       /\ RightCount(wallet)' = RightCount(wallet)
  BY <1>1 DEF Elements, NoneTwice, RightCount
<1>13. MonitorInv'
  BY <1>1, <1>3, <1>8, <1>11, <1>12 DEF QInv, MonitorInv
<1>14. \A n \in Nat : Carried(n)' <=> Carried(n)
  <2>1. \A i : Watched(i)' <=> Watched(i)
    BY <1>1, <1>2, <1>6, <1>11, <1>12 DEF Watched, Free
  <2>2. \A j \in Tasks : tasks[j].pc # "accepted" /\ tasks'[j].pc # "accepted"
    BY <1>1, <1>2, <1>6 DEF Free
  <2> QED BY <1>1, <2>1, <2>2 DEF Carried
<1>15. DebtInv'
  BY <1>1, <1>14, DebtKeeps DEF QInv
<1>16. OrderInv'
  <2>1. \A e \in AnyExt : ~Drafted(e)'
    BY <1>1, <1>2, <1>6, <1>8 DEF Drafted
  <2> QED BY <1>1, <2>1, OrderKeeps DEF QInv
<1> QED BY <1>7, <1>9, <1>10, <1>13, <1>15, <1>16 DEF QInv

-----------------------------------------------------------------------------
(* The loop.                                                               *)

\* Only the status of a submitted row changes.
LEMMA PollLooksCalm ==
    ASSUME IInv, QInv, NEW i \in Ids, PollLooks(i)
    PROVE  QInv'
<1> DEFINE s == receipts[rows[i].sub]
<1>1. /\ loop.pc = "idle" /\ rows[i].status = "pending" /\ rows[i].sub <= Len(receipts)
      /\ rows' = [rows EXCEPT ![i].status = s]
      /\ UNCHANGED <<monitor, wallet, flow, main, tasks, loop, cleanup, contract, relay, receipts>>
  BY DEF PollLooks, outside
<1>2. rows \in [Ids -> Rows] /\ s \in Processed
  <2>1. rows[i].sub \in 1 .. Len(relay)
    BY <1>1 DEF IInv, RowsInv, RowOK
  <2>2. receipts \in Seq(Processed) /\ Len(receipts) \in Nat /\ Len(relay) \in Nat
    BY DEF IInv, WorldInv
  <2>3. rows[i].sub \in 1 .. Len(receipts)
    BY <1>1, <2>1, <2>2
  <2> QED BY <2>2, <2>3 DEF IInv, RowsInv
<1> HIDE DEF s
<1>3. /\ rows'[i].status = s /\ rows'[i].kind = rows[i].kind /\ rows'[i].data = rows[i].data
      /\ rows'[i].sub = rows[i].sub
      /\ \A j \in Ids : j # i => rows'[j] = rows[j]
  BY <1>1, <1>2 DEF Rows
<1>4. \A j \in Ids : /\ rows'[j].status \in Sent <=> rows[j].status \in Sent
                     /\ rows'[j].kind = rows[j].kind /\ rows'[j].data = rows[j].data
                     /\ rows'[j].sub = rows[j].sub
  BY <1>1, <1>2, <1>3 DEF Sent
<1>5. /\ Opened /\ ~Acted => flow.id # i /\ flow.id \in Ids
      /\ Opened => flow.id \in Ids
  BY <1>1, OpenRow DEF Sent
<1>6. (Opened' <=> Opened) /\ (Acted' <=> Acted) /\ (Relayed' <=> Relayed)
  BY <1>1 DEF Opened, Acted, Relayed
<1>7. TurnInv'
  BY <1>1 DEF QInv, TurnInv, Free, IsPairing
<1>8. OpenInv'
  <2>1. \A j \in Ids : DataOK(rows'[j].kind, rows'[j].data)
    BY <1>4 DEF QInv, OpenInv
  <2>2. Opened => /\ rows'[flow.id].kind = rows[flow.id].kind
                  /\ rows'[flow.id].data = rows[flow.id].data
                  /\ ~Acted => rows'[flow.id].status = rows[flow.id].status
    BY <1>3, <1>4, <1>5
  <2>3. (flow.screen = "review" => Opened) /\ (main.pc # "idle" => Opened)
    BY DEF Opened, IInv, FlowInv
  <2> QED BY <1>1, <1>6, <2>1, <2>2, <2>3 DEF QInv, OpenInv
<1>9. CopiesInv'
  <2> SUFFICES ASSUME NEW k \in Tasks PROVE CopyOK(tasks[k])'
    BY DEF CopiesInv
  <2>1. CASE tasks[k].pc = "idle"
    BY <1>1, <2>1 DEF CopyOK
  <2>2. CASE tasks[k].pc # "idle"
    <3>1. /\ tasks[k].id = flow.id /\ Opened /\ CopyOK(tasks[k])
          /\ tasks[k].pc # "acted" => ~Acted
      BY <2>2, RunningTask
    <3>2. /\ rows'[tasks[k].id].kind = rows[tasks[k].id].kind
          /\ rows'[tasks[k].id].data = rows[tasks[k].id].data
          /\ rows'[tasks[k].id].status \in Sent <=> rows[tasks[k].id].status \in Sent
          /\ tasks[k].pc # "acted" => rows'[tasks[k].id].status = rows[tasks[k].id].status
      BY <1>3, <1>4, <1>5, <3>1
    <3> QED BY <1>1, <3>1, <3>2 DEF CopyOK, SameTx
  <2> QED BY <2>1, <2>2
<1>10. SentInv'
  BY <1>1, <1>4 DEF QInv, SentInv
<1>11. MonitorInv'
  <2>1. \A j \in Elements(monitor) : j \in Ids
    BY HeadMonitored DEF QInv
  <2>2. /\ Elements(monitor)' = Elements(monitor) /\ Elements(loop.todo)' = Elements(loop.todo)
        /\ NoneTwice(monitor)' = NoneTwice(monitor) /\ NoneTwice(loop.todo)' = NoneTwice(loop.todo)
        /\ RightCount(wallet)' = RightCount(wallet)
    BY <1>1 DEF Elements, NoneTwice, RightCount
  <2> QED BY <1>1, <1>4, <1>6, <2>1, <2>2 DEF QInv, MonitorInv
<1>12. \A n \in Nat : Carried(n)' <=> Carried(n)
  <2>1. \A j : Watched(j)' <=> Watched(j)
    BY <1>1 DEF Watched, Elements
  <2> QED BY <1>1, <1>4, <2>1 DEF Carried
<1>13. \A e \in AnyExt : Drafted(e)' => Drafted(e)
  BY <1>1, <1>4, <1>5, <1>6 DEF Drafted
<1>14. DebtInv' /\ OrderInv'
  BY <1>1, <1>12, <1>13, DebtKeeps, OrderKeeps DEF QInv
<1> QED BY <1>7, <1>8, <1>9, <1>10, <1>11, <1>14 DEF QInv

\* What the loop does not touch.
LEMMA LoopLeaves ==
    ASSUME QInv, UnchangedByLoop
    PROVE  /\ TurnInv' /\ OpenInv' /\ CopiesInv' /\ SentInv'
           /\ UNCHANGED <<rows, flow, tasks, relay, receipts, contract>>
           /\ Opened' <=> Opened
           /\ \A e \in AnyExt : Drafted(e)' => Drafted(e)
<1> USE DEF UnchangedByLoop
<1>1. (Opened' <=> Opened) /\ (Acted' <=> Acted) /\ (Relayed' <=> Relayed)
  BY DEF Opened, Acted, Relayed
<1>2. TurnInv'
  BY DEF QInv, TurnInv, Free, IsPairing
<1>3. OpenInv'
  BY <1>1 DEF QInv, OpenInv
<1>4. CopiesInv'
  BY DEF QInv, CopiesInv, CopyOK
<1>5. SentInv'
  BY DEF QInv, SentInv
<1>6. \A e \in AnyExt : Drafted(e)' => Drafted(e)
  BY <1>1 DEF Drafted
<1> QED BY <1>1, <1>2, <1>3, <1>4, <1>5, <1>6

\* The loop goes to the next entry, or to rest, before it has taken over
\* anything.
LEMMA LoopMovesCalm ==
    ASSUME IInv, QInv, UnchangedByLoop, UNCHANGED <<monitor, wallet>>,
           loop.pc \notin {"adding", "unregister"}, loop'.pc \in {"idle", "next"},
           NoneTwice(loop'.todo), Elements(loop'.todo) \subseteq Elements(monitor)
    PROVE  QInv'
<1>1. /\ TurnInv' /\ OpenInv' /\ CopiesInv' /\ SentInv'
      /\ UNCHANGED <<rows, flow, tasks, relay, receipts, contract>>
      /\ Opened' <=> Opened
      /\ \A e \in AnyExt : Drafted(e)' => Drafted(e)
  BY LoopLeaves
<1>2. /\ Elements(monitor)' = Elements(monitor) /\ Elements(loop.todo)' = Elements(loop'.todo)
      /\ NoneTwice(monitor)' = NoneTwice(monitor) /\ NoneTwice(loop.todo)' = NoneTwice(loop'.todo)
      /\ RightCount(wallet)' = RightCount(wallet)
  BY DEF Elements, NoneTwice, RightCount
<1>3. MonitorInv'
  BY <1>1, <1>2 DEF QInv, MonitorInv
<1>4. \A n \in Nat : Carried(n)' <=> Carried(n)
  <2>1. \A i : Watched(i)' <=> Watched(i)
    BY <1>1, <1>2 DEF Watched
  <2> QED BY <1>1, <2>1 DEF Carried
<1>5. DebtInv' /\ OrderInv'
  BY <1>1, <1>4, DebtKeeps, OrderKeeps DEF QInv
<1> QED BY <1>1, <1>3, <1>5 DEF QInv

LEMMA EmptyFacts ==
    Elements(<<>>) = {} /\ NoneTwice(<<>>)
BY DEF Elements, NoneTwice

LEMMA TailFacts ==
    ASSUME NEW s \in Seq(Ids), s # <<>>, NoneTwice(s)
    PROVE  /\ NoneTwice(Tail(s))
           /\ Elements(Tail(s)) \subseteq Elements(s)
           /\ Head(s) \notin Elements(Tail(s))
<1>1. /\ Len(s) \in Nat /\ Len(s) >= 1 /\ Len(Tail(s)) = Len(s) - 1
      /\ \A n \in 1 .. Len(s) - 1 : Tail(s)[n] = s[n + 1]
      /\ Head(s) = s[1]
  OBVIOUS
<1>2. \A n \in 1 .. Len(Tail(s)) : n + 1 \in 1 .. Len(s) /\ Tail(s)[n] = s[n + 1]
  BY <1>1
<1>3. NoneTwice(Tail(s))
  <2> SUFFICES ASSUME NEW m \in 1 .. Len(Tail(s)), NEW n \in 1 .. Len(Tail(s)),
                      Tail(s)[m] = Tail(s)[n]
               PROVE  m = n
    BY DEF NoneTwice
  <2>1. m + 1 = n + 1
    BY <1>2 DEF NoneTwice
  <2> QED BY <2>1
<1>4. Elements(Tail(s)) \subseteq Elements(s)
  BY <1>2 DEF Elements
<1>5. Head(s) \notin Elements(Tail(s))
  <2> SUFFICES ASSUME NEW n \in 1 .. Len(Tail(s)), Tail(s)[n] = Head(s) PROVE FALSE
    BY DEF Elements
  <2>1. n + 1 = 1
    BY <1>1, <1>2 DEF NoneTwice
  <2> QED BY <2>1
<1> QED BY <1>3, <1>4, <1>5

LEMMA LoopBeginsCalm ==
    ASSUME IInv, QInv, LoopBegins
    PROVE  QInv'
<1>1. /\ UnchangedByLoop /\ UNCHANGED <<monitor, wallet>> /\ loop.pc = "idle"
      /\ loop'.pc = "next" /\ loop'.todo = monitor
  BY DEF LoopBegins
<1>2. NoneTwice(loop'.todo) /\ Elements(loop'.todo) \subseteq Elements(monitor)
  BY <1>1 DEF QInv, MonitorInv
<1> QED BY <1>1, <1>2, LoopMovesCalm

LEMMA LoopTurnsCalm ==
    ASSUME IInv, QInv, LoopTurns
    PROVE  QInv'
<1>1. loop \in LoopRecords
  BY DEF IInv, LoopInv
<1>2. /\ UnchangedByLoop /\ UNCHANGED <<monitor, wallet>> /\ loop.pc = "next"
      /\ loop'.pc \in {"idle", "next"} /\ loop'.todo \in {monitor, <<>>}
  BY <1>1 DEF LoopTurns, Resting, LoopRecords
<1>3. NoneTwice(loop'.todo) /\ Elements(loop'.todo) \subseteq Elements(monitor)
  BY <1>2, EmptyFacts DEF QInv, MonitorInv
<1> QED BY <1>2, <1>3, LoopMovesCalm

LEMMA LoopSkipsCalm ==
    ASSUME IInv, QInv, LoopSkips
    PROVE  QInv'
<1>1. loop \in LoopRecords /\ loop.todo \in Seq(Ids)
  BY DEF IInv, LoopInv, LoopRecords
<1>2. /\ UnchangedByLoop /\ UNCHANGED <<monitor, wallet>> /\ loop.pc = "next"
      /\ loop.todo # <<>> /\ loop'.pc = "next" /\ loop'.todo = Tail(loop.todo)
  BY <1>1 DEF LoopSkips, LoopRecords
<1>3. NoneTwice(loop'.todo) /\ Elements(loop'.todo) \subseteq Elements(monitor)
  BY <1>1, <1>2, TailFacts DEF QInv, MonitorInv
<1> QED BY <1>2, <1>3, LoopMovesCalm

LEMMA LoopThrowsCalm ==
    ASSUME IInv, QInv, LoopThrows
    PROVE  QInv'
<1>1. /\ UnchangedByLoop /\ UNCHANGED <<monitor, wallet>> /\ loop.pc = "unpairing"
      /\ loop'.pc = "idle" /\ loop'.todo = <<>>
  BY DEF LoopThrows, Resting
<1>2. NoneTwice(loop'.todo) /\ Elements(loop'.todo) \subseteq Elements(monitor)
  BY <1>1, EmptyFacts
<1> QED BY <1>1, <1>2, LoopMovesCalm

LEMMA LoopAddsCalm ==
    ASSUME IInv, QInv, LoopAdds
    PROVE  QInv'
<1>1. loop \in LoopRecords /\ loop.copy \in Wallets
  BY DEF IInv, LoopInv, LoopRecords
<1>2. /\ UnchangedByLoop /\ monitor' = monitor /\ loop.pc = "adding"
      /\ loop'.pc = "unregister" /\ loop'.todo = loop.todo
      /\ wallet'.ext = loop.copy.ext /\ wallet'.count = 2
  BY <1>1 DEF LoopAdds, LoopRecords, Wallets
<1>3. /\ TurnInv' /\ OpenInv' /\ CopiesInv' /\ SentInv'
      /\ UNCHANGED <<rows, flow, tasks, relay, receipts, contract>>
      /\ Opened' <=> Opened
      /\ \A e \in AnyExt : Drafted(e)' => Drafted(e)
  BY <1>2, LoopLeaves
<1>4. wallet'.ext = wallet.ext /\ wallet.ext # NoExt
  BY <1>2 DEF QInv, MonitorInv
<1>5. /\ Elements(monitor)' = Elements(monitor) /\ Elements(loop.todo)' = Elements(loop.todo)
      /\ NoneTwice(monitor)' = NoneTwice(monitor) /\ NoneTwice(loop.todo)' = NoneTwice(loop.todo)
      /\ RightCount(wallet)'
  BY <1>2, <1>4 DEF Elements, NoneTwice, RightCount
<1>6. MonitorInv'
  BY <1>2, <1>3, <1>5 DEF QInv, MonitorInv
<1>7. \A n \in Nat : Carried(n)' <=> Carried(n)
  <2>1. \A i : Watched(i)' <=> Watched(i)
    BY <1>2, <1>3, <1>5 DEF Watched
  <2> QED BY <1>3, <2>1 DEF Carried
<1>8. DebtInv' /\ OrderInv'
  BY <1>3, <1>4, <1>7, DebtKeeps, OrderKeeps DEF QInv
<1> QED BY <1>3, <1>6, <1>8 DEF QInv

\* The entry is removed, and only that one.
LEMMA RemovedFacts ==
    ASSUME monitor \in Seq(Ids), NoneTwice(monitor), NEW i \in Elements(monitor)
    PROVE  /\ Elements(WithoutEntry(i)) = Elements(monitor) \ {i}
           /\ NoneTwice(WithoutEntry(i))
<1> DEFINE m == CHOOSE n \in 1 .. Len(monitor) : monitor[n] = i
           w == WithoutEntry(i)
<1>1. \E n \in 1 .. Len(monitor) : monitor[n] = i
  BY DEF Elements
<1>2. m \in 1 .. Len(monitor) /\ monitor[m] = i
  BY <1>1
<1>3. w = SubSeq(monitor, 1, m - 1) \o SubSeq(monitor, m + 1, Len(monitor))
  BY <1>1 DEF WithoutEntry
<1> HIDE DEF m, w
<1>4. Len(monitor) \in Nat /\ m \in Nat
  BY <1>2
<1>5. /\ SubSeq(monitor, 1, m - 1) \in Seq(Ids) /\ Len(SubSeq(monitor, 1, m - 1)) = m - 1
      /\ \A n \in 1 .. m - 1 : SubSeq(monitor, 1, m - 1)[n] = monitor[n]
  BY <1>2, <1>4
<1>6. /\ SubSeq(monitor, m + 1, Len(monitor)) \in Seq(Ids)
      /\ Len(SubSeq(monitor, m + 1, Len(monitor))) = Len(monitor) - m
      /\ \A n \in 1 .. Len(monitor) - m :
            SubSeq(monitor, m + 1, Len(monitor))[n] = monitor[n + m]
  BY <1>2, <1>4
<1>7. /\ Len(w) = Len(monitor) - 1
      /\ \A n \in 1 .. m - 1 : w[n] = monitor[n]
      /\ \A n \in m .. Len(monitor) - 1 : w[n] = monitor[n + 1]
  <2> DEFINE a == SubSeq(monitor, 1, m - 1)
             b == SubSeq(monitor, m + 1, Len(monitor))
  <2>1. w = a \o b /\ a \in Seq(Ids) /\ b \in Seq(Ids) /\ Len(a) = m - 1 /\ Len(b) = Len(monitor) - m
    BY <1>3, <1>5, <1>6
  <2>2. \A n \in 1 .. m - 1 : a[n] = monitor[n]
    BY <1>5
  <2>3. \A n \in 1 .. Len(monitor) - m : b[n] = monitor[n + m]
    BY <1>6
  <2> HIDE DEF a, b
  <2>4. Len(w) = Len(a) + Len(b) /\ \A n \in 1 .. Len(a) : w[n] = a[n]
    <3>1. Len(a) \in Nat /\ Len(b) \in Nat
      BY <2>1
    <3>2. /\ Len(w) = Len(a) + Len(b)
          /\ \A n \in 1 .. Len(a) + Len(b) : w[n] = IF n <= Len(a) THEN a[n] ELSE b[n - Len(a)]
      BY <2>1, ConcatProperties
    <3> QED BY <3>1, <3>2
  <2>5. ASSUME NEW n \in m .. Len(monitor) - 1 PROVE w[n] = monitor[n + 1]
    <3>1. n - (m - 1) \in 1 .. Len(monitor) - m /\ n \in 1 .. Len(a) + Len(b) /\ n > Len(a)
      BY <1>2, <1>4, <2>1
    <3>2. w[n] = b[n - (m - 1)]
      BY <2>1, <3>1
    <3>3. b[n - (m - 1)] = monitor[n - (m - 1) + m]
      BY <2>3, <3>1
    <3>4. n - (m - 1) + m = n + 1
      BY <1>4
    <3> QED BY <3>2, <3>3, <3>4
  <2> QED BY <1>4, <2>1, <2>2, <2>4, <2>5
<1> DEFINE at(n) == IF n < m THEN n ELSE n + 1
<1>8. \A n \in 1 .. Len(w) : at(n) \in 1 .. Len(monitor) /\ at(n) # m /\ w[n] = monitor[at(n)]
  BY <1>2, <1>4, <1>7
<1>9. \A n \in 1 .. Len(monitor) : n # m => \E l \in 1 .. Len(w) : at(l) = n
  <2> TAKE n \in 1 .. Len(monitor)
  <2>1. CASE n < m
    BY <1>2, <1>4, <1>7, <2>1
  <2>2. CASE n > m
    <3>1. n - 1 \in 1 .. Len(w) /\ at(n - 1) = n
      BY <1>2, <1>4, <1>7, <2>2
    <3> QED BY <3>1
  <2> QED BY <1>4, <2>1, <2>2
<1>10. \A l, n \in 1 .. Len(w) : at(l) = at(n) => l = n
  BY <1>4, <1>7
<1> HIDE DEF at
<1>11. NoneTwice(w)
  BY <1>8, <1>10 DEF NoneTwice
<1>12. \A n \in 1 .. Len(monitor) : monitor[n] = i => n = m
  BY <1>2 DEF NoneTwice
<1>13. Elements(w) = Elements(monitor) \ {i}
  <2>1. ASSUME NEW x \in Elements(w) PROVE x \in Elements(monitor) /\ x # i
    BY <1>8, <1>12 DEF Elements
  <2>2. ASSUME NEW x \in Elements(monitor), x # i PROVE x \in Elements(w)
    <3>1. PICK n \in 1 .. Len(monitor) : x = monitor[n]
      BY DEF Elements
    <3>2. n # m
      BY <1>2, <2>2, <3>1
    <3>3. PICK l \in 1 .. Len(w) : at(l) = n
      BY <1>9, <3>2
    <3>4. x = w[l]
      BY <1>8, <3>1, <3>3
    <3> QED BY <3>4 DEF Elements
  <2> QED BY <2>1, <2>2
<1> QED BY <1>11, <1>13 DEF w

\* unregisterPostProcessing: the entry was no longer watched.
LEMMA LoopUnregistersCalm ==
    ASSUME IInv, QInv, LoopUnregisters
    PROVE  QInv'
<1>1. loop \in LoopRecords /\ loop.todo \in Seq(Ids) /\ monitor \in Seq(Ids)
  BY DEF IInv, LoopInv, LoopRecords
<1> DEFINE h == Head(loop.todo)
<1>2. /\ UnchangedByLoop /\ wallet' = wallet /\ loop.pc = "unregister"
      /\ monitor' = WithoutEntry(h) /\ loop'.pc = "next" /\ loop'.todo = Tail(loop.todo)
  BY <1>1 DEF LoopUnregisters, LoopRecords
<1>3. /\ TurnInv' /\ OpenInv' /\ CopiesInv' /\ SentInv'
      /\ UNCHANGED <<rows, flow, tasks, relay, receipts, contract>>
      /\ Opened' <=> Opened
      /\ \A e \in AnyExt : Drafted(e)' => Drafted(e)
  BY <1>2, LoopLeaves
<1>4. loop.todo # <<>> /\ h \in Elements(monitor) /\ MonitorInv
  BY <1>2, HeadMonitored DEF QInv
<1>5. Elements(monitor') = Elements(monitor) \ {h} /\ NoneTwice(monitor')
  BY <1>1, <1>2, <1>4, RemovedFacts DEF MonitorInv
<1>6. /\ NoneTwice(loop'.todo) /\ Elements(loop'.todo) \subseteq Elements(loop.todo)
      /\ h \notin Elements(loop'.todo)
  BY <1>1, <1>2, <1>4, TailFacts DEF MonitorInv
<1>7. /\ Elements(monitor)' = Elements(monitor') /\ Elements(loop.todo)' = Elements(loop'.todo)
      /\ NoneTwice(monitor)' = NoneTwice(monitor') /\ NoneTwice(loop.todo)' = NoneTwice(loop'.todo)
      /\ RightCount(wallet)' = RightCount(wallet)
  BY <1>2 DEF Elements, NoneTwice, RightCount
<1>8. MonitorInv'
  BY <1>2, <1>3, <1>4, <1>5, <1>6, <1>7 DEF MonitorInv
<1>9. \A n \in Nat : Carried(n)' <=> Carried(n)
  <2>1. \A k \in Tasks : tasks[k].pc = "acted" => tasks[k].id # h
    BY <1>4, RunningTask, OpenRow
  <2>2. \A i : Watched(i)' <=> Watched(i)
    BY <1>2, <1>3, <1>5, <1>7, <2>1 DEF Watched
  <2> QED BY <1>3, <2>2 DEF Carried
<1>10. DebtInv' /\ OrderInv'
  BY <1>2, <1>3, <1>9, DebtKeeps, OrderKeeps DEF QInv
<1> QED BY <1>3, <1>8, <1>10 DEF QInv

-----------------------------------------------------------------------------
(* The outcome is taken over.                                              *)

\* The entry the loop has at hand is a row the chain has decided on.
LEMMA EntryFacts ==
    ASSUME IInv, QInv, NEW h \in Ids, h \in Elements(monitor), rows[h].status \in Processed
    PROVE  /\ rows[h] \in Rows /\ rows[h].sub \in Nat /\ rows[h].sub \in Mined
           /\ rows[h].sub \in 1 .. Len(relay)
           /\ receipts[rows[h].sub] = rows[h].status
           /\ relay[rows[h].sub].data = rows[h].data /\ relay[rows[h].sub].kind = rows[h].kind
           /\ DataOK(rows[h].kind, rows[h].data)
           /\ rows[h].kind = "connect" => rows[h].data.op = "call"
           /\ rows[h].status = "success" => rows[h].data.op # "dummy"
<1>1. /\ rows[h] \in Rows /\ RowOK(rows[h]) /\ Len(relay) \in Nat /\ Len(receipts) \in Nat
  BY DEF IInv, RowsInv, WorldInv
<1>2. rows[h].status \in Sent
  BY DEF Sent
<1>3. /\ rows[h].sub \in 1 .. Len(relay) /\ rows[h].sub <= Len(receipts)
      /\ relay[rows[h].sub].data = rows[h].data /\ receipts[rows[h].sub] = rows[h].status
  BY <1>1 DEF RowOK
<1>4. rows[h].sub \in Mined /\ rows[h].sub \in Nat
  BY <1>1, <1>3 DEF Mined
<1>5. relay[rows[h].sub].kind = rows[h].kind
  BY <1>2 DEF QInv, SentInv
<1>6. DataOK(rows[h].kind, rows[h].data)
  BY DEF QInv, OpenInv
<1>7. /\ rows[h].kind = "connect" => rows[h].data.op = "call"
      /\ rows[h].status = "success" => rows[h].data.op # "dummy"
  BY <1>3, <1>4, <1>5 DEF QInv, SentInv, Mined
<1> QED BY <1>1, <1>3, <1>4, <1>5, <1>6, <1>7

\* The success of a call that is not taken over yet is the missing change.
LEMMA SuccessIsOwed ==
    ASSUME IInv, QInv, NEW h \in Ids, h \in Elements(monitor),
           loop.pc \notin {"adding", "unregister"},
           rows[h].status = "success", rows[h].data.op = "call"
    PROVE  /\ wallet.ext # contract
           /\ rows[h].data.old = wallet.ext /\ rows[h].data.new = contract
           /\ \A m \in Mined : Owed(m) => m = rows[h].sub
<1>1. /\ rows[h].sub \in Mined /\ receipts[rows[h].sub] = "success"
      /\ relay[rows[h].sub].data = rows[h].data
  BY EntryFacts DEF Processed
<1>2. Watched(h)
  BY DEF Watched
<1>3. Carried(rows[h].sub)
  BY <1>2 DEF Carried, Sent, Processed
<1>4. Owed(rows[h].sub)
  BY <1>1, <1>3 DEF Owed
<1> QED BY <1>1, <1>4 DEF QInv, DebtInv

\* Once the loop is done with an entry nobody carries its outcome.
LEMMA NoLongerCarried ==
    ASSUME IInv, QInv, UnchangedByLoop, monitor' = monitor,
           NEW h \in Ids, h = Head(loop.todo), h \in Elements(monitor),
           rows[h].status \in Processed,
           loop.pc \notin {"adding", "unregister"}, loop'.pc \in {"adding", "unregister"},
           loop'.todo = loop.todo
    PROVE  \A n \in Nat : Carried(n)' <=> Carried(n) /\ n # rows[h].sub
<1>1. UNCHANGED <<rows, flow, tasks, relay, receipts, contract>>
  BY LoopLeaves
<1>2. \A i : Watched(i)' <=> Watched(i) /\ i # h
  BY <1>1 DEF Watched, Elements
<1>3. rows[h].status \in Sent
  BY DEF Sent
<1>4. \A k \in Tasks : tasks[k].pc = "accepted" => tasks[k].copy.nonce # rows[h].sub
  <2> TAKE k \in Tasks
  <2>1. ASSUME tasks[k].pc = "accepted" PROVE tasks[k].copy.nonce # rows[h].sub
    <3>1. tasks[k].copy.nonce = Len(relay)
      BY <2>1 DEF QInv, CopiesInv, CopyOK
    <3>2. rows[h].sub # Len(relay)
      BY <1>3, <2>1 DEF QInv, SentInv
    <3> QED BY <3>1, <3>2
  <2> QED BY <2>1
<1>5. \A i \in Ids : rows[i].status \in Sent /\ rows[i].sub = rows[h].sub => i = h
  BY <1>3 DEF QInv, SentInv
<1> QED BY <1>1, <1>2, <1>4, <1>5 DEF Carried

\* A change is taken over: nothing is missing, and what still waits is stale.
LEMMA TakesOver ==
    ASSUME IInv, QInv, UnchangedByLoop, monitor' = monitor,
           NEW h \in Ids, h = Head(loop.todo), h \in Elements(monitor),
           loop.pc \notin {"adding", "unregister"}, loop'.pc \in {"adding", "unregister"},
           loop'.todo = loop.todo,
           rows[h].status = "success", rows[h].data.op = "call",
           wallet'.ext = rows[h].data.new
    PROVE  DebtInv' /\ OrderInv'
<1>1. /\ UNCHANGED <<rows, flow, tasks, relay, receipts, contract>>
      /\ \A e \in AnyExt : Drafted(e)' => Drafted(e)
  BY LoopLeaves
<1>2. /\ wallet.ext # contract /\ wallet'.ext = contract
      /\ \A m \in Mined : Owed(m) => m = rows[h].sub
  BY SuccessIsOwed
<1>3. \A n \in Nat : Carried(n)' <=> Carried(n) /\ n # rows[h].sub
  BY NoLongerCarried DEF Processed
<1>4. /\ Mined' = Mined /\ Unmined' = Unmined /\ Mined \subseteq Nat /\ Unmined \subseteq Nat
      /\ rows[h].sub \notin Unmined
  <2>1. rows[h].sub \in Mined
    BY EntryFacts DEF Processed
  <2> QED BY <1>1, <2>1 DEF Mined, Unmined, IInv, WorldInv
<1>5. \A n \in Mined : ~Owed(n)'
  BY <1>1, <1>2, <1>3, <1>4 DEF Owed
<1>6. DebtInv'
  BY <1>1, <1>2, <1>3, <1>4, <1>5 DEF QInv, DebtInv
<1>7. \A n : Waiting(n)' <=> Waiting(n)
  BY <1>1, <1>4 DEF Waiting
<1>8. \A n \in Unmined : Waiting(n) => relay[n].data.old = wallet.ext
  BY <1>2 DEF QInv, OrderInv
<1>9. OrderInv'
  BY <1>1, <1>2, <1>4, <1>7, <1>8 DEF OrderInv
<1> QED BY <1>6, <1>9

\* A failure, or a transaction without data, changes nothing.
LEMMA PassesOver ==
    ASSUME IInv, QInv, UnchangedByLoop, UNCHANGED <<monitor, wallet>>,
           NEW h \in Ids, h = Head(loop.todo), h \in Elements(monitor),
           rows[h].status \in Processed,
           loop.pc \notin {"adding", "unregister"}, loop'.pc \in {"adding", "unregister"},
           loop'.todo = loop.todo,
           ~(rows[h].status = "success" /\ rows[h].data.op = "call")
    PROVE  DebtInv' /\ OrderInv'
<1>1. /\ UNCHANGED <<rows, flow, tasks, relay, receipts, contract>>
      /\ \A e \in AnyExt : Drafted(e)' => Drafted(e)
  BY LoopLeaves
<1>2. \A n \in Nat : Carried(n)' <=> Carried(n) /\ n # rows[h].sub
  BY NoLongerCarried
<1>3. /\ Mined' = Mined /\ Unmined' = Unmined /\ Mined \subseteq Nat /\ Unmined \subseteq Nat
      /\ rows[h].sub \notin Unmined
  <2>1. rows[h].sub \in Mined
    BY EntryFacts
  <2> QED BY <1>1, <2>1 DEF Mined, Unmined, IInv, WorldInv
<1>4. ~Owed(rows[h].sub)
  BY EntryFacts DEF Owed
<1>5. \A n \in Mined : Owed(n)' <=> Owed(n)
  BY <1>1, <1>2, <1>3, <1>4 DEF Owed
<1>6. DebtInv'
  BY <1>1, <1>2, <1>3, <1>5 DEF QInv, DebtInv
<1> QED BY <1>1, <1>6, OrderKeeps DEF QInv

LEMMA LoopMonitor ==
    ASSUME IInv, QInv, UnchangedByLoop, monitor' = monitor,
           loop.todo # <<>>, rows[Head(loop.todo)].status \in Processed,
           loop'.todo = loop.todo, loop'.pc \in {"unpairing", "adding", "unregister"},
           loop'.pc = "unpairing" =>
              /\ loop'.tx = rows[Head(loop.todo)]
              /\ loop'.copy.ext = wallet'.ext /\ loop'.copy.count = wallet'.count
              /\ loop'.tx.status = "success" =>
                    loop'.tx.kind # "connect" /\ loop'.tx.data.op = "call",
           loop'.pc = "adding" => loop'.copy.ext = wallet'.ext /\ wallet'.ext # NoExt,
           loop'.pc # "adding" => RightCount(wallet')
    PROVE  MonitorInv'
<1>1. UNCHANGED <<rows, flow, tasks, relay, receipts, contract>> /\ (Opened' <=> Opened)
  BY LoopLeaves
<1>2. /\ Elements(monitor)' = Elements(monitor) /\ Elements(loop.todo)' = Elements(loop.todo)
      /\ NoneTwice(monitor)' = NoneTwice(monitor) /\ NoneTwice(loop.todo)' = NoneTwice(loop.todo)
      /\ RightCount(wallet)' = RightCount(wallet')
  BY DEF Elements, NoneTwice, RightCount
<1> QED BY <1>1, <1>2 DEF QInv, MonitorInv

\* A disconnection that was submitted has data.
LEMMA HasData ==
    ASSUME IInv, QInv, ~EmptyDisconnection, NEW h \in Ids, h \in Elements(monitor),
           rows[h].status \in Processed, rows[h].kind = "disconnect"
    PROVE  rows[h].data # NilData
<1>1. /\ rows[h].sub \in 1 .. Len(relay)
      /\ relay[rows[h].sub].data = rows[h].data /\ relay[rows[h].sub].kind = "disconnect"
  BY EntryFacts
<1>2. relay[rows[h].sub] \in [kind : Kinds, data : Data]
  <2> DEFINE S == [kind : Kinds, data : Data]
  <2>1. relay \in Seq(S)
    BY DEF IInv, WorldInv
  <2> HIDE DEF S
  <2>2. \A n \in 1 .. Len(relay) : relay[n] \in S
    BY <2>1
  <2> QED BY <1>1, <2>2 DEF S
<1>3. \A r \in [kind : Kinds, data : Data] : r = [kind |-> r.kind, data |-> r.data]
  OBVIOUS
<1>4. rows[h].data = NilData => relay[rows[h].sub] = [kind |-> "disconnect", data |-> NilData]
  <2> DEFINE r == relay[rows[h].sub]
  <2>1. r = [kind |-> r.kind, data |-> r.data] /\ r.kind = "disconnect" /\ r.data = rows[h].data
    BY <1>1, <1>2, <1>3
  <2> HIDE DEF r
  <2>2. rows[h].data = NilData => r = [kind |-> "disconnect", data |-> NilData]
    BY <2>1
  <2> QED BY <2>2 DEF r
<1> QED BY <1>1, <1>4 DEF EmptyDisconnection

LEMMA AppliedWallet ==
    ASSUME NEW w \in Wallets, NEW tx
    PROVE  /\ tx.kind = "disconnect" => Applied(w, tx).ext = NoExt /\ Applied(w, tx).count = 1
           /\ tx.kind # "disconnect" => /\ Applied(w, tx).ext = tx.data.new
                                        /\ Applied(w, tx).count = w.count
BY DEF Applied, Wallets

LEMMA LoopProcessesCalm ==
    ASSUME IInv, QInv, Quiet', LoopProcesses
    PROVE  QInv'
<1> DEFINE h == Head(loop.todo)
           tx == rows[h]
           done == tx.data = NilData /\ tx.kind # "disconnect"
           save == ~done /\ tx.status # "failed" /\ ToUnpair(tx) = NoExt
<1>1. /\ loop.pc = "next" /\ loop.todo # <<>> /\ tx.status \in Processed
      /\ UnchangedByLoop /\ monitor' = monitor
      /\ wallet' = IF save THEN Applied(wallet, tx) ELSE wallet
  BY DEF LoopProcesses, Entry, Applies
<1>2. /\ loop'.todo = loop.todo /\ loop'.tx = tx /\ loop'.copy = wallet'
      /\ loop'.pc = CASE done -> "unregister"
                      [] ~done /\ ToUnpair(tx) # NoExt -> "unpairing"
                      [] OTHER -> IF save THEN AfterSave(tx) ELSE "unregister"
  <2>1. loop \in LoopRecords
    BY DEF IInv, LoopInv
  <2> DEFINE p == CASE done -> "unregister"
                    [] ~done /\ ToUnpair(tx) # NoExt -> "unpairing"
                    [] OTHER -> IF save THEN AfterSave(tx) ELSE "unregister"
  <2>2. loop' = [loop EXCEPT !.tx = tx, !.copy = wallet', !.pc = p]
    BY DEF LoopProcesses, Entry
  <2> HIDE DEF p, tx
  <2> QED BY <2>1, <2>2 DEF LoopRecords, p
<1>3. h \in Elements(monitor) /\ h \in Ids
  BY <1>1, HeadMonitored DEF QInv
<1>4. /\ tx \in Rows /\ DataOK(tx.kind, tx.data)
      /\ tx.kind = "connect" => tx.data.op = "call"
      /\ tx.status = "success" => tx.data.op # "dummy"
  BY <1>1, <1>3, EntryFacts
<1>5. /\ TurnInv' /\ OpenInv' /\ CopiesInv' /\ SentInv'
      /\ UNCHANGED <<rows, flow, tasks, relay, receipts, contract>>
  BY <1>1, LoopLeaves
<1>6. ~EmptyDisconnection
  BY <1>5 DEF Quiet, EmptyDisconnection
<1>7. tx.kind = "disconnect" => tx.data # NilData
  BY <1>1, <1>3, <1>6, HasData
<1>8. tx.status = "success" /\ ~done => tx.data.op = "call"
  <2>1. tx.data \in Data
    BY <1>4 DEF Rows
  <2>2. tx.data.op \in {"nil", "dummy", "call"}
    BY <2>1 DEF Data
  <2> QED BY <1>4, <1>7, <2>2 DEF DataOK
<1>9. RightCount(wallet) /\ wallet \in Wallets
  BY <1>1 DEF QInv, MonitorInv, IInv, LoopInv
<1>10. NilData.op = "nil"
  BY DEF NilData
<1>11. ToUnpair(tx) = IF tx.status = "failed" THEN IF tx.kind = "disconnect" THEN NoExt ELSE tx.data.new
                      ELSE IF tx.kind = "connect" THEN NoExt ELSE wallet.ext
  BY DEF ToUnpair
<1>12. tx.status \in {"success", "failed"}
  BY <1>1 DEF Processed
<1> HIDE DEF tx
<1>13. CASE done \/ (tx.status = "failed" /\ ToUnpair(tx) = NoExt)
  <2>1. wallet' = wallet /\ loop'.pc = "unregister"
    BY <1>1, <1>2, <1>13
  <2>2. ~(tx.status = "success" /\ tx.data.op = "call")
    BY <1>10, <1>13
  <2>3. DebtInv' /\ OrderInv'
    BY <1>1, <1>2, <1>3, <2>1, <2>2, PassesOver DEF tx
  <2>4. MonitorInv'
    BY <1>1, <1>2, <1>9, <2>1, LoopMonitor DEF tx
  <2> QED BY <1>5, <2>3, <2>4 DEF QInv
<1>14. CASE ~done /\ ToUnpair(tx) # NoExt
  <2>1. wallet' = wallet /\ loop'.pc = "unpairing"
    BY <1>1, <1>2, <1>14
  <2>2. tx.status = "success" => tx.kind # "connect" /\ tx.data.op = "call"
    BY <1>8, <1>11, <1>14
  <2>3. MonitorInv'
    BY <1>1, <1>2, <1>9, <2>1, <2>2, LoopMonitor DEF tx
  <2>4. \A n \in Nat : Carried(n)' <=> Carried(n)
    <3>1. \A i : Watched(i)' <=> Watched(i)
      BY <1>1, <1>5, <2>1 DEF Watched, Elements
    <3> QED BY <1>5, <3>1 DEF Carried
  <2>5. \A e \in AnyExt : Drafted(e)' => Drafted(e)
    BY <1>1, LoopLeaves
  <2>6. DebtInv' /\ OrderInv'
    BY <1>5, <2>1, <2>4, <2>5, DebtKeeps, OrderKeeps DEF QInv
  <2> QED BY <1>5, <2>3, <2>6 DEF QInv
<1>15. CASE ~done /\ tx.status = "success" /\ ToUnpair(tx) = NoExt
  <2>1. tx.data.op = "call"
    BY <1>8, <1>15
  <2>2. tx.data.old = wallet.ext
    BY <1>1, <1>3, <1>15, <2>1, SuccessIsOwed DEF tx
  <2>3. tx.kind = "connect"
    BY <1>4, <1>11, <1>15, <2>1, <2>2 DEF DataOK
  <2>4. wallet' = Applied(wallet, tx) /\ loop'.pc = "adding"
    BY <1>1, <1>2, <1>15, <2>3 DEF AfterSave
  <2>5. wallet'.ext = tx.data.new /\ tx.data.new # NoExt
    BY <1>4, <1>9, <2>1, <2>3, <2>4, AppliedWallet DEF DataOK
  <2>6. DebtInv' /\ OrderInv'
    BY <1>1, <1>2, <1>3, <1>15, <2>1, <2>4, <2>5, TakesOver DEF tx
  <2>7. MonitorInv'
    BY <1>1, <1>2, <2>4, <2>5, LoopMonitor DEF tx
  <2> QED BY <1>5, <2>6, <2>7 DEF QInv
<1> QED BY <1>12, <1>13, <1>14, <1>15

LEMMA LoopUnpairsCalm ==
    ASSUME IInv, QInv, LoopUnpairs
    PROVE  QInv'
<1> DEFINE h == Head(loop.todo)
           tx == rows[h]
<1>1. loop \in LoopRecords /\ loop.copy \in Wallets
  BY DEF IInv, LoopInv, LoopRecords
<1>2. loop.pc = "unpairing" /\ UnchangedByLoop /\ monitor' = monitor
  BY DEF LoopUnpairs
<1>3. /\ loop.todo # <<>> /\ h \in Elements(monitor) /\ h \in Ids /\ tx.status \in Processed
      /\ loop.tx = tx /\ loop.copy.ext = wallet.ext /\ loop.copy.count = wallet.count
      /\ tx.status = "success" => tx.kind # "connect" /\ tx.data.op = "call"
      /\ RightCount(wallet)
  BY <1>2, HeadMonitored DEF QInv, MonitorInv
<1>4. wallet' = IF tx.status = "failed" THEN wallet ELSE Applied(loop.copy, tx)
  BY <1>3 DEF LoopUnpairs
<1>5. loop'.pc = "unregister" /\ loop'.todo = loop.todo
  BY <1>1 DEF LoopUnpairs, LoopRecords
<1>6. TurnInv' /\ OpenInv' /\ CopiesInv' /\ SentInv'
  BY <1>2, LoopLeaves
<1>7. DataOK(tx.kind, tx.data)
  BY <1>3, EntryFacts
<1>8. CASE tx.status = "failed"
  <2>1. DebtInv' /\ OrderInv'
    BY <1>2, <1>3, <1>4, <1>5, <1>8, PassesOver
  <2>2. MonitorInv'
    BY <1>2, <1>3, <1>4, <1>5, <1>8, LoopMonitor
  <2> QED BY <1>6, <2>1, <2>2 DEF QInv
<1>9. CASE tx.status = "success"
  <2>1. /\ tx.data.old = wallet.ext /\ tx.data.new = contract /\ wallet.ext # contract
    BY <1>2, <1>3, <1>9, SuccessIsOwed
  <2>2. wallet.ext # NoExt /\ wallet.count = 2 /\ ((tx.data.new = NoExt) <=> (tx.kind = "disconnect"))
    BY <1>3, <1>7, <1>9, <2>1 DEF DataOK, RightCount
  <2>3. wallet'.ext = tx.data.new /\ RightCount(wallet')
    <3> HIDE DEF tx
    <3> QED BY <1>1, <1>3, <1>4, <1>9, <2>2, AppliedWallet DEF RightCount
  <2>4. DebtInv' /\ OrderInv'
    BY <1>2, <1>3, <1>5, <1>9, <2>3, TakesOver
  <2>5. MonitorInv'
    BY <1>2, <1>3, <1>5, <2>3, LoopMonitor
  <2> QED BY <1>6, <2>4, <2>5 DEF QInv
<1> QED BY <1>3, <1>8, <1>9 DEF Processed

-----------------------------------------------------------------------------
(* The chain.                                                              *)

LEMMA MineCalm ==
    ASSUME IInv, QInv, NEW outcome \in Processed, Mine(outcome)
    PROVE  QInv'
<1>0. PICK n : n = Len(receipts) + 1
  OBVIOUS
<1> DEFINE tx == relay[n]
<1>1. /\ Len(receipts) < Len(relay) /\ receipts' = Append(receipts, outcome)
      /\ outcome = "success" => Succeeds(tx)
      /\ contract' = IF outcome = "success" /\ tx.data # NilData THEN tx.data.new ELSE contract
      /\ UNCHANGED <<rows, monitor, wallet, flow, main, tasks, loop, cleanup, relay>>
  BY <1>0 DEF Mine, db
<1>2. /\ Len(receipts) \in Nat /\ Len(relay) \in Nat /\ receipts \in Seq(Processed)
      /\ relay \in Seq([kind : Kinds, data : Data])
  BY DEF IInv, WorldInv
<1>3. /\ Len(receipts') = n /\ receipts'[n] = outcome
      /\ \A m \in 1 .. Len(receipts) : receipts'[m] = receipts[m]
  BY <1>0, <1>1, <1>2
<1>4. /\ n \in Unmined /\ n \notin Mined /\ Mined' = Mined \cup {n} /\ Unmined' = Unmined \ {n}
      /\ n \in 1 .. Len(relay) /\ \A m \in Unmined' : m \in Nat /\ n < m
      /\ n \in Nat /\ Mined \subseteq Nat /\ Unmined \subseteq Nat
  BY <1>0, <1>1, <1>2, <1>3 DEF Mined, Unmined
<1>5. /\ tx.kind \in Kinds /\ tx.data \in Data /\ DataOK(tx.kind, tx.data)
      /\ tx.kind = "connect" => tx.data.op = "call"
  <2> DEFINE S == [kind : Kinds, data : Data]
  <2>1. relay \in Seq(S)
    BY <1>2
  <2>2. \A r \in S : r.kind \in Kinds /\ r.data \in Data
    OBVIOUS
  <2> HIDE DEF S
  <2>3. tx \in S
    BY <1>4, <2>1
  <2> QED BY <1>4, <2>2, <2>3 DEF QInv, SentInv
<1>6. tx.data.op \in {"nil", "dummy", "call"} /\ NilData.op = "nil" /\ DummyData.old = NoExt
      /\ DummyData.new = NoExt /\ DummyData.op = "dummy"
  BY <1>5 DEF Data, NilData, DummyData
<1>7. outcome = "success" =>
         /\ tx.data.op # "dummy"
         /\ tx.data.op = "call" => tx.data.old = contract /\ tx.data.new # contract
  <2> HIDE DEF tx
  <2>1. CASE tx.kind = "connect"
    BY <1>1, <1>5, <1>6, <2>1 DEF Succeeds, DataOK
  <2>2. CASE tx.kind # "connect"
    BY <1>1, <1>5, <1>6, <2>2 DEF Succeeds, DataOK
  <2> QED BY <2>1, <2>2
<1>8. tx.data = NilData <=> tx.data.op = "nil"
  BY <1>5, <1>6 DEF DataOK
<1>9. (Opened' <=> Opened) /\ (Acted' <=> Acted) /\ (Relayed' <=> Relayed)
  BY <1>1 DEF Opened, Acted, Relayed
<1>10. TurnInv'
  BY <1>1 DEF QInv, TurnInv, Free, IsPairing
<1>11. OpenInv'
  BY <1>1, <1>9 DEF QInv, OpenInv
<1>12. CopiesInv'
  BY <1>1 DEF QInv, CopiesInv, CopyOK
<1>13. SentInv'
  <2>1. \A m \in 1 .. Len(receipts') : receipts'[m] = "success" => relay'[m].data.op # "dummy"
    <3> TAKE m \in 1 .. Len(receipts')
    <3>1. CASE m = n
      BY <1>1, <1>3, <1>7, <3>1
    <3>2. CASE m # n
      <4>1. m \in 1 .. Len(receipts)
        BY <1>0, <1>2, <1>3, <3>2
      <4> QED BY <1>1, <1>3, <4>1 DEF QInv, SentInv
    <3> QED BY <3>1, <3>2
  <2> QED BY <1>1, <2>1 DEF QInv, SentInv
<1>14. MonitorInv'
  BY <1>1, MonitorSame DEF QInv
<1>15. \A m : Carried(m)' <=> Carried(m)
  <2>1. \A i : Watched(i)' <=> Watched(i)
    BY <1>1 DEF Watched, Elements
  <2> QED BY <1>1, <2>1 DEF Carried
<1>16. /\ \A m \in Mined : Owed(m)' <=> Owed(m)
       /\ Owed(n)' <=> outcome = "success" /\ tx.data.op = "call"
  <2>1. \A m \in Mined : Owed(m)' <=> Owed(m)
    BY <1>1, <1>3, <1>4, <1>15 DEF Owed, Mined
  <2>2. Carried(n)
    BY <1>4 DEF QInv, DebtInv
  <2> QED BY <1>1, <1>3, <1>4, <1>15, <2>1, <2>2 DEF Owed
<1>17. \A m \in Unmined' : Waiting(m)' <=> Waiting(m)
  BY <1>1, <1>4 DEF Waiting
<1>18. \A e \in AnyExt : Drafted(e)' => Drafted(e)
  BY <1>1, <1>9 DEF Drafted
<1>19. \A m \in Unmined' : Carried(m)'
  BY <1>4, <1>15 DEF QInv, DebtInv
<1> HIDE DEF tx
<1>20. CASE outcome = "success" /\ tx.data.op = "call"
  <2>1. /\ tx.data.old = contract /\ contract' = tx.data.new /\ contract' # contract
        /\ Waiting(n)
    BY <1>1, <1>4, <1>6, <1>7, <1>8, <1>20 DEF Waiting, tx
  <2>2. wallet.ext = contract
    BY <1>4, <2>1 DEF QInv, OrderInv, tx
  <2>3. \A m \in Mined : ~Owed(m)
    BY <2>2 DEF QInv, DebtInv
  <2>4. DebtInv'
    <3>1. n \in Mined' /\ Owed(n)' /\ \A m \in Mined' : Owed(m)' => m = n
      BY <1>4, <1>16, <1>20, <2>3
    <3>2. relay'[n].data.old = wallet'.ext /\ relay'[n].data.new = contract'
      BY <1>1, <2>1, <2>2 DEF tx
    <3> QED BY <1>1, <1>19, <2>1, <2>2, <3>1, <3>2 DEF DebtInv
  <2>5. \A m \in Unmined' : Waiting(m) => relay[m].data.old = wallet.ext
    BY <1>4, <2>1, <2>2 DEF QInv, OrderInv, tx
  <2>6. \A e \in AnyExt : Drafted(e) => e = wallet.ext
    BY <1>4, <2>1, <2>2 DEF QInv, OrderInv, tx
  <2>7. OrderInv'
    BY <1>1, <1>17, <1>18, <2>5, <2>6 DEF OrderInv
  <2> QED BY <1>10, <1>11, <1>12, <1>13, <1>14, <2>4, <2>7 DEF QInv
<1>21. CASE ~(outcome = "success" /\ tx.data.op = "call")
  <2>1. contract' = contract
    BY <1>1, <1>6, <1>7, <1>8, <1>21
  <2>2. DebtInv'
    <3>1. \A m \in Mined' : Owed(m)' <=> m \in Mined /\ Owed(m)
      BY <1>4, <1>16, <1>21
    <3> QED BY <1>1, <1>4, <1>19, <2>1, <3>1 DEF QInv, DebtInv
  <2>3. OrderInv'
    BY <1>1, <1>4, <1>17, <1>18, <2>1 DEF QInv, OrderInv
  <2> QED BY <1>10, <1>11, <1>12, <1>13, <1>14, <2>2, <2>3 DEF QInv
<1> QED BY <1>20, <1>21

-----------------------------------------------------------------------------
(* Nothing that ended the calm is undone.                                  *)

LEMMA SteadyQuiet ==
    ASSUME Quiet', UNCHANGED <<trap, crashes, relay>>
    PROVE  Quiet
BY DEF Quiet, EmptyDisconnection

LEMMA ScreenQuiet ==
    ASSUME Quiet', ScreenStep \/ SignStep
    PROVE  Quiet
<1> USE DEF UnchangedByScreens, UnchangedBySigning, outside, budgets, Counters
<1>1. CASE \E kind \in Kinds : OpenFlow(kind)
  BY <1>1, SteadyQuiet DEF OpenFlow
<1>2. CASE \E i \in Ids : IntroCreates(i)
  BY <1>2, SteadyQuiet DEF IntroCreates
<1>3. CASE IntroEstimates
  BY <1>3, SteadyQuiet DEF IntroEstimates
<1>4. CASE IntroFindsNothing
  BY <1>4, NoTrap DEF IntroFindsNothing
<1>5. CASE StartFlow
  BY <1>5, SteadyQuiet, NoTrap DEF StartFlow
<1>6. CASE Back
  BY <1>6, SteadyQuiet DEF Back
<1>7. CASE ChangePaymentToken
  BY <1>7, SteadyQuiet DEF ChangePaymentToken
<1>8. CASE SignBegins
  BY <1>8, SteadyQuiet, NoTrap DEF SignBegins
<1>9. CASE SignReads
  BY <1>9, SteadyQuiet, NoTrap DEF SignReads
<1>10. CASE SignEstimates
  BY <1>10, SteadyQuiet, NoTrap DEF SignEstimates
<1>11. CASE SignFinishes
  BY <1>11, SteadyQuiet, NoTrap DEF SignFinishes
<1>12. CASE SignThrows
  BY <1>12, SteadyQuiet DEF SignThrows
<1> QED BY <1>1, <1>2, <1>3, <1>4, <1>5, <1>6, <1>7, <1>8, <1>9, <1>10, <1>11, <1>12
        DEF ScreenStep, SignStep

LEMMA TaskQuiet ==
    ASSUME IInv, Quiet', NEW k \in Tasks, TaskStep(k)
    PROVE  Quiet
<1> USE DEF UnchangedByTasks, budgets, Counters
<1>1. CASE \E e \in Exts : Scan(k, e)
  BY <1>1, SteadyQuiet DEF Scan
<1>2. CASE PairValidates(k)
  BY <1>2, SteadyQuiet, NoTrap DEF PairValidates
<1>3. CASE PairUnpairs(k) \/ PairFinishes(k) \/ PairThrows(k)
  BY <1>3, SteadyQuiet DEF PairUnpairs, PairFinishes, PairThrows
<1>4. CASE PairPairs(k)
  <2>1. Trap("find") \/ Trap("owner") \/ Trap("edit") \/ UNCHANGED <<trap, crashes, relay>>
    <3> DEFINE i == tasks[k].id
               tx == SteppedBack(rows[i])
               traps == \/ Missing(i)
                        \/ tasks[k].kind = "replace" /\ wallet.ext = NoExt
                        \/ tasks[k].kind = "connect" /\ ~Editable(tx)
    <3>1. CASE traps
      BY <1>4, <3>1 DEF PairPairs
    <3>2. CASE ~traps
      BY <1>4, <3>2 DEF PairPairs
    <3> QED BY <3>1, <3>2
  <2> QED BY <2>1, SteadyQuiet, NoTrap
<1>5. CASE PairReads(k)
  BY <1>5, SteadyQuiet, NoTrap DEF PairReads
<1>6. CASE Submit(k) \/ ReviewEstimates(k) \/ RelayAnswers(k) \/ ReviewThrows(k) \/ ReviewFinishes(k)
  BY <1>6, SteadyQuiet DEF Submit, ReviewEstimates, RelayAnswers, ReviewThrows, ReviewFinishes
<1>7. CASE ReviewStarts(k)
  BY <1>7, SteadyQuiet, NoTrap DEF ReviewStarts
<1>8. CASE ReviewActs(k)
  <2>1. tasks[k].action \in {"request", "submit"}
    BY <1>8 DEF ReviewActs, At, IInv, TasksInv, TaskRecords
  <2>2. Trap("find") \/ Trap("unsigned") \/ UNCHANGED <<trap, crashes, relay>>
    BY <1>8, <2>1 DEF ReviewActs
  <2> QED BY <2>2, SteadyQuiet, NoTrap
<1>9. CASE RelayAccepts(k)
  <2> DEFINE entry == [kind |-> tasks[k].copy.kind, data |-> tasks[k].copy.data]
  <2>1. relay' = Append(relay, entry) /\ UNCHANGED <<trap, crashes>>
    BY <1>9 DEF RelayAccepts
  <2>2. relay \in Seq([kind : Kinds, data : Data]) /\ Len(relay) \in Nat
    BY DEF IInv, WorldInv
  <2> HIDE DEF entry
  <2>3. Len(relay') = Len(relay) + 1 /\ \A n \in 1 .. Len(relay) : relay'[n] = relay[n]
    BY <2>1, <2>2
  <2>4. \A n \in 1 .. Len(relay) : n \in 1 .. Len(relay')
    BY <2>2, <2>3
  <2> QED BY <2>1, <2>3, <2>4 DEF Quiet, EmptyDisconnection
<1> QED BY <1>1, <1>2, <1>3, <1>4, <1>5, <1>6, <1>7, <1>8, <1>9 DEF TaskStep

LEMMA LoopQuiet ==
    ASSUME Quiet', LoopStep
    PROVE  Quiet
<1>1. UNCHANGED <<trap, crashes, relay>>
  BY DEF LoopStep, PollLooks, LoopBegins, LoopTurns, LoopSkips, LoopProcesses, LoopUnpairs,
         LoopThrows, LoopAdds, LoopUnregisters, UnchangedByLoop, outside, budgets
<1> QED BY <1>1, SteadyQuiet

LEMMA NextQuiet ==
    ASSUME IInv, Quiet', Next
    PROVE  Quiet /\ ~Crash
<1>1. ~Crash
  <2>1. crashes \in Nat
    BY ModificationAssumption DEF IInv, CountInv
  <2> QED BY <2>1 DEF Crash, Quiet
<1>2. ASSUME NEW outcome \in Processed, Mine(outcome) PROVE Quiet
  BY <1>2, SteadyQuiet DEF Mine, budgets
<1>3. CleanUp => Quiet
  BY SteadyQuiet DEF CleanUp, outside, budgets
<1> QED BY <1>1, <1>2, <1>3, ScreenQuiet, TaskQuiet, LoopQuiet DEF Next

LEMMA NextCalm ==
    ASSUME ~Impatient, IInv, QInv, Quiet', Next
    PROVE  QInv'
<1>1. ASSUME ScreenStep PROVE QInv'
  BY <1>1, OpenFlowCalm, IntroCreatesCalm, IntroEstimatesCalm, IntroFindsNothingCalm,
     StartFlowCalm, BackCalm, ChangePaymentTokenCalm DEF ScreenStep
<1>2. ASSUME SignStep PROVE QInv'
  BY <1>2, SignBeginsCalm, SignReadsCalm, SignEstimatesCalm, SignFinishesCalm,
     SignThrowsCalm DEF SignStep
<1>3. ASSUME NEW k \in Tasks, TaskStep(k) PROVE QInv'
  BY <1>3, ScanCalm, PairValidatesCalm, PairUnpairsCalm, PairPairsCalm, PairReadsCalm,
     PairFinishesCalm, ThrowsCalm, SubmitCalm, ReviewStartsCalm, ReviewEstimatesCalm,
     ReviewActsCalm, RelayAcceptsCalm, RelayAnswersCalm, ReviewFinishesCalm DEF TaskStep
<1>4. ASSUME LoopStep PROVE QInv'
  BY <1>4, PollLooksCalm, LoopBeginsCalm, LoopTurnsCalm, LoopSkipsCalm, LoopProcessesCalm,
     LoopUnpairsCalm, LoopThrowsCalm, LoopAddsCalm, LoopUnregistersCalm DEF LoopStep
<1>5. ~CleanUp
  BY DEF QInv, TurnInv, CleanUp
<1>6. ~Crash
  BY NextQuiet
<1> QED BY <1>1, <1>2, <1>3, <1>4, <1>5, <1>6, MineCalm DEF Next

LEMMA StutterCalm ==
    ASSUME IInv, CalmInv, UNCHANGED vars
    PROVE  CalmInv'
<1> SUFFICES ASSUME Quiet' PROVE QInv'
  BY DEF CalmInv
<1> USE DEF vars, db, outside, budgets
<1>1. QInv
  BY SteadyQuiet DEF CalmInv
<1>2. UnchangedByLoop /\ UNCHANGED <<monitor, wallet, loop>>
  BY DEF UnchangedByLoop
<1>3. TurnInv' /\ OpenInv' /\ CopiesInv' /\ SentInv' /\ \A e \in AnyExt : Drafted(e)' => Drafted(e)
  BY <1>1, <1>2, LoopLeaves
<1>4. MonitorInv'
  BY <1>1, MonitorSame DEF QInv
<1>5. \A n \in Nat : Carried(n)' <=> Carried(n)
  <2>1. \A i : Watched(i)' <=> Watched(i)
    BY DEF Watched, Elements
  <2> QED BY <2>1 DEF Carried
<1>6. DebtInv' /\ OrderInv'
  BY <1>1, <1>3, <1>5, DebtKeeps, OrderKeeps DEF QInv
<1> QED BY <1>3, <1>4, <1>6 DEF QInv

LEMMA InitCalm ==
    ASSUME Init
    PROVE  QInv
<1> USE DEF Init
<1>1. /\ \A i \in Ids : rows[i].status = "absent" /\ rows[i].data = NilData /\ rows[i].kind = "replace"
      /\ \A k \in Tasks : tasks[k].pc = "idle"
      /\ flow.screen = "menu" /\ main.pc = "idle" /\ loop.pc = "idle" /\ loop.todo = <<>>
      /\ Len(relay) = 0 /\ Len(receipts) = 0
  BY DEF NoRow, NoTask, NoFlow, IdleMain, Resting
<1>2. TurnInv /\ CopiesInv
  BY <1>1 DEF TurnInv, CopiesInv, CopyOK, Free
<1>3. OpenInv
  BY <1>1, KindFacts DEF OpenInv, Opened, Kinds
<1>4. SentInv
  BY <1>1 DEF SentInv, Sent, Processed
<1>5. RightCount(wallet)
  BY DEF RightCount
<1>6. MonitorInv
  BY <1>1, <1>5, EmptyFacts DEF MonitorInv, Opened
<1>7. Mined = {} /\ Unmined = {}
  BY <1>1 DEF Mined, Unmined
<1>8. DebtInv /\ OrderInv
  BY <1>1, <1>7 DEF DebtInv, OrderInv
<1> QED BY <1>2, <1>3, <1>4, <1>6, <1>8 DEF QInv

\* In a calm state a change that is not in the wallet row has a task with the
\* relay's answer, or a monitor entry.
LEMMA CalmRemembers ==
    ASSUME IInv, QInv
    PROVE  Follows \/ monitor # <<>> \/ \E k \in Tasks : tasks[k].pc \in {"accepted", "acted"}
<1>1. ASSUME monitor = <<>> PROVE Elements(monitor) = {}
  BY <1>1, EmptyFacts
<1>2. CASE wallet.ext # contract
  <2>1. PICK n \in Mined : Owed(n)
    BY <1>2 DEF QInv, DebtInv
  <2>2. Carried(n)
    BY <2>1 DEF Owed
  <2> QED BY <1>1, <2>2 DEF Carried, Watched
<1>3. CASE wallet.ext = contract
  <2>1. CASE loop.pc = "adding"
    BY <1>1, <2>1, HeadMonitored DEF QInv
  <2>2. CASE loop.pc # "adding"
    BY <1>3, <2>2 DEF QInv, MonitorInv, RightCount, Follows
  <2> QED BY <2>1, <2>2
<1> QED BY <1>2, <1>3

\* While the process lives, a change the contract has made and the wallet row
\* has not is never lost between the relay's answer, startMonitoring and
\* postProcess: a task has the answer or a monitor entry is there.  For any
\* number of flows, extensions and tasks, of a user who does not leave a screen
\* while its task is running.
THEOREM RememberedChanges ==
    ASSUME ~Impatient
    PROVE  Spec => []ChangeIsRemembered
<1>1. Init => CalmInv
  BY InitCalm DEF CalmInv
<1>2. IInv /\ CalmInv /\ [Next]_vars => CalmInv'
  <2> SUFFICES ASSUME IInv, CalmInv, [Next]_vars PROVE CalmInv'
    OBVIOUS
  <2>1. CASE UNCHANGED vars
    BY <2>1, StutterCalm
  <2>2. CASE Next
    <3> SUFFICES ASSUME Quiet' PROVE QInv'
      BY DEF CalmInv
    <3>1. QInv
      BY <2>2, NextQuiet DEF CalmInv
    <3> QED BY <2>2, <3>1, NextCalm
  <2> QED BY <2>1, <2>2
<1>3. IInv /\ CalmInv => ChangeIsRemembered
  <2> SUFFICES ASSUME IInv, CalmInv PROVE ChangeIsRemembered
    OBVIOUS
  <2>1. crashes \in Nat
    BY ModificationAssumption DEF IInv, CountInv
  <2>2. CASE Quiet
    BY <2>2, CalmRemembers DEF CalmInv, ChangeIsRemembered
  <2>3. CASE ~Quiet
    BY <2>1, <2>3 DEF Quiet, ChangeIsRemembered
  <2> QED BY <2>2, <2>3
<1> QED BY <1>1, <1>2, <1>3, IInvariance, PTL DEF Spec

=============================================================================
