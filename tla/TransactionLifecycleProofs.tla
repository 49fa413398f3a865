--------------------- MODULE TransactionLifecycleProofs ---------------------
(***************************************************************************)
(* Proofs about TransactionLifecycle, for any number of transactions,      *)
(* nonces, background tasks, synchronisation loops and review screens, and *)
(* however often the process is killed.                                    *)
(***************************************************************************)
EXTENDS TransactionLifecycle, TLAPS

(* What holds of every copy of a row, wherever it is: it is estimated when  *)
(* it is past the draft, and what was signed is the hash it has now.        *)
WellFormed(tx) ==
    /\ tx.est <=> tx.status \notin {"draft"} \cup Gone
    /\ tx.est => tx.hash \in Hashes
    /\ tx.sigs # {} => tx.est
    /\ \A g \in tx.sigs : g.over = tx.hash /\ g.key # "other"

(* What holds of the rows and of the copies the loops hold: a status of the *)
(* list is the relay's and the chain's.                                     *)
Settled(tx) ==
    tx.status \in Sent =>
        /\ tx.sub = tx.hash
        /\ \E s \in relay : s.hash = tx.sub
        /\ tx.status \in Processed => receipts[tx.sub] = tx.status

RowInv ==
    /\ \A i \in Ids : WellFormed(rows[i]) /\ Settled(rows[i])
    /\ \A k \in Tasks : WellFormed(tasks[k].copy)
    /\ \A p \in Pollers, i \in Ids :
          /\ poll[p][i].status \in Sent \cup {"absent"}
          /\ WellFormed(poll[p][i]) /\ Settled(poll[p][i])

(* A screen that can still start a task has a transaction.                  *)
ScreenInv ==
    /\ top # 0 => review[top].tx # NoId
    /\ \A v \in Screens :
          /\ v > opened => review[v] = NoScreen
          /\ review[v].waiting \/ review[v].unlocking => review[v].tx # NoId
          /\ review[v].tx # NoId => rows[review[v].tx].status # "absent"
    /\ input # NoId => rows[input].status # "absent"
    /\ \A i \in resets : rows[i].status # "absent"
    /\ ~HasExtension => resets = {} /\ \A i \in Ids : ~CanReset(rows[i])

Holding == {"notifying", "relaying", "accepted"}

(* What a task has to its name, by the place it is at.                      *)
TaskOK(k) ==
    /\ tasks[k].pc # "idle" =>
          tasks[k].vc \in 1 .. opened /\ TransactionOf(k) # NoId
    /\ tasks[k].pc \notin {"idle", "start"} => tasks[k].id # NoId
    /\ tasks[k].id # NoId => rows[tasks[k].id].status # "absent"
    /\ tasks[k].pc = "estimating" => ~tasks[k].copy.est
    /\ tasks[k].pc \in Holding => tasks[k].copy.hash \in Hashes
    /\ tasks[k].pc \in {"relaying", "accepted"} =>
          /\ tasks[k].copy.est
          /\ \E g \in tasks[k].copy.sigs : g.key = "device"
          /\ HasExtension => \E g \in tasks[k].copy.sigs : g.key = "extension"
    /\ tasks[k].pc = "accepted" =>
          \E s \in relay : s.hash = tasks[k].copy.hash /\ s.id = tasks[k].id

TaskInv == \A k \in Tasks : TaskOK(k)

(* A task is past the estimate only when the row is, unless it was reset.   *)
EstimatedOK(k) ==
    /\ tasks[k].pc \in Holding \cup {"estimated", "acted"} /\ tasks[k].id \notin resets
          => rows[tasks[k].id].est
    /\ tasks[k].pc \in Holding \cup {"act", "acted", "showing"}
          /\ TransactionOf(k) \notin resets
          => rows[TransactionOf(k)].est

EstimatedInv == \A k \in Tasks : EstimatedOK(k)

(* Until its first estimate is shown a screen has one thing under way.      *)
OnScreen(k, v) == tasks[k].pc # "idle" /\ tasks[k].vc = v
QuietOK(v) ==
    ~review[v].fee =>
        /\ \A k, l \in Tasks : OnScreen(k, v) /\ OnScreen(l, v) => k = l
        /\ (\E k \in Tasks : OnScreen(k, v)) =>
              ~review[v].waiting /\ ~review[v].enabled /\ ~review[v].unlocking
        /\ review[v].waiting => ~review[v].unlocking
        /\ review[v].waiting /\ review[v].enabled => review[v].st \notin {"rejected", "ready"}

QuietInv == \A v \in Screens : QuietOK(v)

(* A transaction is estimated once, unless it was reset.                    *)
OnceInv ==
    \A i \in Ids \ resets :
        /\ ~rows[i].est => \A v \in Screens : review[v].tx = i =>
              ~review[v].fee /\ \A w \in Screens : review[w].tx = i => v = w
        /\ \A k \in Tasks : tasks[k].pc = "estimating" /\ tasks[k].id = i =>
              /\ ~rows[i].est
              /\ ~review[tasks[k].vc].fee
              /\ \A v \in Screens : review[v].tx = i => v = tasks[k].vc
              /\ \A l \in Tasks : tasks[l].pc = "estimating" /\ tasks[l].id = i => k = l

(* The copies that are saved later agree with the row, unless it was reset. *)
CopyInv ==
    /\ \A k \in Tasks : tasks[k].pc \in Holding /\ tasks[k].id \notin resets =>
          tasks[k].copy.hash = rows[tasks[k].id].hash
    /\ \A k \in Tasks : tasks[k].pc = "accepted" =>
          /\ tasks[k].id \notin resets => rows[tasks[k].id].status \notin Sent
          /\ \A l \in Tasks : tasks[l].pc = "accepted"
                /\ tasks[l].copy.hash = tasks[k].copy.hash => k = l
    /\ \A p \in Pollers, i \in Ids \ resets : poll[p][i].status # "absent" =>
          /\ rows[i].status \in Sent
          /\ rows[i] = [poll[p][i] EXCEPT !.status = rows[i].status]

RelayInv ==
    /\ \A s, u \in relay : s.hash = u.hash => s = u
    /\ \A h \in Hashes : receipts[h] # "none" => \E s \in relay : s.hash = h

-----------------------------------------------------------------------------
(* What the operations on a row do *)

LEMMA AbsentFacts ==
  /\ AbsentRow \in Rows /\ WellFormed(AbsentRow)
  /\ AbsentRow.status = "absent" /\ AbsentRow.est = FALSE /\ AbsentRow.sigs = {}
<1>1. (CHOOSE b \in Bodies : TRUE) \in Bodies
  BY LifecycleAssumption DEF Bodies
<1>2. QED
  BY <1>1 DEF AbsentRow, Rows, WellFormed, Gone

LEMMA DraftFacts ==
  ASSUME NEW b \in Bodies
  PROVE  /\ Draft(b) \in Rows /\ WellFormed(Draft(b))
         /\ Draft(b).status = "draft" /\ Draft(b).est = FALSE /\ Draft(b).sigs = {}
         /\ Draft(b).body = b
BY AbsentFacts DEF Draft, Rows, WellFormed, Statuses, Gone

LEMMA SignedFacts ==
  ASSUME NEW tx \in Rows, NEW key \in Keys, NEW h \in Hashes \cup {NoHash}
  PROVE  /\ Signed(tx, key, h) \in Rows
         /\ Signed(tx, key, h).status = tx.status
         /\ Signed(tx, key, h).est = tx.est
         /\ Signed(tx, key, h).hash = tx.hash
         /\ Signed(tx, key, h).body = tx.body
         /\ Signed(tx, key, h).sigs = tx.sigs \cup {Signature(key, h)}
         /\ Signed(tx, key, h).sub = tx.sub
         /\ WellFormed(tx) /\ tx.est /\ h = tx.hash /\ key # "other"
              => WellFormed(Signed(tx, key, h))
<1>1. Signature(key, h) \in Signatures
  BY DEF Signature, Signatures
<1>2. /\ Signed(tx, key, h) \in Rows
      /\ Signed(tx, key, h).status = tx.status
      /\ Signed(tx, key, h).est = tx.est
      /\ Signed(tx, key, h).hash = tx.hash
      /\ Signed(tx, key, h).body = tx.body
      /\ Signed(tx, key, h).sigs = tx.sigs \cup {Signature(key, h)}
      /\ Signed(tx, key, h).sub = tx.sub
  BY <1>1 DEF Signed, Rows
<1>3. Signature(key, h).key = key /\ Signature(key, h).over = h
  BY DEF Signature
<1>4. QED
  BY <1>2, <1>3 DEF WellFormed

LEMMA EstimatedFacts ==
  ASSUME NEW tx \in Rows, NEW n \in Nonces
  PROVE  /\ Estimated(tx, n) \in Rows
         /\ Estimated(tx, n).status = "signing" /\ Estimated(tx, n).est = TRUE
         /\ Estimated(tx, n).hash = <<tx.body, n>> /\ <<tx.body, n>> \in Hashes
         /\ Estimated(tx, n).body = tx.body /\ Estimated(tx, n).sigs = tx.sigs
         /\ WellFormed(tx) /\ ~tx.est => WellFormed(Estimated(tx, n))
BY DEF Estimated, Rows, Hashes, Statuses, WellFormed, Gone

LEMMA SubmittedFacts ==
  ASSUME NEW tx \in Rows, tx.status = "signing", WellFormed(tx)
  PROVE  /\ Submitted(tx) \in Rows /\ WellFormed(Submitted(tx))
         /\ Submitted(tx).status = "pending" /\ Submitted(tx).est = tx.est
         /\ Submitted(tx).hash = tx.hash /\ Submitted(tx).sub = tx.hash
BY DEF Submitted, Rows, Statuses, WellFormed, Gone, Sent

LEMMA ResetFacts ==
  ASSUME NEW tx \in Rows
  PROVE  /\ WasReset(tx) \in Rows /\ WellFormed(WasReset(tx))
         /\ WasReset(tx).status = "draft" /\ WasReset(tx).est = FALSE
BY DEF WasReset, Rows, Statuses, WellFormed, Gone

LEMMA StatusFacts ==
  ASSUME NEW tx \in Rows, NEW st \in Statuses \cup Gone
  PROVE  /\ [tx EXCEPT !.status = st] \in Rows
         /\ [tx EXCEPT !.status = st].status = st
         /\ [tx EXCEPT !.status = st].est = tx.est
         /\ [tx EXCEPT !.status = st].hash = tx.hash
         /\ [tx EXCEPT !.status = st].body = tx.body
         /\ [tx EXCEPT !.status = st].sigs = tx.sigs
         /\ [tx EXCEPT !.status = st].sub = tx.sub
         /\ WellFormed(tx) /\ (st \in {"draft"} \cup Gone <=> ~tx.est)
              => WellFormed([tx EXCEPT !.status = st])
BY DEF Rows, WellFormed

\* A second status takes the place of the first.
LEMMA StatusTwice ==
  ASSUME NEW tx \in Rows, NEW st \in Statuses \cup Gone, NEW nd \in Statuses \cup Gone
  PROVE  [[tx EXCEPT !.status = st] EXCEPT !.status = nd] = [tx EXCEPT !.status = nd]
BY DEF Rows

\* The status the screen shows, of a transaction that exists.
LEMMA ScreenStatus ==
  ASSUME NEW tx \in Rows, tx.status \notin Gone
  PROVE  StatusOf(tx) \in ScreenStatuses
<1>1. DefaultStatus \in ScreenStatuses /\ "ready" \in ScreenStatuses
  BY DEF DefaultStatus, ScreenStatuses
<1>2. CASE tx.status = "draft"
  BY <1>1, <1>2 DEF StatusOf
<1>3. CASE tx.status = "signing"
  BY <1>1, <1>3 DEF StatusOf
<1>4. CASE tx.status \notin {"draft", "signing"}
  BY <1>4 DEF StatusOf, ScreenStatuses, Rows
<1>5. QED
  BY <1>2, <1>3, <1>4

-----------------------------------------------------------------------------
(* What the parts of a step do to screens and tasks *)

ScreenRecords ==
    [tx : Ids \cup {NoId}, st : ScreenStatuses, shown : Bodies, enabled : BOOLEAN,
     fee : BOOLEAN, waiting : BOOLEAN, unlocking : BOOLEAN]
TaskRecords ==
    [pc : Positions, vc : 0 .. MaxScreens, action : {"request", "submit"},
     id : Ids \cup {NoId}, copy : Rows, st : ScreenStatuses]

LEMMA NoScreenFacts ==
  /\ NoScreen \in ScreenRecords
  /\ NoScreen.tx = NoId /\ NoScreen.fee = FALSE /\ NoScreen.waiting = FALSE
  /\ NoScreen.unlocking = FALSE /\ NoScreen.enabled = FALSE
<1>1. (CHOOSE b \in Bodies : TRUE) \in Bodies
  BY LifecycleAssumption DEF Bodies
<1>2. QED
  BY <1>1 DEF NoScreen, ScreenRecords, ScreenStatuses

LEMMA IdleFacts ==
  /\ IdleTask \in TaskRecords
  /\ IdleTask.pc = "idle" /\ IdleTask.id = NoId /\ IdleTask.copy = AbsentRow
BY AbsentFacts, LifecycleAssumption DEF IdleTask, TaskRecords, Positions, ScreenStatuses

LEMMA SpawnFacts ==
  ASSUME TypeOK, NEW v \in Screens, NEW action \in {"request", "submit"}, Spawns(v, action)
  PROVE  \E k \in Tasks :
            /\ tasks[k].pc = "idle"
            /\ tasks' \in [Tasks -> TaskRecords]
            /\ tasks'[k].pc = "start" /\ tasks'[k].vc = v /\ tasks'[k].id = NoId
            /\ tasks'[k].copy = AbsentRow
            /\ \A l \in Tasks \ {k} : tasks'[l] = tasks[l]
<1>1. PICK k \in Tasks : /\ Free(k)
                         /\ tasks' = [tasks EXCEPT ![k] = [IdleTask EXCEPT
                                         !.pc = "start", !.vc = v, !.action = action]]
  BY DEF Spawns
<1> DEFINE t == [IdleTask EXCEPT !.pc = "start", !.vc = v, !.action = action]
<1>2. v \in 0 .. MaxScreens
  BY LifecycleAssumption DEF Screens
<1>3. /\ t \in TaskRecords /\ t.pc = "start" /\ t.vc = v /\ t.id = NoId
      /\ t.copy = AbsentRow
  BY <1>2, IdleFacts DEF TaskRecords, Positions
<1>4. tasks \in [Tasks -> TaskRecords]
  BY DEF TypeOK, TaskRecords
<1> HIDE DEF t
<1>5. tasks' = [tasks EXCEPT ![k] = t]
  BY <1>1 DEF t
<1>6. QED
  BY <1>1, <1>3, <1>4, <1>5 DEF Free

LEMMA GoesFacts ==
  ASSUME TypeOK, NEW k \in Tasks, NEW pc \in Positions, Goes(k, pc)
  PROVE  /\ tasks' \in [Tasks -> TaskRecords]
         /\ tasks'[k].pc = pc /\ tasks'[k].vc = tasks[k].vc /\ tasks'[k].id = tasks[k].id
         /\ tasks'[k].copy = tasks[k].copy
         /\ \A l \in Tasks \ {k} : tasks'[l] = tasks[l]
BY DEF TypeOK, TaskRecords, Goes

LEMMA EndFacts ==
  ASSUME TypeOK, NEW k \in Tasks, tasks' = [tasks EXCEPT ![k] = IdleTask]
  PROVE  /\ tasks' \in [Tasks -> TaskRecords]
         /\ tasks'[k].pc = "idle" /\ tasks'[k].id = NoId
         /\ tasks'[k].copy = AbsentRow
         /\ \A l \in Tasks \ {k} : tasks'[l] = tasks[l]
BY IdleFacts DEF TypeOK, TaskRecords

LEMMA ReturnsFacts ==
  ASSUME TypeOK, NEW k \in Tasks, NEW pc \in Positions, NEW i \in Ids, NEW tx \in Rows,
         tx.status \notin Gone, Returns(k, pc, i, tx)
  PROVE  /\ tasks' \in [Tasks -> TaskRecords]
         /\ tasks'[k].pc = pc /\ tasks'[k].vc = tasks[k].vc /\ tasks'[k].id = i
         /\ tasks'[k].copy = AbsentRow
         /\ \A l \in Tasks \ {k} : tasks'[l] = tasks[l]
<1> DEFINE t == [tasks[k] EXCEPT !.pc = pc, !.id = i, !.copy = AbsentRow, !.st = StatusOf(tx)]
<1>1. tasks \in [Tasks -> TaskRecords] /\ StatusOf(tx) \in ScreenStatuses
  BY ScreenStatus DEF TypeOK, TaskRecords
<1>2. /\ t \in TaskRecords /\ t.pc = pc /\ t.vc = tasks[k].vc /\ t.id = i
      /\ t.copy = AbsentRow
  BY <1>1, AbsentFacts DEF TaskRecords
<1>3. tasks' = [tasks EXCEPT ![k] = t]
  BY <1>1 DEF Returns
<1> HIDE DEF t
<1>4. QED
  BY <1>1, <1>2, <1>3

LEMMA WaitsFacts ==
  ASSUME TypeOK, NEW k \in Tasks, NEW pc \in Positions, NEW i \in Ids, NEW tx \in Rows,
         Waits(k, pc, i, tx)
  PROVE  /\ tasks' \in [Tasks -> TaskRecords]
         /\ tasks'[k].pc = pc /\ tasks'[k].vc = tasks[k].vc /\ tasks'[k].id = i
         /\ tasks'[k].copy = tx
         /\ \A l \in Tasks \ {k} : tasks'[l] = tasks[l]
<1> DEFINE t == [tasks[k] EXCEPT !.pc = pc, !.id = i, !.copy = tx]
<1>1. tasks \in [Tasks -> TaskRecords]
  BY DEF TypeOK, TaskRecords
<1>2. t \in TaskRecords /\ t.pc = pc /\ t.vc = tasks[k].vc /\ t.id = i /\ t.copy = tx
  BY <1>1 DEF TaskRecords
<1>3. tasks' = [tasks EXCEPT ![k] = t]
  BY <1>1 DEF Waits
<1> HIDE DEF t
<1>4. QED
  BY <1>1, <1>2, <1>3

LEMMA RestartFacts ==
  ASSUME Restarted
  PROVE  /\ review' \in [Screens -> ScreenRecords] /\ \A v \in Screens : review'[v] = NoScreen
         /\ tasks' \in [Tasks -> TaskRecords] /\ \A k \in Tasks : tasks'[k] = IdleTask
         /\ poll' \in [Pollers -> [Ids -> Rows]]
         /\ \A p \in Pollers, i \in Ids : poll'[p][i] = AbsentRow
         /\ opened' = 0 /\ top' = 0 /\ input' = NoId
BY NoScreenFacts, IdleFacts, AbsentFacts DEF Restarted, NoPoll

LEMMA OpensFacts ==
  ASSUME TypeOK, NEW i \in Ids, NEW tx \in Rows, tx.status \notin Gone, Opens(i, tx)
  PROVE  /\ opened' = opened + 1 /\ top' = opened + 1 /\ opened + 1 \in Screens
         /\ review' \in [Screens -> ScreenRecords]
         /\ review'[opened + 1].tx = i /\ review'[opened + 1].waiting = TRUE
         /\ review'[opened + 1].fee = FALSE /\ review'[opened + 1].enabled = FALSE
         /\ review'[opened + 1].unlocking = FALSE
         /\ \A v \in Screens \ {opened + 1} : review'[v] = review[v]
<1> DEFINE r == [NoScreen EXCEPT !.tx = i, !.st = StatusOf(tx), !.shown = tx.body,
                                 !.waiting = TRUE]
<1>1. /\ r \in ScreenRecords /\ r.tx = i /\ r.waiting = TRUE /\ r.fee = FALSE
      /\ r.enabled = FALSE /\ r.unlocking = FALSE
  BY NoScreenFacts, ScreenStatus DEF ScreenRecords, Rows
<1>2. opened + 1 \in Screens
  BY LifecycleAssumption DEF Opens, TypeOK, Screens
<1>3. review \in [Screens -> ScreenRecords]
  BY DEF TypeOK, ScreenRecords
<1> HIDE DEF r
<1>4. review' = [review EXCEPT ![opened + 1] = r] /\ opened' = opened + 1 /\ top' = opened + 1
  BY DEF Opens, r
<1>5. QED
  BY <1>1, <1>2, <1>3, <1>4

\* A message's transaction goes to the screen on top, to a new one or nowhere.
LEMMA DeliveredFacts ==
  ASSUME TypeOK, NEW i \in Ids, NEW tx \in Rows, tx.status \notin Gone, Delivered(i, tx)
  PROVE  /\ review' \in [Screens -> ScreenRecords]
         /\ \/ opened' = opened /\ top' = top
            \/ opened' = opened + 1 /\ top' = opened + 1
         /\ \A v \in Screens :
               \/ review'[v] = review[v]
               \/ /\ v = top /\ top' = top /\ review'[v].tx = i
                  /\ review'[v].enabled = review[v].fee /\ review'[v].fee = review[v].fee
                  /\ review'[v].waiting = review[v].waiting
                  /\ review'[v].unlocking = review[v].unlocking
               \/ /\ v = opened + 1 /\ opened' = opened + 1 /\ review'[v].tx = i
                  /\ review'[v].fee = FALSE /\ review'[v].enabled = FALSE
                  /\ review'[v].unlocking = FALSE
         /\ top' = 0 \/ (top' \in Screens /\ review'[top'].tx = i)
         /\ opened' = opened + 1 => opened + 1 \in Screens
<1>0. /\ review \in [Screens -> ScreenRecords] /\ (top # 0 => top \in Screens)
      /\ StatusOf(tx) \in ScreenStatuses /\ opened \in Nat
  BY ScreenStatus, LifecycleAssumption DEF TypeOK, ScreenRecords, Screens
<1>1. CASE top # 0
  <2> DEFINE r == [review[top] EXCEPT !.tx = i, !.st = StatusOf(tx),
                                      !.enabled = review[top].fee]
  <2>1. /\ r \in ScreenRecords /\ r.tx = i /\ r.enabled = review[top].fee
        /\ r.fee = review[top].fee /\ r.waiting = review[top].waiting
        /\ r.unlocking = review[top].unlocking
    BY <1>0, <1>1 DEF ScreenRecords
  <2>2. review' = [review EXCEPT ![top] = r] /\ UNCHANGED <<opened, top>>
    BY <1>0, <1>1 DEF Delivered
  <2> HIDE DEF r
  <2>3. QED
    BY <1>0, <1>1, <2>1, <2>2
<1>2. CASE top = 0 /\ tx.status # "rejected"
  BY <1>2, OpensFacts DEF Delivered
<1>3. CASE top = 0 /\ tx.status = "rejected"
  BY <1>0, <1>3 DEF Delivered
<1>4. QED
  BY <1>1, <1>2, <1>3

-----------------------------------------------------------------------------
(* The steps, as far as the invariants tell them apart *)

IInv ==
    /\ TypeOK /\ RowInv /\ ScreenInv /\ TaskInv /\ EstimatedInv /\ QuietInv
    /\ OnceInv /\ CopyInv /\ RelayInv

OneRow(i) == rows' \in [Ids -> Rows] /\ \A j \in Ids \ {i} : rows'[j] = rows[j]
OneScreen(v) ==
    review' \in [Screens -> ScreenRecords] /\ \A w \in Screens \ {v} : review'[w] = review[w]
OneTask(k) ==
    tasks' \in [Tasks -> TaskRecords] /\ \A l \in Tasks \ {k} : tasks'[l] = tasks[l]
SameExcept(v, fields) ==
    \A f \in {"tx", "st", "fee", "enabled", "waiting", "unlocking"} \ fields :
        review'[v][f] = review[v][f]
Spawned(k, v) ==
    /\ tasks[k].pc = "idle" /\ OneTask(k)
    /\ tasks'[k].pc = "start" /\ tasks'[k].vc = v /\ tasks'[k].id = NoId
    /\ tasks'[k].copy = AbsentRow

\* The process ends.
Restarts == Restarted /\ UNCHANGED <<rows, relay, receipts, resets>>

\* The user enters a transaction.
Enters(i) ==
    /\ rows[i].status = "absent" /\ OneRow(i)
    /\ rows'[i].status = "draft" /\ WellFormed(rows'[i])
    /\ opened' = opened + 1 /\ top' = opened + 1 /\ opened + 1 \in Screens
    /\ OneScreen(opened + 1)
    /\ review'[opened + 1].tx = i
    /\ review'[opened + 1].fee = FALSE /\ review'[opened + 1].enabled = FALSE
    /\ review'[opened + 1].unlocking = FALSE
    /\ input' = i
    /\ UNCHANGED <<tasks, poll, relay, receipts, resets>>

\* The user leaves the send screen.
Removes ==
    /\ input \in Ids /\ OneRow(input) /\ input' = NoId
    /\ \/ rows'[input] = rows[input]
       \/ rows[input].status = "draft" /\ rows'[input].status = "removed"
          /\ WellFormed(rows'[input])
    /\ UNCHANGED <<review, opened, top, tasks, poll, relay, receipts, resets>>

\* A screen is popped or its scheduler finds it gone.
Forgets(v) ==
    /\ OneScreen(v)
    /\ \/ review'[v] = review[v]
       \/ review'[v] = NoScreen /\ ~InUse(v)
    /\ top' \in {0, top} /\ (v = top => top' = 0)
    /\ UNCHANGED <<rows, opened, input, tasks, poll, relay, receipts, resets>>

\* A tap that starts no task.
Taps(v) ==
    /\ OneScreen(v)
    /\ \/ Tappable(v) /\ review[v].st = "ready" /\ review'[v].unlocking = TRUE
          /\ SameExcept(v, {"unlocking"})
       \/ review[v].unlocking /\ review'[v].unlocking = FALSE
          /\ SameExcept(v, {"unlocking"})
       \/ Tappable(v) /\ review[v].st \notin {"rejected", "ready"}
          /\ review'[v].waiting = TRUE /\ SameExcept(v, {"waiting"})
    /\ UNCHANGED <<rows, opened, top, input, tasks, poll, relay, receipts, resets>>

\* A tap, the unlock screen or the scheduler starts one.
Starts(v) ==
    /\ OneScreen(v) /\ review'[v].enabled = FALSE
    /\ \E k \in Tasks : Spawned(k, v)
    /\ \/ Tappable(v) /\ review[v].st \in {"ready", "rejected"}
          /\ SameExcept(v, {"enabled"})
       \/ review[v].unlocking /\ review'[v].unlocking = FALSE
          /\ SameExcept(v, {"enabled", "unlocking"})
       \/ review[v].waiting /\ review'[v].waiting = FALSE
          /\ SameExcept(v, {"enabled", "waiting"})
    /\ UNCHANGED <<opened, top, input, poll, relay, receipts>>
    /\ \/ UNCHANGED <<rows, resets>>
       \/ \E i \in Ids :
             /\ v = top /\ i = review[v].tx /\ CanReset(rows[i]) /\ OneRow(i)
             /\ rows'[i].status = "draft" /\ WellFormed(rows'[i])
             /\ resets' = resets \cup {i}

\* A message of the extension is shown.
Shows(i) ==
    /\ OneRow(i) /\ WellFormed(rows'[i])
    /\ rows'[i].status = "signing" \/ (HasExtension /\ rows'[i].status = "rejected")
    /\ rows[i].status = "absent"
          \/ (rows[i].status = "signing" /\ rows'[i].hash = rows[i].hash)
    /\ review' \in [Screens -> ScreenRecords]
    /\ \/ opened' = opened /\ top' = top
       \/ opened' = opened + 1 /\ top' = opened + 1 /\ opened + 1 \in Screens
    /\ \A v \in Screens :
          \/ review'[v] = review[v]
          \/ v = top /\ top' = top /\ review'[v].tx = i /\ review'[v].enabled = review[v].fee
             /\ SameExcept(v, {"tx", "st", "enabled"})
          \/ v = opened + 1 /\ opened' = opened + 1 /\ review'[v].tx = i
             /\ review'[v].fee = FALSE /\ review'[v].enabled = FALSE
             /\ review'[v].unlocking = FALSE
    /\ top' = 0 \/ (top' \in Screens /\ review'[top'].tx = i)
    /\ UNCHANGED <<input, tasks, poll, relay, receipts, resets>>

\* A task looks at the row of its screen or of the request it made.
Looks(k, i) ==
    /\ OneTask(k) /\ tasks'[k].vc = tasks[k].vc /\ tasks'[k].id = i
    /\ rows[i].status \notin Gone
    /\ tasks[k].pc \in {"start", "act"} => i = TransactionOf(k)
    /\ tasks[k].pc = "notifying" => i = tasks[k].id
    /\ \/ tasks[k].pc = "start" /\ rows[i].est
          /\ tasks'[k].pc = "estimated" /\ tasks'[k].copy = AbsentRow
       \/ tasks[k].pc = "start" /\ ~rows[i].est
          /\ tasks'[k].pc = "estimating" /\ tasks'[k].copy = rows[i]
       \/ tasks[k].pc \in {"act", "notifying"}
          /\ tasks'[k].pc = "acted" /\ tasks'[k].copy = AbsentRow
       \/ tasks[k].pc = "act"
          /\ tasks'[k].pc = "notifying" /\ tasks'[k].copy = rows[i] /\ rows[i].hash \in Hashes
       \/ tasks[k].pc \in {"act", "notifying"}
          /\ tasks'[k].pc = "relaying" /\ tasks'[k].copy.hash = rows[i].hash
          /\ tasks'[k].copy.est /\ WellFormed(tasks'[k].copy)
          /\ (\E g \in tasks'[k].copy.sigs : g.key = "device")
          /\ (HasExtension => \E g \in tasks'[k].copy.sigs : g.key = "extension")
    /\ UNCHANGED <<rows, ui, poll, relay, receipts, resets>>

\* A task gives up.
GivesUp(k) ==
    /\ OneTask(k) /\ tasks'[k].vc = tasks[k].vc /\ tasks'[k].id = tasks[k].id
    /\ tasks'[k].copy = tasks[k].copy /\ tasks'[k].pc = "failed"
    /\ tasks[k].pc \in Holding \cup {"estimating"}
    /\ UNCHANGED <<rows, ui, poll, relay, receipts, resets>>

\* A task saves the estimate.
Estimates(k) ==
    /\ tasks[k].pc = "estimating" /\ OneRow(tasks[k].id)
    /\ rows'[tasks[k].id].status = "signing" /\ WellFormed(rows'[tasks[k].id])
    /\ OneTask(k) /\ tasks'[k].vc = tasks[k].vc /\ tasks'[k].id = tasks[k].id
    /\ tasks'[k].copy = AbsentRow /\ tasks'[k].pc = "estimated"
    /\ UNCHANGED <<ui, poll, relay, receipts, resets>>

\* A task assigns what it has to its screen.
Assigns(k) ==
    /\ \/ tasks[k].pc = "estimated" /\ tasks'[k].pc = "act"
       \/ tasks[k].pc = "acted" /\ tasks'[k].pc = "showing"
    /\ OneScreen(tasks[k].vc) /\ review'[tasks[k].vc].tx = tasks[k].id
    /\ SameExcept(tasks[k].vc, {"tx", "st"})
    /\ OneTask(k) /\ tasks'[k].vc = tasks[k].vc /\ tasks'[k].id = tasks[k].id
    /\ tasks'[k].copy = tasks[k].copy
    /\ UNCHANGED <<rows, opened, top, input, poll, relay, receipts, resets>>

\* The relay accepts what a task submitted.
Accepts(k) ==
    /\ tasks[k].pc = "relaying"
    /\ \A s \in relay : s.hash # tasks[k].copy.hash
    /\ \E s \in relay' :
          /\ relay' = relay \cup {s}
          /\ s.id = tasks[k].id /\ s.hash = tasks[k].copy.hash /\ s.sigs = tasks[k].copy.sigs
    /\ OneTask(k) /\ tasks'[k].vc = tasks[k].vc /\ tasks'[k].id = tasks[k].id
    /\ tasks'[k].copy = tasks[k].copy /\ tasks'[k].pc = "accepted"
    /\ UNCHANGED <<rows, ui, poll, receipts, resets>>

\* A task saves the pending row.
Records(k) ==
    /\ tasks[k].pc = "accepted" /\ OneRow(tasks[k].id)
    /\ rows'[tasks[k].id].status = "pending" /\ WellFormed(rows'[tasks[k].id])
    /\ rows'[tasks[k].id].hash = tasks[k].copy.hash
    /\ rows'[tasks[k].id].sub = tasks[k].copy.hash
    /\ OneTask(k) /\ tasks'[k].vc = tasks[k].vc /\ tasks'[k].id = tasks[k].id
    /\ tasks'[k].copy = AbsentRow /\ tasks'[k].pc = "acted"
    /\ UNCHANGED <<ui, poll, relay, receipts, resets>>

\* A task ends, on the main thread.
Ends(k) ==
    /\ \/ tasks[k].pc = "showing" /\ review'[tasks[k].vc].fee = TRUE
       \/ tasks[k].pc = "failed" /\ review'[tasks[k].vc].fee = review[tasks[k].vc].fee
    /\ OneScreen(tasks[k].vc) /\ review'[tasks[k].vc].enabled = TRUE
    /\ SameExcept(tasks[k].vc, {"fee", "enabled"})
    /\ OneTask(k) /\ tasks'[k].pc = "idle" /\ tasks'[k].id = NoId
    /\ tasks'[k].copy = AbsentRow
    /\ top' \in {0, top} /\ input' \in {NoId, input}
    /\ UNCHANGED <<rows, opened, poll, relay, receipts, resets>>

\* A loop takes a snapshot of sent rows, or drops what is left of it.
Snapshot(p) ==
    /\ poll' \in [Pollers -> [Ids -> Rows]]
    /\ \A q \in Pollers \ {p} : poll'[q] = poll[q]
    /\ \A i \in Ids : \/ poll'[p][i] = AbsentRow
                      \/ poll'[p][i] = rows[i] /\ rows[i].status \in Sent
    /\ UNCHANGED <<rows, ui, tasks, relay, receipts, resets>>

\* A loop looks for a receipt of its copy, and saves the copy if there is one.
Resolves(p, i) ==
    /\ poll[p][i].status # "absent" /\ OneRow(i)
    /\ \/ rows'[i] = rows[i]
       \/ /\ receipts[poll[p][i].sub] \in Processed
          /\ rows'[i] = [poll[p][i] EXCEPT !.status = receipts[poll[p][i].sub]]
    /\ poll' \in [Pollers -> [Ids -> Rows]]
    /\ \A q \in Pollers, j \in Ids :
          poll'[q][j] = IF q = p /\ j = i THEN AbsentRow ELSE poll[q][j]
    /\ UNCHANGED <<ui, tasks, relay, receipts, resets>>

\* A submitted transaction is mined.
Mined(h) ==
    /\ receipts[h] = "none" /\ receipts' \in [Hashes -> {"none"} \cup Processed]
    /\ \A g \in Hashes \ {h} : receipts'[g] = receipts[g]
    /\ \E s \in relay : s.hash = h
    /\ UNCHANGED <<rows, ui, tasks, poll, relay, resets>>

Step ==
    \/ Restarts
    \/ \E i \in Ids : Enters(i)
    \/ Removes
    \/ \E v \in Screens : Forgets(v) \/ Taps(v) \/ Starts(v)
    \/ \E i \in Ids : Shows(i)
    \/ \E k \in Tasks, i \in Ids : Looks(k, i)
    \/ \E k \in Tasks :
          GivesUp(k) \/ Estimates(k) \/ Assigns(k) \/ Accepts(k) \/ Records(k) \/ Ends(k)
    \/ \E p \in Pollers : Snapshot(p)
    \/ \E p \in Pollers, i \in Ids : Resolves(p, i)
    \/ \E h \in Hashes : Mined(h)

-----------------------------------------------------------------------------
(* Every step of Next is one of these *)

\* The records behind the type invariant, and where ids and screens lie.
LEMMA Basics ==
  ASSUME TypeOK
  PROVE  /\ rows \in [Ids -> Rows]
         /\ review \in [Screens -> ScreenRecords] /\ tasks \in [Tasks -> TaskRecords]
         /\ poll \in [Pollers -> [Ids -> Rows]]
         /\ opened \in Nat /\ opened <= MaxScreens /\ top \in {0, opened}
         /\ \A v \in 1 .. opened : v \in Screens
         /\ Screens \subseteq Nat \ {0}
         /\ NoId \notin Ids
         /\ \A i \in Ids : rows[i] \in Rows
         /\ \A k \in Tasks : tasks[k].copy \in Rows /\ tasks[k].id \in Ids \cup {NoId}
         /\ \A v \in Screens : review[v].tx \in Ids \cup {NoId}
BY LifecycleAssumption DEF TypeOK, ScreenRecords, TaskRecords, Screens

LEMMA TrapStep ==
  ASSUME NEW name, Trap(name)
  PROVE  Step
BY DEF Trap, outside, Restarts, Step

LEMMA EntersStep ==
  ASSUME IInv, NEW i \in Ids, NEW b \in OwnBodies, ProceedToSigning(i, b)
  PROVE  Enters(i)
<1>1. /\ Draft(b) \in Rows /\ WellFormed(Draft(b)) /\ Draft(b).status = "draft"
      /\ "draft" \notin Gone
  BY DraftFacts DEF Bodies, Gone
<1>2. rows' \in [Ids -> Rows] /\ rows'[i] = Draft(b) /\ \A j \in Ids \ {i} : rows'[j] = rows[j]
  BY <1>1, Basics DEF IInv, ProceedToSigning
<1>3. Opens(i, Draft(b)) /\ rows[i].status = "absent" /\ input' = i
      /\ UNCHANGED <<tasks, poll, relay, receipts, resets>>
  BY DEF ProceedToSigning, Fresh, outside, counters
<1>4. QED
  BY <1>1, <1>2, <1>3, OpensFacts DEF IInv, Enters, OneRow, OneScreen

LEMMA RemovesStep ==
  ASSUME IInv, LeaveInput
  PROVE  Removes
<1> DEFINE st == IF rows[input].status = "draft" THEN "removed" ELSE rows[input].status
<1>1. input \in Ids /\ rows[input] \in Rows /\ WellFormed(rows[input])
  BY Basics DEF IInv, LeaveInput, TypeOK, RowInv
<1>2. st \in Statuses \cup Gone
  BY <1>1 DEF Rows, Gone
<1>3. rows' = [rows EXCEPT ![input] = [rows[input] EXCEPT !.status = st]]
  BY <1>1, Basics DEF IInv, LeaveInput
<1>4. OneRow(input) /\ rows'[input] = [rows[input] EXCEPT !.status = st]
  BY <1>1, <1>2, <1>3, StatusFacts, Basics DEF IInv, OneRow
<1>5. CASE rows[input].status = "draft"
  BY <1>1, <1>2, <1>4, <1>5, StatusFacts
  DEF LeaveInput, Removes, outside, counters, WellFormed, Gone
<1>6. CASE rows[input].status # "draft"
  <2>1. rows'[input] = rows[input]
    BY <1>1, <1>4, <1>6 DEF Rows
  <2>2. QED
    BY <1>1, <1>4, <2>1 DEF LeaveInput, Removes, outside, counters
<1>7. QED
  BY <1>5, <1>6

LEMMA ForgetsStep ==
  ASSUME IInv, Back
  PROVE  \E v \in Screens : Forgets(v)
<1>1. top \in Screens /\ top # 0
  BY Basics, LifecycleAssumption DEF IInv, Back, Screens
<1>2. OneScreen(top) /\ review'[top] \in {review[top], NoScreen}
      /\ (InUse(top) => review'[top] = review[top])
  BY <1>1, Basics, NoScreenFacts DEF IInv, Back, OneScreen
<1>3. QED
  BY <1>1, <1>2 DEF Back, Forgets, outside, counters

\* An update of some fields of one screen.
LEMMA ScreenFacts ==
  ASSUME TypeOK, NEW v \in Screens, NEW r \in ScreenRecords,
         review' = [review EXCEPT ![v] = r]
  PROVE  OneScreen(v) /\ review'[v] = r
BY Basics DEF OneScreen

LEMMA TapsStep ==
  ASSUME IInv, NEW v \in Screens, TapReady(v) \/ Unlocked(v) \/ TapResend(v)
  PROVE  Taps(v) \/ Starts(v)
<1>0. TypeOK /\ review[v] \in ScreenRecords /\ review \in [Screens -> ScreenRecords]
  BY Basics DEF IInv
<1>1. ASSUME NEW f \in {"enabled", "waiting", "unlocking"}, NEW b \in BOOLEAN,
             review' = [review EXCEPT ![v][f] = b]
      PROVE  OneScreen(v) /\ review'[v][f] = b /\ SameExcept(v, {f})
  <2>1. CASE f = "enabled"
    BY <1>0, <1>1, <2>1 DEF ScreenRecords, OneScreen, SameExcept
  <2>2. CASE f = "waiting"
    BY <1>0, <1>1, <2>2 DEF ScreenRecords, OneScreen, SameExcept
  <2>3. CASE f = "unlocking"
    BY <1>0, <1>1, <2>3 DEF ScreenRecords, OneScreen, SameExcept
  <2>4. QED
    BY <2>1, <2>2, <2>3
<1>2. CASE TapReady(v)
  <2>1. CASE Spawns(v, "submit") /\ review' = [review EXCEPT ![v].enabled = FALSE]
    BY <1>0, <1>1, <1>2, <2>1, SpawnFacts
    DEF TapReady, Starts, Spawned, OneTask, outside, counters
  <2>2. CASE review' = [review EXCEPT ![v].unlocking = TRUE] /\ UNCHANGED tasks
    BY <1>0, <1>1, <1>2, <2>2 DEF TapReady, Taps, outside, counters
  <2>3. QED
    BY <1>2, <2>1, <2>2 DEF TapReady
<1>3. CASE Unlocked(v)
  <2>1. CASE /\ Spawns(v, "submit")
             /\ review' = [review EXCEPT ![v].unlocking = FALSE, ![v].enabled = FALSE]
    <3> DEFINE r == [review[v] EXCEPT !.unlocking = FALSE, !.enabled = FALSE]
    <3>1. /\ r \in ScreenRecords /\ r.unlocking = FALSE /\ r.enabled = FALSE
          /\ \A f \in {"tx", "st", "fee", "waiting"} : r[f] = review[v][f]
      BY <1>0 DEF ScreenRecords
    <3>2. review' = [review EXCEPT ![v] = r]
      BY <1>0, <2>1
    <3> HIDE DEF r
    <3>3. OneScreen(v) /\ review'[v] = r
      BY <1>0, <3>1, <3>2, ScreenFacts
    <3>4. QED
      BY <1>0, <1>3, <2>1, <3>1, <3>3, SpawnFacts
      DEF Unlocked, Starts, Spawned, OneTask, SameExcept, outside, counters
  <2>2. CASE review' = [review EXCEPT ![v].unlocking = FALSE] /\ UNCHANGED tasks
    BY <1>0, <1>1, <1>3, <2>2 DEF Unlocked, Taps, outside, counters
  <2>3. QED
    BY <1>3, <2>1, <2>2 DEF Unlocked
<1>4. CASE TapResend(v)
  BY <1>0, <1>1, <1>4 DEF TapResend, Taps, outside, counters
<1>5. QED
  BY <1>2, <1>3, <1>4

LEMMA ScheduledStep ==
  ASSUME IInv, NEW v \in Screens, ScheduledRequest(v)
  PROVE  Forgets(v) \/ Starts(v)
<1>0. TypeOK /\ review[v] \in ScreenRecords /\ review \in [Screens -> ScreenRecords]
  BY Basics DEF IInv
<1>1. CASE v = top \/ InUse(v)
  <2> DEFINE r == [review[v] EXCEPT !.waiting = FALSE, !.enabled = FALSE]
  <2>1. /\ r \in ScreenRecords /\ r.waiting = FALSE /\ r.enabled = FALSE
        /\ \A f \in {"tx", "st", "fee", "unlocking"} : r[f] = review[v][f]
    BY <1>0 DEF ScreenRecords
  <2>2. review' = [review EXCEPT ![v] = r]
    BY <1>0, <1>1 DEF ScheduledRequest
  <2> HIDE DEF r
  <2>3. OneScreen(v) /\ review'[v] = r
    BY <1>0, <2>1, <2>2, ScreenFacts
  <2>4. QED
    BY <1>0, <1>1, <2>1, <2>3, SpawnFacts
    DEF ScheduledRequest, Starts, Spawned, OneTask, SameExcept, outside, counters
<1>2. CASE ~(v = top \/ InUse(v))
  <2>1. OneScreen(v) /\ review'[v] = NoScreen
    BY <1>0, <1>2, ScreenFacts, NoScreenFacts DEF ScheduledRequest
  <2>2. QED
    BY <1>2, <2>1 DEF ScheduledRequest, Forgets, outside, counters
<1>3. QED
  BY <1>1, <1>2

LEMMA ResetStep ==
  ASSUME IInv, NEW v \in Screens, TapRejected(v)
  PROVE  Step
<1>0. /\ TypeOK /\ review[v] \in ScreenRecords /\ review \in [Screens -> ScreenRecords]
      /\ v = top /\ v # 0
  BY Basics DEF IInv, TapRejected, Tappable
<1> DEFINE i == review[v].tx
<1>1. i \in Ids
  BY <1>0, Basics DEF IInv, ScreenInv
<1>2. CASE CanReset(rows[i])
  <2>0. review' = [review EXCEPT ![v].enabled = FALSE]
    BY <1>2 DEF TapRejected
  <2>1. OneScreen(v) /\ review'[v].enabled = FALSE /\ SameExcept(v, {"enabled"})
    BY <1>0, <2>0 DEF ScreenRecords, OneScreen, SameExcept
  <2>2. rows' = [rows EXCEPT ![i] = WasReset(rows[i])]
    BY <1>0, <1>1, <1>2, Basics DEF TapRejected
  <2>3. OneRow(i) /\ rows'[i].status = "draft" /\ WellFormed(rows'[i])
    BY <1>0, <1>1, <2>2, ResetFacts, Basics DEF OneRow
  <2>4. \E k \in Tasks : Spawned(k, v)
    BY <1>0, <1>2, SpawnFacts DEF TapRejected, Spawned, OneTask
  <2>5. Tappable(v) /\ review[v].st = "rejected" /\ resets' = resets \cup {i}
        /\ UNCHANGED <<opened, top, input, poll, relay, receipts>>
    BY <1>2 DEF TapRejected, outside
  <2> HIDE DEF i
  <2>6. Starts(v)
    BY <1>0, <1>1, <1>2, <2>1, <2>3, <2>4, <2>5 DEF Starts, i
  <2>7. QED
    BY <2>6 DEF Step
<1>3. CASE ~CanReset(rows[i])
  BY <1>3, TrapStep DEF TapRejected
<1>4. QED
  BY <1>2, <1>3

LEMMA ShowsStep ==
  ASSUME IInv, MessageStep
  PROVE  \E i \in Ids : Shows(i)
<1>0. TypeOK /\ rows \in [Ids -> Rows]
  BY Basics DEF IInv
<1>1. ASSUME NEW i \in Ids, NEW tx \in Rows, rows' = [rows EXCEPT ![i] = tx],
             WellFormed(tx), tx.status = "signing" \/ (HasExtension /\ tx.status = "rejected"),
             \/ rows[i].status = "absent"
             \/ rows[i].status = "signing" /\ tx.hash = rows[i].hash,
             Delivered(i, tx),
             UNCHANGED <<input, tasks, poll, relay, receipts, resets>>
      PROVE  Shows(i)
  <2>1. OneRow(i) /\ rows'[i] = tx
    BY <1>0, <1>1 DEF OneRow
  <2>2. tx.status \notin Gone
    BY <1>1 DEF Gone
  <2>3. QED
    BY <1>0, <1>1, <2>1, <2>2, DeliveredFacts DEF Shows, SameExcept
<1>2. ASSUME NEW key \in {"extension", "other"}, NEW h \in Hashes, ReceiveConfirmed(h, key)
      PROVE  \E i \in Ids : Shows(i)
  <2>1. PICK i \in Ids : /\ FoundSigning(i, h)
                         /\ rows' = [rows EXCEPT ![i] = Signed(rows[i], key, h)]
                         /\ Delivered(i, Signed(rows[i], key, h))
    BY <1>0, <1>2 DEF ReceiveConfirmed
  <2>2. key = "extension" /\ key \in Keys /\ rows[i] \in Rows /\ h \in Hashes \cup {NoHash}
    BY <1>0, <1>2 DEF ReceiveConfirmed, SenderIsExtension, Keys
  <2>3. WellFormed(rows[i]) /\ rows[i].est /\ rows[i].hash = h /\ rows[i].status = "signing"
    BY <2>1 DEF IInv, RowInv, FoundSigning, WellFormed, Gone
  <2>4. UNCHANGED <<input, tasks, poll, relay, receipts, resets>>
    BY <1>2 DEF ReceiveConfirmed, outside, counters
  <2>5. /\ Signed(rows[i], key, h) \in Rows /\ WellFormed(Signed(rows[i], key, h))
        /\ Signed(rows[i], key, h).status = "signing"
        /\ Signed(rows[i], key, h).hash = rows[i].hash
    BY <2>2, <2>3, SignedFacts
  <2>6. QED
    BY <1>1, <2>1, <2>3, <2>4, <2>5
<1>3. ASSUME NEW key \in {"extension", "other"}, NEW h \in Hashes, ReceiveRejected(h, key)
      PROVE  \E i \in Ids : Shows(i)
  <2>1. PICK i \in Ids : /\ FoundSigning(i, h)
                         /\ rows' = [rows EXCEPT ![i] = [rows[i] EXCEPT !.status = "rejected"]]
                         /\ Delivered(i, [rows[i] EXCEPT !.status = "rejected"])
    BY <1>0, <1>3 DEF ReceiveRejected
  <2>2. /\ HasExtension /\ rows[i] \in Rows /\ "rejected" \in Statuses \cup Gone
        /\ "rejected" \notin {"draft"} \cup Gone
    BY <1>0, <1>3 DEF ReceiveRejected, SenderIsExtension, Statuses, Gone
  <2>3. WellFormed(rows[i]) /\ rows[i].est /\ rows[i].status = "signing"
    BY <2>1 DEF IInv, RowInv, FoundSigning, WellFormed, Gone
  <2>4. UNCHANGED <<input, tasks, poll, relay, receipts, resets>>
    BY <1>3 DEF ReceiveRejected, outside, counters
  <2>5. QED
    BY <1>1, <2>1, <2>2, <2>3, <2>4, StatusFacts
<1>4. ASSUME NEW key \in {"extension", "other"}, NEW i \in Ids,
             NEW h \in SentBodies \X Nonces, ReceiveNew(i, h, key)
      PROVE  \E j \in Ids : Shows(j)
  <2> DEFINE d == Estimated(Draft(h[1]), h[2])
             tx == Signed(d, key, h)
  <2>1. /\ key = "extension" /\ key \in Keys /\ rows[i].status = "absent"
        /\ h[1] \in Bodies /\ h[2] \in Nonces /\ h = <<h[1], h[2]>> /\ h \in Hashes
    BY <1>4 DEF ReceiveNew, SenderIsExtension, Keys, Fresh, Bodies, Hashes
  <2>2. d \in Rows /\ WellFormed(d) /\ d.est /\ d.hash = h /\ d.status = "signing"
    <3>1. /\ Draft(h[1]) \in Rows /\ WellFormed(Draft(h[1])) /\ Draft(h[1]).est = FALSE
          /\ Draft(h[1]).body = h[1]
      BY <2>1, DraftFacts
    <3>2. /\ Estimated(Draft(h[1]), h[2]) \in Rows
          /\ WellFormed(Estimated(Draft(h[1]), h[2]))
          /\ Estimated(Draft(h[1]), h[2]).status = "signing"
          /\ Estimated(Draft(h[1]), h[2]).est = TRUE
          /\ Estimated(Draft(h[1]), h[2]).hash = <<Draft(h[1]).body, h[2]>>
      <4> HIDE DEF d, tx
      <4>1. h[2] \in Nonces
        BY <2>1
      <4>2. QED
        BY <3>1, <4>1, EstimatedFacts
    <3>3. QED
      BY <2>1, <3>1, <3>2
  <2> HIDE DEF d
  <2>3. tx \in Rows /\ WellFormed(tx) /\ tx.status = "signing"
    BY <2>1, <2>2, SignedFacts
  <2>4. rows' = [rows EXCEPT ![i] = tx] /\ Delivered(i, tx)
    BY <1>4 DEF ReceiveNew, d
  <2>5. UNCHANGED <<input, tasks, poll, relay, receipts, resets>>
    BY <1>4 DEF ReceiveNew, outside, counters
  <2> HIDE DEF tx
  <2>6. QED
    BY <1>1, <2>1, <2>3, <2>4, <2>5
<1>5. ASSUME NEW h \in SentBodies \X Nonces, ReceiveKnown(h)
      PROVE  \E i \in Ids : Shows(i)
  <2>1. PICK i \in Ids : FoundSigning(i, h) /\ Delivered(i, rows[i])
    BY <1>5 DEF ReceiveKnown
  <2>2. rows' = [rows EXCEPT ![i] = rows[i]] /\ rows[i] \in Rows /\ WellFormed(rows[i])
        /\ rows[i].status = "signing"
    BY <1>0, <1>5, <2>1 DEF ReceiveKnown, IInv, RowInv, FoundSigning
  <2>3. UNCHANGED <<input, tasks, poll, relay, receipts, resets>>
    BY <1>5 DEF ReceiveKnown, outside, counters
  <2>4. QED
    BY <1>1, <2>1, <2>2, <2>3
<1>6. QED
  BY <1>2, <1>3, <1>4, <1>5 DEF MessageStep

\* A copy that is signed for the relay has every signature it needs.
LEMMA SignsStep ==
  ASSUME IInv, NEW k \in Tasks, NEW i \in Ids, rows[i].status \notin Gone,
         tasks[k].pc \in {"act", "notifying"},
         tasks[k].pc = "act" => i = TransactionOf(k),
         tasks[k].pc = "notifying" => i = tasks[k].id,
         Signs(k, i, rows[i])
  PROVE  Step
<1>0. TypeOK /\ rows[i] \in Rows /\ WellFormed(rows[i])
  BY Basics DEF IInv, RowInv
<1>1. CASE \/ HasExtension /\ ~SignedByExtension(rows[i])
           \/ ~SignedByDevice(rows[i]) /\ ~CanSign(rows[i])
  <2>1. \E name \in {"unsigned", "sign"} : Trap(name)
    BY <1>1 DEF Signs
  <2>2. QED
    BY <2>1, TrapStep
<1>2. CASE /\ HasExtension => SignedByExtension(rows[i])
           /\ SignedByDevice(rows[i]) \/ CanSign(rows[i])
  <2> DEFINE tx == IF SignedByDevice(rows[i]) THEN rows[i]
                   ELSE Signed(rows[i], "device", rows[i].hash)
  <2>1. rows[i].est
    <3>1. CASE HasExtension
      BY <1>0, <1>2, <3>1 DEF SignedByExtension, WellFormed
    <3>2. CASE ~HasExtension
      BY <3>2 DEF IInv, ScreenInv, EstimatedInv, EstimatedOK, Holding
    <3>3. QED
      BY <3>1, <3>2
  <2>2. rows[i].hash \in Hashes \cup {NoHash} /\ "device" \in Keys
    BY <1>0 DEF Rows, Keys
  <2>3. tx \in Rows /\ WellFormed(tx) /\ tx.hash = rows[i].hash /\ tx.est
        /\ rows[i].sigs \subseteq tx.sigs
    BY <1>0, <2>1, <2>2, SignedFacts
  <2>4. \E g \in tx.sigs : g.key = "device"
    <3>1. CASE SignedByDevice(rows[i])
      BY <3>1 DEF SignedByDevice
    <3>2. CASE ~SignedByDevice(rows[i])
      <4>1. Signature("device", rows[i].hash) \in tx.sigs
        BY <1>0, <2>2, <3>2, SignedFacts
      <4>2. Signature("device", rows[i].hash).key = "device"
        BY DEF Signature
      <4>3. QED
        BY <4>1, <4>2
    <3>3. QED
      BY <3>1, <3>2
  <2>5. HasExtension => \E g \in tx.sigs : g.key = "extension"
    <3>1. \A g \in rows[i].sigs : g.key \in {"device", "extension"}
      BY <1>0 DEF WellFormed, Rows, Signatures, Keys
    <3>2. QED
      BY <1>2, <2>3, <3>1 DEF SignedByExtension
  <2>6. Waits(k, "relaying", i, tx) /\ UNCHANGED <<rows, ui, poll, relay, receipts, resets>>
    BY <1>2 DEF Signs, UnchangedForTask, outside, counters
  <2> HIDE DEF tx
  <2>7. Looks(k, i)
    BY <1>0, <2>3, <2>4, <2>5, <2>6, WaitsFacts DEF Looks, OneTask, Positions
  <2>8. QED
    BY <2>7 DEF Step
<1>3. QED
  BY <1>1, <1>2

LEMMA LooksStep ==
  ASSUME IInv, NEW k \in Tasks,
         TaskStart(k) \/ ActRequest(k) \/ ActSubmit(k) \/ NotifyAnswers(k)
  PROVE  Step
<1> DEFINE i == IF tasks[k].pc = "notifying" THEN tasks[k].id ELSE TransactionOf(k)
<1>0. TypeOK /\ i \in Ids /\ rows[i] \in Rows
  <2>1. tasks[k].pc \in {"start", "act", "notifying"}
    BY DEF TaskStart, ActRequest, ActSubmit, NotifyAnswers, At
  <2>2. /\ tasks[k].vc \in 1 .. opened /\ TransactionOf(k) # NoId
        /\ tasks[k].pc = "notifying" => tasks[k].id # NoId
    BY <2>1 DEF IInv, TaskInv, TaskOK
  <2>3. QED
    BY <2>2, Basics DEF IInv, TransactionOf
<1>1. ASSUME NEW name, Trap(name) PROVE Step
  BY <1>1, TrapStep
<1>2. ASSUME Looks(k, i) PROVE Step
  BY <1>0, <1>2 DEF Step
<1>3. rows[i].hash = NoHash \/ rows[i].hash \in Hashes
  BY <1>0 DEF Rows
<1>4. CASE TaskStart(k)
  <2>0. tasks[k].pc = "start" /\ i = TransactionOf(k)
    BY <1>4 DEF TaskStart, At
  <2> HIDE DEF i
  <2>1. CASE Missing(i)
    BY <1>1, <1>4, <2>0, <2>1 DEF TaskStart
  <2>2. CASE ~Missing(i)
    <3>1. /\ IF rows[i].est THEN Returns(k, "estimated", i, rows[i])
                            ELSE Waits(k, "estimating", i, rows[i])
          /\ UNCHANGED <<rows, ui, poll, relay, receipts, resets>>
      BY <1>4, <2>0, <2>2 DEF TaskStart, UnchangedForTask, outside, counters
    <3>2. QED
      BY <1>0, <1>2, <2>0, <2>2, <3>1, ReturnsFacts, WaitsFacts
      DEF Looks, OneTask, Positions, Missing
  <2>3. QED
    BY <2>1, <2>2
<1>5. CASE ActRequest(k)
  <2>0. tasks[k].pc = "act" /\ i = TransactionOf(k)
    BY <1>5 DEF ActRequest, At
  <2> HIDE DEF i
  <2>1. CASE Missing(i) \/ (~Enough(rows[i]) /\ rows[i].hash = NoHash)
    <3>1. \E name \in {"find", "hash"} : Trap(name)
      BY <1>5, <2>0, <2>1 DEF ActRequest
    <3>2. QED
      BY <1>1, <3>1
  <2>2. CASE ~Missing(i) /\ (Enough(rows[i]) \/ rows[i].hash # NoHash)
    <3>1. /\ IF Enough(rows[i]) THEN Returns(k, "acted", i, rows[i])
                                ELSE Waits(k, "notifying", i, rows[i])
          /\ UNCHANGED <<rows, ui, poll, relay, receipts, resets>>
      BY <1>5, <2>0, <2>2 DEF ActRequest, UnchangedForTask, outside, counters
    <3>2. QED
      BY <1>0, <1>2, <1>3, <2>0, <2>2, <3>1, ReturnsFacts, WaitsFacts
      DEF Looks, OneTask, Positions, Missing
  <2>3. QED
    BY <2>1, <2>2
<1>6. CASE ActSubmit(k)
  <2>0. tasks[k].pc = "act" /\ i = TransactionOf(k)
    BY <1>6 DEF ActSubmit, At
  <2> HIDE DEF i
  <2> DEFINE request == rows[i].status = "draft" /\ ~Enough(rows[i])
  <2>1. CASE Missing(i) \/ (request /\ rows[i].hash = NoHash)
    <3>1. \E name \in {"find", "hash"} : Trap(name)
      BY <1>6, <2>0, <2>1 DEF ActSubmit
    <3>2. QED
      BY <1>1, <3>1
  <2>2. CASE ~Missing(i) /\ request /\ rows[i].hash # NoHash
    <3>1. /\ Waits(k, "notifying", i, rows[i])
          /\ UNCHANGED <<rows, ui, poll, relay, receipts, resets>>
      BY <1>6, <2>0, <2>2 DEF ActSubmit, UnchangedForTask, outside, counters
    <3>2. QED
      BY <1>0, <1>2, <1>3, <2>0, <2>2, <3>1, WaitsFacts
      DEF Looks, OneTask, Positions, Missing
  <2>3. CASE ~Missing(i) /\ ~request
    <3>1. Signs(k, i, rows[i])
      BY <1>6, <2>0, <2>3 DEF ActSubmit
    <3>2. QED
      BY <1>0, <2>0, <2>3, <3>1, SignsStep DEF Missing
  <2>4. QED
    BY <2>1, <2>2, <2>3
<1>7. CASE NotifyAnswers(k)
  <2>0. tasks[k].pc = "notifying" /\ i = tasks[k].id
    BY <1>7 DEF NotifyAnswers, At
  <2> HIDE DEF i
  <2>1. CASE Missing(i)
    BY <1>1, <1>7, <2>0, <2>1 DEF NotifyAnswers
  <2>2. CASE ~Missing(i) /\ tasks[k].action = "request"
    <3>1. /\ Returns(k, "acted", i, rows[i])
          /\ UNCHANGED <<rows, ui, poll, relay, receipts, resets>>
      BY <1>7, <2>0, <2>2 DEF NotifyAnswers, UnchangedForTask, outside, counters
    <3>2. QED
      BY <1>0, <1>2, <2>0, <2>2, <3>1, ReturnsFacts DEF Looks, OneTask, Positions, Missing
  <2>3. CASE ~Missing(i) /\ tasks[k].action # "request"
    <3>1. Signs(k, i, rows[i])
      BY <1>7, <2>0, <2>3 DEF NotifyAnswers
    <3>2. QED
      BY <1>0, <2>0, <2>3, <3>1, SignsStep DEF Missing
  <2>4. QED
    BY <2>1, <2>2, <2>3
<1>8. QED
  BY <1>4, <1>5, <1>6, <1>7

\* The relay's answer is saved, or the copy's status does not allow it.
LEMMA AnswersStep ==
  ASSUME IInv, NEW k \in Tasks, RelayAnswers(k)
  PROVE  Records(k) \/ Trap("setHash")
<1> DEFINE tx == Submitted(tasks[k].copy)
<1>0. /\ rows \in [Ids -> Rows] /\ tasks \in [Tasks -> TaskRecords] /\ TypeOK
      /\ tasks[k].pc = "accepted" /\ tasks[k].copy \in Rows /\ WellFormed(tasks[k].copy)
      /\ tasks[k].copy.est /\ tasks[k].id \in Ids
  BY Basics DEF RelayAnswers, At, IInv, RowInv, TaskInv, TaskOK
<1>1. CASE CanSign(tasks[k].copy)
  <2>1. tasks[k].copy.status = "signing"
    BY <1>0, <1>1 DEF CanSign, WellFormed
  <2>2. /\ tx \in Rows /\ WellFormed(tx) /\ tx.status = "pending"
        /\ tx.hash = tasks[k].copy.hash /\ tx.sub = tasks[k].copy.hash
    BY <1>0, <2>1, SubmittedFacts
  <2>3. /\ rows' = [rows EXCEPT ![tasks[k].id] = tx]
        /\ Returns(k, "acted", tasks[k].id, tx)
        /\ UNCHANGED <<ui, poll, relay, receipts, resets>>
    BY <1>1 DEF RelayAnswers, UnchangedForTask, outside, counters
  <2> HIDE DEF tx
  <2>4. OneRow(tasks[k].id) /\ rows'[tasks[k].id] = tx
    BY <1>0, <2>2, <2>3 DEF OneRow
  <2>5. QED
    BY <1>0, <2>2, <2>3, <2>4, ReturnsFacts DEF Records, OneTask, Positions, Gone
<1>2. CASE ~CanSign(tasks[k].copy)
  BY <1>2 DEF RelayAnswers
<1>3. QED
  BY <1>1, <1>2

LEMMA TaskSteps ==
  ASSUME IInv, NEW k \in Tasks, TaskStep(k)
  PROVE  Step
<1>0. /\ TypeOK /\ review \in [Screens -> ScreenRecords] /\ rows \in [Ids -> Rows]
      /\ tasks \in [Tasks -> TaskRecords] /\ tasks[k] \in TaskRecords
  BY Basics DEF IInv
<1>1. tasks[k].pc # "idle" =>
        /\ tasks[k].vc \in Screens /\ review[tasks[k].vc] \in ScreenRecords
        /\ review[tasks[k].vc].tx \in Ids
  BY Basics DEF IInv, TaskInv, TaskOK, TransactionOf
<1>2. tasks[k].pc \notin {"idle", "start"} => tasks[k].id \in Ids
  BY Basics DEF IInv, TaskInv, TaskOK
<1>3. CASE TaskStart(k) \/ ActRequest(k) \/ ActSubmit(k) \/ NotifyAnswers(k)
  BY <1>3, LooksStep
<1>4. ASSUME NEW from \in {"estimated", "acted"}, NEW to \in {"act", "showing"},
             <<from, to>> \in {<<"estimated", "act">>, <<"acted", "showing">>},
             AssignsTx(k, from, to)
      PROVE  Step
  <2> DEFINE v == tasks[k].vc
             r == [review[v] EXCEPT !.tx = tasks[k].id, !.st = tasks[k].st]
  <2>0. tasks[k].pc = from /\ Goes(k, to) /\ to \in Positions
        /\ UNCHANGED <<rows, opened, top, input, poll, relay, receipts, resets>>
    BY <1>4 DEF AssignsTx, At, Positions, outside, counters
  <2>1. /\ r \in ScreenRecords /\ r.tx = tasks[k].id
        /\ \A f \in {"fee", "enabled", "waiting", "unlocking"} : r[f] = review[v][f]
    BY <1>0, <1>1, <1>4, <2>0 DEF ScreenRecords, TaskRecords
  <2>2. review' = [review EXCEPT ![v] = r]
    BY <1>0, <1>1, <1>4, <2>0 DEF AssignsTx
  <2>3. v \in Screens
    BY <1>1, <1>4, <2>0
  <2> HIDE DEF v, r
  <2>4. OneScreen(v) /\ review'[v] = r
    BY <1>0, <2>1, <2>2, <2>3, ScreenFacts
  <2>5. OneScreen(v) /\ review'[v].tx = tasks[k].id /\ SameExcept(v, {"tx", "st"})
    BY <2>1, <2>4 DEF SameExcept
  <2>6. Assigns(k)
    BY <1>0, <1>4, <2>0, <2>5, GoesFacts DEF Assigns, OneTask, v
  <2>7. QED
    BY <2>6 DEF Step
<1>5. CASE TaskEstimated(k) \/ TaskActed(k)
  BY <1>4, <1>5 DEF TaskEstimated, TaskActed
<1>6. CASE TaskShows(k) \/ TaskFailed(k)
  <2> DEFINE v == tasks[k].vc
  <2>0. tasks[k].pc \in {"showing", "failed"} /\ v \in Screens
    BY <1>1, <1>6 DEF TaskShows, TaskFailed, At
  <2>1. CASE TaskShows(k)
    <3> DEFINE r == [review[v] EXCEPT !.fee = TRUE, !.enabled = TRUE]
    <3>1. /\ r \in ScreenRecords /\ r.fee = TRUE /\ r.enabled = TRUE
          /\ \A f \in {"tx", "st", "waiting", "unlocking"} : r[f] = review[v][f]
      BY <1>0, <1>1, <2>0 DEF ScreenRecords
    <3>2. review' = [review EXCEPT ![v] = r]
      BY <1>0, <1>1, <2>0, <2>1 DEF TaskShows
    <3>3. /\ tasks[k].pc = "showing" /\ tasks' = [tasks EXCEPT ![k] = IdleTask]
          /\ top' \in {0, top} /\ input' \in {NoId, input}
          /\ UNCHANGED <<rows, opened, poll, relay, receipts, resets>>
      BY <2>1 DEF TaskShows, At, outside, counters
    <3> HIDE DEF v, r
    <3>4. OneScreen(v) /\ review'[v] = r
      BY <1>0, <2>0, <3>1, <3>2, ScreenFacts
    <3>5. /\ OneScreen(v) /\ review'[v].enabled = TRUE /\ review'[v].fee = TRUE
          /\ SameExcept(v, {"fee", "enabled"})
      BY <3>1, <3>4 DEF SameExcept
    <3>6. Ends(k)
      BY <1>0, <3>3, <3>5, EndFacts DEF Ends, OneTask, v
    <3>7. QED
      BY <3>6 DEF Step
  <2>2. CASE TaskFailed(k)
    <3> DEFINE r == [review[v] EXCEPT !.enabled = TRUE]
    <3>1. /\ r \in ScreenRecords /\ r.enabled = TRUE
          /\ \A f \in {"tx", "st", "fee", "waiting", "unlocking"} : r[f] = review[v][f]
      BY <1>0, <1>1, <2>0 DEF ScreenRecords
    <3>2. review' = [review EXCEPT ![v] = r]
      BY <1>0, <1>1, <2>0, <2>2 DEF TaskFailed
    <3>3. /\ tasks[k].pc = "failed" /\ tasks' = [tasks EXCEPT ![k] = IdleTask]
          /\ top' \in {0, top} /\ input' \in {NoId, input}
          /\ UNCHANGED <<rows, opened, poll, relay, receipts, resets>>
      BY <2>2 DEF TaskFailed, At, outside, counters
    <3> HIDE DEF v, r
    <3>4. OneScreen(v) /\ review'[v] = r
      BY <1>0, <2>0, <3>1, <3>2, ScreenFacts
    <3>5. /\ OneScreen(v) /\ review'[v].enabled = TRUE /\ review'[v].fee = review[v].fee
          /\ SameExcept(v, {"fee", "enabled"})
      BY <3>1, <3>4 DEF SameExcept
    <3>6. Ends(k)
      BY <1>0, <3>3, <3>5, EndFacts DEF Ends, OneTask, v
    <3>7. QED
      BY <3>6 DEF Step
  <2>3. QED
    BY <1>6, <2>1, <2>2
<1>7. CASE TaskThrows(k) \/ RelayAnswerLost(k)
  <2>1. Goes(k, "failed") /\ tasks[k].pc \in Holding \cup {"estimating"}
        /\ UNCHANGED <<rows, ui, poll, relay, receipts, resets>>
    BY <1>7 DEF TaskThrows, RelayAnswerLost, At, Holding, UnchangedForTask, outside, counters
  <2>2. GivesUp(k)
    BY <1>0, <2>1, GoesFacts DEF GivesUp, OneTask, Positions
  <2>3. QED
    BY <2>2 DEF Step
<1>8. CASE RelayAccepts(k)
  <2> DEFINE s == [id |-> tasks[k].id, hash |-> tasks[k].copy.hash,
                   sigs |-> tasks[k].copy.sigs, shown |-> review[tasks[k].vc].shown]
  <2>1. /\ s.id = tasks[k].id /\ s.hash = tasks[k].copy.hash /\ s.sigs = tasks[k].copy.sigs
        /\ relay' = relay \cup {s}
    BY <1>8 DEF RelayAccepts
  <2>2. /\ tasks[k].pc = "relaying" /\ Goes(k, "accepted")
        /\ \A u \in relay : u.hash # tasks[k].copy.hash
        /\ UNCHANGED <<rows, ui, poll, receipts, resets>>
    BY <1>8 DEF RelayAccepts, At, counters
  <2> HIDE DEF s
  <2>3. Accepts(k)
    BY <1>0, <2>1, <2>2, GoesFacts DEF Accepts, OneTask, Positions
  <2>4. QED
    BY <2>3 DEF Step
<1>9. CASE RelayAnswers(k)
  <2>1. Records(k) \/ Trap("setHash")
    BY <1>9, AnswersStep
  <2>2. QED
    BY <2>1, TrapStep DEF Step
<1>10. ASSUME NEW n \in Nonces, EstimateAnswers(k, n) PROVE Step
  <2> DEFINE tx == Estimated(tasks[k].copy, n)
  <2>0. tasks[k].pc = "estimating" /\ tasks[k].copy \in Rows /\ WellFormed(tasks[k].copy)
        /\ ~tasks[k].copy.est /\ tasks[k].id \in Ids
    BY <1>2, <1>10, Basics DEF EstimateAnswers, At, IInv, RowInv, TaskInv, TaskOK
  <2>1. tx \in Rows /\ WellFormed(tx) /\ tx.status = "signing"
    BY <2>0, EstimatedFacts
  <2>2. /\ rows' = [rows EXCEPT ![tasks[k].id] = tx]
        /\ Returns(k, "estimated", tasks[k].id, tx)
        /\ UNCHANGED <<ui, poll, relay, receipts, resets>>
    BY <1>10 DEF EstimateAnswers, UnchangedForTask, outside, counters
  <2> HIDE DEF tx
  <2>3. OneRow(tasks[k].id) /\ rows'[tasks[k].id] = tx
    BY <1>0, <2>0, <2>1, <2>2 DEF OneRow
  <2>4. Estimates(k)
    BY <1>0, <2>0, <2>1, <2>2, <2>3, ReturnsFacts DEF Estimates, OneTask, Positions, Gone
  <2>5. QED
    BY <2>4 DEF Step
<1>11. QED
  BY <1>3, <1>5, <1>6, <1>7, <1>8, <1>9, <1>10 DEF TaskStep

LEMMA PollSteps ==
  ASSUME IInv, NEW p \in Pollers, PollStep(p)
  PROVE  Step
<1>0. TypeOK /\ rows \in [Ids -> Rows] /\ poll \in [Pollers -> [Ids -> Rows]]
      /\ AbsentRow \in Rows
  BY Basics, AbsentFacts DEF IInv
<1>1. ASSUME NEW statuses \in SUBSET Sent, PollBegins(p, statuses) PROVE Snapshot(p)
  BY <1>0, <1>1 DEF PollBegins, Snapshot, outside, counters
<1>2. ASSUME PollThrows(p) PROVE Snapshot(p)
  BY <1>0, <1>2 DEF PollThrows, Snapshot, NoPoll, outside, counters
<1>3. ASSUME NEW i \in Ids, PollLooks(p, i) PROVE Resolves(p, i)
  <2> DEFINE copy == poll[p][i]
             outcome == receipts[copy.sub]
  <2>1. copy.status # "absent" /\ copy \in Rows /\ copy.status \in Sent
    BY <1>0, <1>3 DEF PollLooks, IInv, RowInv
  <2>2. copy.sub \in Hashes /\ outcome \in {"none"} \cup Processed
    BY <2>1 DEF IInv, RowInv, Settled, TypeOK
  <2>3. Processed \subseteq Statuses \cup Gone /\ "none" \notin Processed
    BY DEF Statuses, Sent, Processed
  <2>4. OneRow(i) /\ \/ rows'[i] = rows[i]
                     \/ /\ outcome \in Processed
                        /\ rows'[i] = [copy EXCEPT !.status = outcome]
    <3>1. CASE outcome = "none"
      BY <1>0, <1>3, <3>1 DEF PollLooks, OneRow
    <3>2. CASE outcome \in Processed
      <4>1. [copy EXCEPT !.status = outcome] \in Rows
        BY <2>1, <2>3, <3>2, StatusFacts
      <4>2. rows' = [rows EXCEPT ![i] = [copy EXCEPT !.status = outcome]]
        BY <1>3, <2>3, <3>2 DEF PollLooks
      <4>3. QED
        BY <1>0, <3>2, <4>1, <4>2 DEF OneRow
    <3>3. QED
      BY <2>2, <3>1, <3>2
  <2>5. /\ poll' \in [Pollers -> [Ids -> Rows]]
        /\ \A q \in Pollers, j \in Ids :
              poll'[q][j] = IF q = p /\ j = i THEN AbsentRow ELSE poll[q][j]
    BY <1>0, <1>3 DEF PollLooks
  <2>6. QED
    BY <1>3, <2>1, <2>4, <2>5 DEF PollLooks, Resolves, outside, counters
<1>4. {"pending"} \in SUBSET Sent /\ Processed \in SUBSET Sent
  BY DEF Sent
<1>5. QED
  BY <1>1, <1>2, <1>3, <1>4 DEF PollStep, Step

LEMMA NextStep ==
  ASSUME IInv, Next
  PROVE  Step
<1>1. ASSUME UserStep PROVE Step
  BY <1>1, EntersStep, ForgetsStep, RemovesStep, ResetStep, TapsStep DEF UserStep, Step
<1>2. ASSUME MessageStep PROVE Step
  BY <1>2, ShowsStep DEF Step
<1>3. ASSUME Crash PROVE Step
  BY <1>3 DEF Crash, Restarts, Step, outside
<1>4. ASSUME NEW v \in Screens, ScheduledRequest(v) PROVE Step
  BY <1>4, ScheduledStep DEF Step
<1>5. ASSUME NEW h \in Hashes, NEW outcome \in Processed, Mine(h, outcome) PROVE Step
  <2>1. Mined(h)
    BY <1>5 DEF Mine, Mined, IInv, TypeOK, counters
  <2>2. QED
    BY <2>1 DEF Step
<1>6. QED
  BY <1>1, <1>2, <1>3, <1>4, <1>5, TaskSteps, PollSteps DEF Next

-----------------------------------------------------------------------------
(* What every step keeps of the rows *)

\* Rows do not vanish; a row that was not reset keeps the hash it was estimated
\* with, and once it is sent only its status changes, to another sent one.
LEMMA RowsStep ==
  ASSUME IInv, Step
  PROVE  /\ rows' \in [Ids -> Rows] /\ resets \subseteq resets' /\ resets' \subseteq Ids
         /\ \A i \in Ids : WellFormed(rows'[i])
         /\ \A i \in Ids : rows[i].status # "absent" => rows'[i].status # "absent"
         /\ \A i \in Ids \ resets' : rows[i].est =>
               rows'[i].est /\ rows'[i].hash = rows[i].hash
         /\ \A i \in Ids \ resets' : rows[i].status \in Sent =>
               /\ rows'[i].status \in Sent
               /\ rows'[i] = [rows[i] EXCEPT !.status = rows'[i].status]
<1> DEFINE Kept(i) ==
      /\ WellFormed(rows'[i])
      /\ rows[i].status # "absent" => rows'[i].status # "absent"
      /\ i \notin resets' =>
           /\ rows[i].est => rows'[i].est /\ rows'[i].hash = rows[i].hash
           /\ rows[i].status \in Sent =>
                /\ rows'[i].status \in Sent
                /\ rows'[i] = [rows[i] EXCEPT !.status = rows'[i].status]
<1>0. /\ TypeOK /\ rows \in [Ids -> Rows] /\ \A i \in Ids : rows[i] \in Rows /\ WellFormed(rows[i])
      /\ resets \subseteq Ids
  BY Basics DEF IInv, RowInv, TypeOK
<1>1. ASSUME NEW i \in Ids, rows'[i] = rows[i] PROVE Kept(i)
  <2>1. rows[i] = [rows[i] EXCEPT !.status = rows[i].status]
    BY <1>0 DEF Rows
  <2>2. QED
    BY <1>0, <1>1, <2>1
<1>2. ASSUME NEW i \in Ids, OneRow(i), resets' = resets \/ resets' = resets \cup {i}, Kept(i)
      PROVE  /\ rows' \in [Ids -> Rows] /\ resets \subseteq resets' /\ resets' \subseteq Ids
             /\ \A j \in Ids : Kept(j)
  <2>1. ASSUME NEW j \in Ids \ {i} PROVE Kept(j)
    BY <1>1, <1>2, <2>1 DEF OneRow
  <2>2. QED
    BY <1>0, <1>2, <2>1 DEF OneRow
<1>3. ASSUME rows' = rows, resets' = resets
      PROVE  /\ rows' \in [Ids -> Rows] /\ resets \subseteq resets' /\ resets' \subseteq Ids
             /\ \A j \in Ids : Kept(j)
  BY <1>0, <1>1, <1>3
<1>4. ASSUME Removes PROVE Kept(input)
  <2>1. CASE rows'[input] = rows[input]
    BY <1>1, <1>4, <2>1 DEF Removes
  <2>2. CASE rows'[input] # rows[input]
    BY <1>0, <1>4, <2>2 DEF Removes, WellFormed, Sent, Processed, Gone
  <2>3. QED
    BY <2>1, <2>2
<1>5. ASSUME NEW i \in Ids, Enters(i) PROVE Kept(i)
  BY <1>0, <1>5 DEF Enters, WellFormed, Sent, Processed, Gone
<1>6. ASSUME NEW i \in Ids, Shows(i) PROVE Kept(i)
  BY <1>0, <1>6 DEF Shows, WellFormed, Sent, Processed, Gone
<1>7. ASSUME NEW v \in Screens, Starts(v), NEW i \in Ids, OneRow(i),
             rows'[i].status = "draft", WellFormed(rows'[i]), resets' = resets \cup {i}
      PROVE  Kept(i)
  BY <1>7
<1>8. ASSUME NEW k \in Tasks, Estimates(k) PROVE tasks[k].id \in Ids /\ Kept(tasks[k].id)
  <2>1. tasks[k].id \in Ids
    BY <1>8, Basics DEF Estimates, IInv, TaskInv, TaskOK
  <2>2. tasks[k].id \notin resets => ~rows[tasks[k].id].est
    BY <1>8, <2>1 DEF Estimates, IInv, OnceInv
  <2>3. QED
    BY <1>0, <1>8, <2>1, <2>2 DEF Estimates, WellFormed, Sent, Processed, Gone
<1>9. ASSUME NEW k \in Tasks, Records(k) PROVE tasks[k].id \in Ids /\ Kept(tasks[k].id)
  <2>1. tasks[k].id \in Ids
    BY <1>9, Basics DEF Records, IInv, TaskInv, TaskOK
  <2>2. tasks[k].id \notin resets =>
          /\ rows[tasks[k].id].status \notin Sent
          /\ tasks[k].copy.hash = rows[tasks[k].id].hash
    BY <1>9, <2>1 DEF Records, IInv, CopyInv, Holding
  <2>3. QED
    BY <1>0, <1>9, <2>1, <2>2 DEF Records, WellFormed, Sent, Processed, Gone
<1>10. ASSUME NEW p \in Pollers, NEW i \in Ids, Resolves(p, i) PROVE Kept(i)
  <2> DEFINE copy == poll[p][i]
             st == receipts[copy.sub]
  <2>1. copy \in Rows /\ copy.status \in Sent /\ WellFormed(copy)
    BY <1>10, Basics DEF Resolves, IInv, RowInv
  <2>2. CASE rows'[i] = rows[i]
    BY <1>1, <2>2
  <2>3. CASE st \in Processed /\ rows'[i] = [copy EXCEPT !.status = st]
    <3>1. st \in Sent /\ st \in Statuses \cup Gone /\ st \notin {"draft"} \cup Gone
      BY <2>3 DEF Statuses, Sent, Gone, Processed
    <3>2. /\ rows'[i].status = st /\ rows'[i].hash = copy.hash /\ rows'[i].est = copy.est
          /\ copy.est /\ WellFormed(rows'[i]) /\ rows'[i] \in Rows
      <4>1. copy.est
        BY <2>1 DEF WellFormed, Sent, Processed, Gone
      <4> HIDE DEF copy, st
      <4>2. copy \in Rows /\ st \in Statuses \cup Gone /\ WellFormed(copy)
            /\ (st \in {"draft"} \cup Gone <=> ~copy.est)
        BY <2>1, <3>1, <4>1
      <4>3. /\ [copy EXCEPT !.status = st] \in Rows
            /\ [copy EXCEPT !.status = st].status = st
            /\ [copy EXCEPT !.status = st].hash = copy.hash
            /\ [copy EXCEPT !.status = st].est = copy.est
            /\ WellFormed([copy EXCEPT !.status = st])
        BY <4>2, StatusFacts, Zenon
      <4>4. QED
        BY <2>3, <4>1, <4>3, Zenon
    <3>3. i \notin resets => rows[i] = [copy EXCEPT !.status = rows[i].status]
      BY <1>10 DEF Resolves, IInv, CopyInv
    <3>4. i \notin resets => rows'[i] = [rows[i] EXCEPT !.status = rows'[i].status]
                             /\ rows[i].hash = copy.hash
      <4> HIDE DEF copy, st
      <4>1. SUFFICES ASSUME i \notin resets
                     PROVE  rows'[i] = [rows[i] EXCEPT !.status = rows'[i].status]
                            /\ rows[i].hash = copy.hash
        OBVIOUS
      <4>2. rows[i] = [copy EXCEPT !.status = rows[i].status] /\ rows[i].status \in Statuses \cup Gone
        BY <1>0, <3>3, <4>1 DEF Rows
      <4>3. [copy EXCEPT !.status = st] = [rows[i] EXCEPT !.status = st]
        BY <2>1, <3>1, <4>2, StatusTwice, Zenon
      <4>4. [copy EXCEPT !.status = rows[i].status].hash = copy.hash
        BY <2>1, <4>2, StatusFacts, Zenon
      <4>5. QED
        BY <2>3, <3>2, <4>2, <4>3, <4>4, Zenon
    <3>5. QED
      BY <1>10, <3>1, <3>2, <3>4 DEF Resolves, Sent, Processed
  <2>4. QED
    BY <1>10, <2>2, <2>3 DEF Resolves
<1>11. /\ rows' \in [Ids -> Rows] /\ resets \subseteq resets' /\ resets' \subseteq Ids
       /\ \A j \in Ids : Kept(j)
  <2>1. CASE Restarts \/ Removes \/ \E i \in Ids : Enters(i) \/ Shows(i)
    BY <1>2, <1>3, <1>4, <1>5, <1>6, <2>1 DEF Restarts, Removes, Enters, Shows
  <2>2. CASE \E v \in Screens : Forgets(v) \/ Taps(v) \/ Starts(v)
    BY <1>2, <1>3, <1>7, <2>2 DEF Forgets, Taps, Starts
  <2>3. CASE \E k \in Tasks, i \in Ids : Looks(k, i)
    BY <1>3, <2>3 DEF Looks
  <2>4. CASE \E k \in Tasks : GivesUp(k) \/ Estimates(k) \/ Assigns(k) \/ Accepts(k)
                              \/ Records(k) \/ Ends(k)
    BY <1>2, <1>3, <1>8, <1>9, <2>4
    DEF GivesUp, Estimates, Assigns, Accepts, Records, Ends
  <2>5. CASE \/ \E p \in Pollers : Snapshot(p)
             \/ \E p \in Pollers, i \in Ids : Resolves(p, i)
             \/ \E h \in Hashes : Mined(h)
    BY <1>2, <1>3, <1>10, <2>5 DEF Snapshot, Resolves, Mined
  <2>6. QED
    BY <2>1, <2>2, <2>3, <2>4, <2>5 DEF Step
<1>12. QED
  BY <1>11

-----------------------------------------------------------------------------
(* Types *)

\* What Step says nothing of: the hashes asked for, the relay's records and
\* the bounds.
LEMMA CountersStep ==
  ASSUME IInv, Next
  PROVE  /\ asked' \subseteq Hashes
         /\ relay' \subseteq [id : Ids, hash : Hashes, sigs : SUBSET Signatures, shown : Bodies]
         /\ trap' \in {"none", "find", "hash", "reset", "sign", "unsigned", "setHash"}
         /\ crashes' \in 0 .. MaxCrashes /\ lost' \in 0 .. MaxLost
<1> DEFINE Traps == {"none", "find", "hash", "reset", "sign", "unsigned", "setHash"}
<1> DEFINE Kept == UNCHANGED <<asked, relay, crashes, lost>> /\ trap' \in Traps
<1>0. /\ TypeOK /\ trap \in Traps
      /\ \A k \in Tasks : tasks[k].pc \in Holding => tasks[k].copy.hash \in Hashes
      /\ \A k \in Tasks : tasks[k].copy \in Rows /\ tasks[k].copy.sigs \subseteq Signatures
  BY Basics DEF IInv, TypeOK, TaskInv, TaskOK, Rows
<1>1. ASSUME NEW name \in Traps, Trap(name) PROVE UNCHANGED <<asked, relay, crashes, lost>>
                                                  /\ trap' \in Traps
  BY <1>1 DEF Trap, outside
<1>2. ASSUME UserStep PROVE Kept
  <2>1. ASSUME NEW v \in Screens, TapRejected(v) PROVE Kept
    BY <1>0, <1>1, <2>1 DEF TapRejected, outside
  <2>2. QED
    BY <1>0, <1>2, <2>1 DEF UserStep, ProceedToSigning, Back, LeaveInput, TapReady,
       Unlocked, TapResend, outside, counters
<1>3. ASSUME MessageStep PROVE Kept
  BY <1>0, <1>3 DEF MessageStep, ReceiveConfirmed, ReceiveRejected, ReceiveNew,
     ReceiveKnown, outside, counters
<1>4. ASSUME NEW v \in Screens, ScheduledRequest(v) PROVE Kept
  BY <1>0, <1>4 DEF ScheduledRequest, outside, counters
<1>5. ASSUME NEW p \in Pollers, PollStep(p) PROVE Kept
  BY <1>0, <1>5 DEF PollStep, PollBegins, PollLooks, PollThrows, outside, counters
<1>6. ASSUME NEW h \in Hashes, NEW outcome \in Processed, Mine(h, outcome) PROVE Kept
  BY <1>0, <1>6 DEF Mine, counters
<1>7. ASSUME Kept
      PROVE  /\ asked' \subseteq Hashes
             /\ relay' \subseteq [id : Ids, hash : Hashes, sigs : SUBSET Signatures, shown : Bodies]
             /\ trap' \in Traps
             /\ crashes' \in 0 .. MaxCrashes /\ lost' \in 0 .. MaxLost
  BY <1>0, <1>7 DEF TypeOK
<1>8. ASSUME NEW k \in Tasks, NEW i, NEW tx, Signs(k, i, tx)
      PROVE  UNCHANGED <<relay, crashes, lost>> /\ trap' \in Traps
  BY <1>0, <1>1, <1>8 DEF Signs, UnchangedForTask, outside, counters
<1>9. ASSUME NEW k \in Tasks, TaskStep(k)
      PROVE  /\ asked' \subseteq Hashes
             /\ relay' \subseteq [id : Ids, hash : Hashes, sigs : SUBSET Signatures, shown : Bodies]
             /\ trap' \in Traps
             /\ crashes' \in 0 .. MaxCrashes /\ lost' \in 0 .. MaxLost
  <2>1. CASE TaskStart(k)
    BY <1>0, <1>1, <1>7, <2>1 DEF TaskStart, UnchangedForTask, outside, counters
  <2>2. CASE ActRequest(k)
    BY <1>0, <1>1, <1>7, <2>2 DEF ActRequest, UnchangedForTask, outside, counters
  <2>3. CASE ActSubmit(k)
    BY <1>0, <1>1, <1>7, <1>8, <2>3 DEF ActSubmit, UnchangedForTask, outside, counters
  <2>4. CASE NotifyAnswers(k)
    <3>1. UNCHANGED <<relay, crashes, lost>> /\ trap' \in Traps
      BY <1>0, <1>1, <1>8, <2>4 DEF NotifyAnswers, UnchangedForTask, outside, counters
    <3>2. asked' \in {asked, asked \cup {tasks[k].copy.hash}} /\ tasks[k].pc \in Holding
      BY <2>4 DEF NotifyAnswers, Trap, At, Holding
    <3>3. QED
      BY <1>0, <3>1, <3>2 DEF TypeOK
  <2>5. CASE TaskThrows(k)
    <3>1. UNCHANGED <<relay, crashes, lost, trap>>
      BY <2>5 DEF TaskThrows, UnchangedForTask, outside, counters
    <3>2. asked' = asked \/ (asked' = asked \cup {tasks[k].copy.hash} /\ tasks[k].pc \in Holding)
      BY <2>5 DEF TaskThrows, At, Holding
    <3>3. QED
      BY <1>0, <3>1, <3>2 DEF TypeOK
  <2>6. CASE RelayAccepts(k)
    <3> DEFINE s == [id |-> tasks[k].id, hash |-> tasks[k].copy.hash,
                     sigs |-> tasks[k].copy.sigs, shown |-> review[tasks[k].vc].shown]
    <3>1. tasks[k].pc = "relaying" /\ relay' = relay \cup {s}
          /\ UNCHANGED <<asked, trap, crashes, lost>>
      BY <2>6 DEF RelayAccepts, At, counters
    <3>2. tasks[k].id \in Ids /\ tasks[k].vc \in Screens
      BY <3>1, Basics DEF IInv, TaskInv, TaskOK
    <3>3. review[tasks[k].vc].shown \in Bodies
      BY <3>2 DEF IInv, TypeOK
    <3>4. s \in [id : Ids, hash : Hashes, sigs : SUBSET Signatures, shown : Bodies]
      BY <1>0, <3>1, <3>2, <3>3 DEF Holding
    <3> HIDE DEF s
    <3>5. QED
      BY <1>0, <3>1, <3>4 DEF TypeOK
  <2>7. CASE RelayAnswers(k)
    BY <1>0, <1>1, <1>7, <2>7 DEF RelayAnswers, UnchangedForTask, outside, counters
  <2>8. CASE RelayAnswerLost(k)
    BY <1>0, <2>8, LifecycleAssumption DEF RelayAnswerLost, outside, TypeOK
  <2>9. CASE TaskEstimated(k) \/ TaskActed(k) \/ TaskShows(k) \/ TaskFailed(k)
             \/ \E n \in Nonces : EstimateAnswers(k, n)
    BY <1>0, <1>7, <2>9 DEF TaskEstimated, TaskActed, AssignsTx, TaskShows, TaskFailed,
       EstimateAnswers, UnchangedForTask, outside, counters
  <2>10. QED
    BY <1>9, <2>1, <2>2, <2>3, <2>4, <2>5, <2>6, <2>7, <2>8, <2>9 DEF TaskStep
<1>10. ASSUME Crash
       PROVE  /\ asked' \subseteq Hashes
              /\ relay' \subseteq [id : Ids, hash : Hashes, sigs : SUBSET Signatures, shown : Bodies]
              /\ trap' \in Traps
              /\ crashes' \in 0 .. MaxCrashes /\ lost' \in 0 .. MaxLost
  BY <1>0, <1>10, LifecycleAssumption DEF Crash, outside, TypeOK
<1> HIDE DEF Kept
<1>11. QED
  BY <1>2, <1>3, <1>4, <1>5, <1>6, <1>7, <1>9, <1>10 DEF Next

LEMMA TypeStep ==
  ASSUME IInv, Next
  PROVE  TypeOK'
<1>0. Step /\ TypeOK
  BY NextStep DEF IInv
<1>1. /\ review' \in [Screens -> ScreenRecords] /\ tasks' \in [Tasks -> TaskRecords]
      /\ poll' \in [Pollers -> [Ids -> Rows]]
      /\ opened' \in 0 .. MaxScreens /\ top' \in {0, opened'}
      /\ input' \in Ids \cup {NoId}
      /\ receipts' \in [Hashes -> {"none"} \cup Processed]
  <2>0. /\ review \in [Screens -> ScreenRecords] /\ tasks \in [Tasks -> TaskRecords]
        /\ poll \in [Pollers -> [Ids -> Rows]]
        /\ opened \in 0 .. MaxScreens /\ top \in {0, opened} /\ input \in Ids \cup {NoId}
        /\ receipts \in [Hashes -> {"none"} \cup Processed]
        /\ opened + 1 \in Screens => opened + 1 \in 0 .. MaxScreens
        /\ 0 \in 0 .. MaxScreens
    BY <1>0, LifecycleAssumption DEF TypeOK, ScreenRecords, TaskRecords, Screens
  <2>1. CASE Restarts
    BY <2>0, <2>1, RestartFacts DEF Restarts
  <2>2. CASE Removes \/ \E i \in Ids : Enters(i) \/ Shows(i)
    BY <2>0, <2>2 DEF Removes, Enters, Shows, OneScreen
  <2>3. CASE \E v \in Screens : Forgets(v) \/ Taps(v) \/ Starts(v)
    BY <2>0, <2>3 DEF Forgets, Taps, Starts, OneScreen, Spawned, OneTask
  <2>4. CASE \E k \in Tasks, i \in Ids : Looks(k, i)
    BY <2>0, <2>4 DEF Looks, OneTask, ui
  <2>5. CASE \E k \in Tasks : GivesUp(k) \/ Estimates(k) \/ Assigns(k) \/ Accepts(k)
                              \/ Records(k) \/ Ends(k)
    BY <2>0, <2>5 DEF GivesUp, Estimates, Assigns, Accepts, Records, Ends, OneTask,
       OneScreen, ui
  <2>6. CASE \/ \E p \in Pollers : Snapshot(p)
             \/ \E p \in Pollers, i \in Ids : Resolves(p, i)
             \/ \E h \in Hashes : Mined(h)
    BY <2>0, <2>6 DEF Snapshot, Resolves, Mined, ui
  <2>7. QED
    BY <1>0, <2>1, <2>2, <2>3, <2>4, <2>5, <2>6 DEF Step
<1>2. QED
  BY <1>0, <1>1, RowsStep, CountersStep DEF TypeOK, ScreenRecords, TaskRecords

-----------------------------------------------------------------------------
(* The relay, the chain and the copies of rows *)

\* The relay accepts a hash once, and neither it nor the chain forgets.
LEMMA RelayStep ==
  ASSUME IInv, Step
  PROVE  /\ relay \subseteq relay' /\ RelayInv'
         /\ \A h \in Hashes : receipts[h] # "none" => receipts'[h] = receipts[h]
<1>1. CASE \E k \in Tasks : Accepts(k)
  BY <1>1 DEF Accepts, IInv, RelayInv
<1>2. CASE \E h \in Hashes : Mined(h)
  BY <1>2 DEF Mined, IInv, RelayInv, TypeOK
<1>3. CASE UNCHANGED <<relay, receipts>>
  BY <1>3 DEF IInv, RelayInv
<1>4. QED
  BY <1>1, <1>2, <1>3 DEF Step, Restarts, Removes, Enters, Forgets, Taps, Starts, Shows,
     Looks, GivesUp, Estimates, Assigns, Records, Ends, Snapshot, Resolves

\* A copy that is settled stays so.
LEMMA SettledStays ==
  ASSUME IInv, Step, NEW CONSTANT tx \in Rows, Settled(tx)
  PROVE  Settled(tx)'
<1>1. SUFFICES ASSUME tx.status \in Sent
               PROVE  /\ tx.sub = tx.hash
                      /\ \E s \in relay' : s.hash = tx.sub
                      /\ tx.status \in Processed => receipts'[tx.sub] = tx.status
  BY DEF Settled
<1>2. tx.sub = tx.hash /\ \E s \in relay : s.hash = tx.sub
  BY <1>1 DEF Settled
<1>3. tx.sub \in Hashes
  BY <1>2 DEF IInv, TypeOK
<1>4. tx.status \in Processed => receipts[tx.sub] = tx.status /\ tx.status # "none"
  BY <1>1 DEF Settled, Processed
<1>5. QED
  BY <1>2, <1>3, <1>4, RelayStep

\* Every save leaves a row with the relay's and the chain's status.
LEMMA RowsSettled ==
  ASSUME IInv, Step, TypeOK'
  PROVE  \A i \in Ids : Settled(rows[i])'
<1>0. \A i \in Ids : rows[i] \in Rows /\ Settled(rows[i])
  BY Basics DEF IInv, RowInv
<1>1. \A i \in Ids : rows'[i] = rows[i] => Settled(rows[i])'
  BY <1>0, SettledStays DEF Settled
<1>2. \A i \in Ids : rows'[i].status \notin Sent => Settled(rows[i])'
  BY DEF Settled
<1>3. ASSUME NEW i \in Ids, OneRow(i), Settled(rows[i])'
      PROVE  \A j \in Ids : Settled(rows[j])'
  BY <1>1, <1>3 DEF OneRow
<1>4. CASE UNCHANGED rows
  BY <1>1, <1>4
<1>5. CASE Removes
  BY <1>1, <1>2, <1>3, <1>5 DEF Removes, Sent, Processed
<1>6. CASE \E i \in Ids : Enters(i) \/ Shows(i)
  BY <1>2, <1>3, <1>6 DEF Enters, Shows, Sent, Processed
<1>7. CASE \E v \in Screens : Starts(v)
  BY <1>2, <1>3, <1>4, <1>7 DEF Starts, Sent, Processed
<1>8. CASE \E k \in Tasks : Estimates(k)
  <2>1. PICK k \in Tasks : Estimates(k)
    BY <1>8
  <2>2. tasks[k].id \in Ids
    BY <2>1, Basics DEF IInv, TaskInv, TaskOK, Estimates
  <2>3. QED
    BY <1>2, <1>3, <2>1, <2>2 DEF Estimates, Sent, Processed
<1>9. CASE \E k \in Tasks : Records(k)
  <2>1. PICK k \in Tasks : Records(k)
    BY <1>9
  <2>2. tasks[k].id \in Ids /\ \E s \in relay : s.hash = tasks[k].copy.hash
    BY <2>1, Basics DEF IInv, TaskInv, TaskOK, Records
  <2>3. Settled(rows[tasks[k].id])'
    BY <2>1, <2>2 DEF Records, Settled, Processed
  <2>4. QED
    BY <1>3, <2>1, <2>2, <2>3 DEF Records
<1>10. CASE \E p \in Pollers, i \in Ids : Resolves(p, i)
  <2>1. PICK p \in Pollers, i \in Ids : Resolves(p, i)
    BY <1>10
  <2>2. CASE rows'[i] = rows[i]
    BY <1>1, <1>3, <2>1, <2>2 DEF Resolves
  <2>3. CASE rows'[i] # rows[i]
    <3> DEFINE copy == poll[p][i]
               st == receipts[copy.sub]
    <3>1. copy \in Rows /\ copy.status \in Sent /\ Settled(copy)
      BY <2>1, Basics DEF Resolves, IInv, RowInv
    <3>2. st \in Processed /\ rows'[i] = [copy EXCEPT !.status = st]
      BY <2>1, <2>3 DEF Resolves
    <3>3. copy.sub = copy.hash /\ \E s \in relay : s.hash = copy.sub
      BY <3>1 DEF Settled
    <3>4. st \in Statuses \cup Gone
      BY <3>2 DEF Statuses, Sent
    <3>5. UNCHANGED <<relay, receipts>>
      BY <2>1 DEF Resolves
    <3> HIDE DEF copy, st
    <3>6. rows'[i].sub = copy.sub /\ rows'[i].hash = copy.hash /\ rows'[i].status = st
      <4>1. /\ [copy EXCEPT !.status = st].sub = copy.sub
            /\ [copy EXCEPT !.status = st].hash = copy.hash
            /\ [copy EXCEPT !.status = st].status = st
        BY <3>1, <3>4, StatusFacts, Zenon
      <4>2. QED
        BY <3>2, <4>1, Zenon
    <3>7. Settled(rows[i])'
      BY <3>3, <3>5, <3>6 DEF Settled, st
    <3>8. QED
      BY <1>3, <2>1, <3>7 DEF Resolves
  <2>4. QED
    BY <2>2, <2>3
<1>11. QED
  BY <1>4, <1>5, <1>6, <1>7, <1>8, <1>9, <1>10 DEF Step, Restarts, Forgets, Taps, Looks,
     GivesUp, Assigns, Accepts, Ends, Snapshot, Mined

LEMMA RowStep ==
  ASSUME IInv, Step, TypeOK'
  PROVE  RowInv'
<1>1. \A i \in Ids : WellFormed(rows'[i])
  BY RowsStep
<1>2. \A k \in Tasks : WellFormed(tasks'[k].copy)
  <2>0. /\ \A k \in Tasks : WellFormed(tasks[k].copy)
        /\ \A i \in Ids : WellFormed(rows[i])
        /\ WellFormed(AbsentRow) /\ IdleTask.copy = AbsentRow
    BY AbsentFacts, IdleFacts DEF IInv, RowInv
  <2>1. ASSUME NEW k \in Tasks, OneTask(k), WellFormed(tasks'[k].copy)
        PROVE  \A l \in Tasks : WellFormed(tasks'[l].copy)
    BY <2>0, <2>1 DEF OneTask
  <2>2. CASE Restarts
    BY <2>0, <2>2, RestartFacts DEF Restarts
  <2>3. CASE UNCHANGED tasks
    BY <2>0, <2>3
  <2>4. CASE \E v \in Screens : Starts(v)
    BY <2>0, <2>1, <2>4 DEF Starts, Spawned
  <2>5. CASE \E k \in Tasks, i \in Ids : Looks(k, i)
    BY <2>0, <2>1, <2>5 DEF Looks
  <2>6. CASE \E k \in Tasks : GivesUp(k) \/ Estimates(k) \/ Assigns(k) \/ Accepts(k)
                              \/ Records(k) \/ Ends(k)
    BY <2>0, <2>1, <2>6 DEF GivesUp, Estimates, Assigns, Accepts, Records, Ends
  <2>7. QED
    BY <2>2, <2>3, <2>4, <2>5, <2>6 DEF Step, Removes, Enters, Forgets, Taps, Shows,
       Snapshot, Resolves, Mined
<1>3. ASSUME NEW p \in Pollers, NEW i \in Ids
      PROVE  /\ poll'[p][i].status \in Sent \cup {"absent"}
             /\ WellFormed(poll'[p][i]) /\ Settled(poll[p][i])'
  <2>0. /\ poll[p][i] \in Rows /\ rows[i] \in Rows
        /\ poll[p][i].status \in Sent \cup {"absent"}
        /\ WellFormed(poll[p][i]) /\ Settled(poll[p][i]) /\ WellFormed(rows[i]) /\ Settled(rows[i])
    BY Basics DEF IInv, RowInv
  <2>1. CASE poll'[p][i] = AbsentRow
    BY <2>1, AbsentFacts DEF Settled, Sent, Processed
  <2>2. CASE poll'[p][i] = poll[p][i]
    BY <2>0, <2>2, SettledStays DEF Settled
  <2>3. CASE poll'[p][i] = rows[i] /\ rows[i].status \in Sent
    BY <2>0, <2>3, SettledStays DEF Settled
  <2>4. \/ poll'[p][i] = AbsentRow
        \/ poll'[p][i] = poll[p][i]
        \/ poll'[p][i] = rows[i] /\ rows[i].status \in Sent
    <3>1. CASE Restarts
      BY <3>1, RestartFacts DEF Restarts
    <3>2. CASE \E q \in Pollers : Snapshot(q)
      BY <3>2 DEF Snapshot
    <3>3. CASE \E q \in Pollers, j \in Ids : Resolves(q, j)
      BY <3>3 DEF Resolves
    <3>4. CASE UNCHANGED poll
      BY <3>4
    <3>5. QED
      BY <3>1, <3>2, <3>3, <3>4 DEF Step, Removes, Enters, Forgets, Taps, Starts, Shows,
         Looks, GivesUp, Estimates, Assigns, Accepts, Records, Ends, Mined
  <2>5. QED
    BY <2>1, <2>2, <2>3, <2>4
<1>4. QED
  BY <1>1, <1>2, <1>3, RowsSettled DEF RowInv

-----------------------------------------------------------------------------
(* Screens and tasks *)

LEMMA ScreenStep ==
  ASSUME IInv, Step, TypeOK'
  PROVE  ScreenInv'
<1>0. /\ TypeOK /\ ScreenInv
      /\ \A v \in Screens : review[v].tx \in Ids \cup {NoId} /\ review'[v].tx \in Ids \cup {NoId}
      /\ \A v \in Screens : v \in Nat /\ v # 0
      /\ opened \in Nat /\ (top # 0 => top = opened /\ top \in Screens)
      /\ NoId \notin Ids
      /\ \A i \in Ids : rows[i].status # "absent" => rows'[i].status # "absent"
      /\ resets' \subseteq Ids
  BY Basics, RowsStep, LifecycleAssumption DEF IInv, TypeOK, Screens
<1>1. \A i \in resets' : rows'[i].status # "absent"
  <2>1. CASE resets' = resets
    BY <1>0, <2>1 DEF ScreenInv
  <2>2. CASE \E v \in Screens : Starts(v)
    BY <1>0, <2>1, <2>2 DEF ScreenInv, Starts, OneRow
  <2>3. QED
    BY <2>1, <2>2 DEF Step, Restarts, Removes, Enters, Forgets, Taps, Shows, Looks, GivesUp,
       Estimates, Assigns, Accepts, Records, Ends, Snapshot, Resolves, Mined
<1>2. ~HasExtension => resets' = {} /\ \A i \in Ids : ~CanReset(rows'[i])
  <2> SUFFICES ASSUME ~HasExtension
               PROVE  resets' = {} /\ \A i \in Ids : ~CanReset(rows'[i])
    OBVIOUS
  <2>0. resets = {} /\ \A i \in Ids : ~CanReset(rows[i])
    BY <1>0 DEF ScreenInv
  <2>1. ASSUME NEW i \in Ids, OneRow(i), ~CanReset(rows'[i])
        PROVE  \A j \in Ids : ~CanReset(rows'[j])
    BY <2>0, <2>1 DEF OneRow
  <2>2. CASE UNCHANGED <<rows, resets>>
    BY <2>0, <2>2
  <2>3. CASE Removes \/ \E i \in Ids : Enters(i) \/ Shows(i)
    BY <2>0, <2>1, <2>3 DEF Removes, Enters, Shows, CanReset
  <2>4. CASE \E v \in Screens : Starts(v)
    BY <2>0, <2>4 DEF Starts
  <2>5. CASE \E k \in Tasks : Estimates(k) \/ Records(k)
    <3>1. PICK k \in Tasks : Estimates(k) \/ Records(k)
      BY <2>5
    <3>2. tasks[k].id \in Ids
      BY <3>1, Basics DEF IInv, TaskInv, TaskOK, Estimates, Records
    <3>3. QED
      BY <2>0, <2>1, <3>1, <3>2 DEF Estimates, Records, CanReset
  <2>6. CASE \E p \in Pollers, i \in Ids : Resolves(p, i)
    <3>1. PICK p \in Pollers, i \in Ids : Resolves(p, i)
      BY <2>6
    <3>2. CASE rows'[i] = rows[i]
      BY <2>0, <2>1, <3>1, <3>2 DEF Resolves
    <3>3. CASE rows'[i] # rows[i]
      <4>1. poll[p][i] \in Rows
        BY <3>1, Basics DEF IInv
      <4>2. rows'[i].status \in Processed
        BY <3>1, <3>3, <4>1 DEF Resolves, Rows
      <4>3. QED
        BY <2>0, <2>1, <3>1, <4>2 DEF Resolves, CanReset, Processed
    <3>4. QED
      BY <3>2, <3>3
  <2>7. QED
    BY <2>2, <2>3, <2>4, <2>5, <2>6 DEF Step, Restarts, Forgets, Taps, Looks, GivesUp,
       Assigns, Accepts, Ends, Snapshot, Mined
<1>3. /\ top' # 0 => review'[top'].tx # NoId
      /\ \A v \in Screens :
            /\ v > opened' => review'[v] = NoScreen
            /\ review'[v].waiting \/ review'[v].unlocking => review'[v].tx # NoId
            /\ review'[v].tx # NoId => rows'[review'[v].tx].status # "absent"
      /\ input' # NoId => rows'[input'].status # "absent"
  <2>0. /\ input # NoId => input \in Ids /\ rows'[input].status # "absent"
        /\ \A v \in Screens : review[v].tx # NoId => rows'[review[v].tx].status # "absent"
        /\ \A v \in Screens : v > opened => review[v] = NoScreen
        /\ \A v \in Screens :
              review[v].waiting \/ review[v].unlocking => review[v].tx # NoId
        /\ top # 0 => review[top].tx # NoId
    BY <1>0 DEF ScreenInv, TypeOK
  <2>1. CASE Restarts
    BY <2>1, RestartFacts, NoScreenFacts DEF Restarts
  <2>2. CASE UNCHANGED ui
    BY <1>0, <2>0, <2>2 DEF ui
  <2>3. CASE Removes
    BY <1>0, <2>0, <2>3 DEF Removes
  <2>4. CASE \E i \in Ids : Enters(i)
    BY <1>0, <2>0, <2>4 DEF Enters, OneScreen
  <2>5. CASE \E i \in Ids : Shows(i)
    <3>1. PICK i \in Ids : Shows(i)
      BY <2>5
    <3>2. rows'[i].status # "absent" /\ input' = input
      BY <3>1 DEF Shows
    <3>3. top' # 0 => review'[top'].tx # NoId
      BY <1>0, <3>1 DEF Shows
    <3>4. ASSUME NEW v \in Screens
          PROVE  /\ v > opened' => review'[v] = NoScreen
                 /\ review'[v].waiting \/ review'[v].unlocking => review'[v].tx # NoId
                 /\ review'[v].tx # NoId => rows'[review'[v].tx].status # "absent"
      BY <1>0, <2>0, <3>1, <3>2 DEF Shows
    <3>5. QED
      BY <2>0, <3>2, <3>3, <3>4
  <2>6. CASE \E v \in Screens : Forgets(v)
    BY <1>0, <2>0, <2>6, NoScreenFacts DEF Forgets, OneScreen
  <2>7. ASSUME NEW v \in Screens, OneScreen(v), v <= opened, review'[v].tx = review[v].tx,
               review[v].tx # NoId, opened' = opened, top' \in {0, top},
               input' \in {NoId, input}
        PROVE  /\ top' # 0 => review'[top'].tx # NoId
               /\ \A w \in Screens :
                     /\ w > opened' => review'[w] = NoScreen
                     /\ review'[w].waiting \/ review'[w].unlocking => review'[w].tx # NoId
                     /\ review'[w].tx # NoId => rows'[review'[w].tx].status # "absent"
               /\ input' # NoId => rows'[input'].status # "absent"
    BY <1>0, <2>0, <2>7 DEF OneScreen
  <2>8. \A v \in Screens : Tappable(v) \/ review[v].unlocking \/ review[v].waiting =>
           v <= opened /\ review[v].tx # NoId
    <3>1. \A v \in Screens : review[v] = NoScreen => review[v].tx = NoId
      BY NoScreenFacts
    <3>2. QED
      BY <1>0, <2>0, <3>1 DEF Tappable
  <2>9. CASE \E v \in Screens : Taps(v) \/ Starts(v)
    BY <2>7, <2>8, <2>9 DEF Taps, Starts, SameExcept
  <2>10. CASE \E k \in Tasks : Assigns(k) \/ Ends(k)
    <3>1. PICK k \in Tasks : Assigns(k) \/ Ends(k)
      BY <2>10
    <3>2. /\ tasks[k].vc \in Screens /\ tasks[k].vc <= opened /\ review[tasks[k].vc].tx # NoId
          /\ tasks[k].id # NoId /\ tasks[k].id \in Ids /\ rows'[tasks[k].id].status # "absent"
      BY <1>0, <3>1, Basics DEF IInv, TaskInv, TaskOK, Assigns, Ends, TransactionOf
    <3>3. CASE Ends(k)
      BY <2>7, <3>2, <3>3 DEF Ends, SameExcept
    <3>4. CASE Assigns(k)
      BY <1>0, <2>0, <3>2, <3>4 DEF Assigns, OneScreen
    <3>5. QED
      BY <3>1, <3>3, <3>4
  <2>11. QED
    BY <2>1, <2>2, <2>3, <2>4, <2>5, <2>6, <2>9, <2>10 DEF Step, Looks, GivesUp, Estimates,
       Accepts, Records, Snapshot, Resolves, Mined
<1>4. QED
  BY <1>1, <1>2, <1>3 DEF ScreenInv

\* Unless the process ends, a screen that a task uses stays, and the transaction
\* of a screen is another only when that one is estimated or was reset.
LEMMA TxStep ==
  ASSUME IInv, Step, ~Restarts, TypeOK'
  PROVE  /\ opened \in Nat /\ opened' \in Nat /\ opened <= opened'
         /\ \A v \in Screens :
               \/ review'[v].tx = review[v].tx /\ review'[v].fee = review[v].fee
               \/ review'[v].tx = NoId /\ ~InUse(v)
               \/ /\ review'[v].tx \in Ids
                  /\ review'[v].tx \in resets' \/ rows'[review'[v].tx].est
               \/ /\ review'[v].tx \in Ids /\ rows[review'[v].tx].status = "absent"
                  /\ v = opened + 1 /\ ~InUse(v) /\ review'[v].fee = FALSE
<1>0. /\ TypeOK /\ opened \in Nat /\ opened' \in Nat /\ ~InUse(opened + 1)
      /\ \A i \in Ids : WellFormed(rows'[i]) /\ rows'[i] \in Rows
      /\ \A i \in Ids \ resets' : rows[i].est => rows'[i].est
  BY Basics, RowsStep DEF IInv, TypeOK, InUse, TaskInv, TaskOK
<1>1. \A i \in Ids : rows'[i].status \in {"signing", "rejected"} => rows'[i].est
  BY <1>0 DEF WellFormed, Gone
<1>2. CASE UNCHANGED ui
  BY <1>0, <1>2 DEF ui
<1>3. CASE Removes
  BY <1>0, <1>3 DEF Removes
<1>4. CASE \E i \in Ids : Enters(i)
  BY <1>0, <1>4 DEF Enters, OneScreen
<1>5. CASE \E i \in Ids : Shows(i)
  <2>1. PICK i \in Ids : Shows(i)
    BY <1>5
  <2>2. rows'[i].est
    BY <1>1, <2>1 DEF Shows
  <2>3. QED
    BY <1>0, <2>1, <2>2 DEF Shows, SameExcept
<1>6. CASE \E v \in Screens : Forgets(v)
  BY <1>0, <1>6, NoScreenFacts DEF Forgets, OneScreen
<1>7. CASE \E v \in Screens : Taps(v) \/ Starts(v)
  BY <1>0, <1>7 DEF Taps, Starts, OneScreen, SameExcept
<1>8. CASE \E k \in Tasks : Assigns(k)
  <2>1. PICK k \in Tasks : Assigns(k)
    BY <1>8
  <2>2. /\ tasks[k].id \in Ids /\ tasks[k].vc \in Screens
        /\ tasks[k].id \in resets \/ rows[tasks[k].id].est
    BY <2>1, Basics DEF Assigns, IInv, TaskInv, TaskOK, EstimatedInv, EstimatedOK
  <2>3. tasks[k].id \in resets' \/ rows'[tasks[k].id].est
    BY <1>0, <2>1, <2>2 DEF Assigns
  <2>4. QED
    BY <1>0, <2>1, <2>2, <2>3 DEF Assigns, OneScreen, SameExcept
<1>9. CASE \E k \in Tasks : Ends(k)
  <2>1. PICK k \in Tasks : Ends(k)
    BY <1>9
  <2>2. /\ review[tasks[k].vc].tx \in Ids /\ tasks[k].vc \in Screens
        /\ tasks[k].pc = "showing" =>
              review[tasks[k].vc].tx \in resets \/ rows[review[tasks[k].vc].tx].est
    BY <2>1, Basics
    DEF Ends, IInv, TaskInv, TaskOK, EstimatedInv, EstimatedOK, TransactionOf
  <2>3. /\ review'[tasks[k].vc].tx = review[tasks[k].vc].tx
        /\ UNCHANGED <<rows, resets, opened>>
    BY <2>1 DEF Ends, SameExcept
  <2>4. QED
    BY <1>0, <2>1, <2>2, <2>3 DEF Ends, OneScreen
<1>10. QED
  BY <1>2, <1>3, <1>4, <1>5, <1>6, <1>7, <1>8, <1>9 DEF Step, Looks, GivesUp, Estimates,
     Accepts, Records, Snapshot, Resolves, Mined

LEMMA TaskStepOK ==
  ASSUME IInv, Step, TypeOK'
  PROVE  TaskInv'
<1>0. /\ \A k \in Tasks : TaskOK(k)
      /\ \A i \in Ids : rows[i].status # "absent" => rows'[i].status # "absent"
      /\ relay \subseteq relay' /\ NoId \notin Ids
      /\ \A k \in Tasks : tasks[k].id \in Ids \cup {NoId}
  BY Basics, RowsStep, RelayStep DEF IInv, TaskInv
<1>1. CASE Restarts
  BY <1>1, RestartFacts, IdleFacts DEF Restarts, TaskInv, TaskOK, Holding
<1> SUFFICES ASSUME ~Restarts PROVE TaskInv'
  BY <1>1
<1>2. \A k \in Tasks : tasks[k].pc # "idle" =>
        /\ tasks[k].vc \in 1 .. opened' /\ review'[tasks[k].vc].tx # NoId
  <2>1. SUFFICES ASSUME NEW k \in Tasks, tasks[k].pc # "idle"
                 PROVE  tasks[k].vc \in 1 .. opened' /\ review'[tasks[k].vc].tx # NoId
    OBVIOUS
  <2>2. /\ tasks[k].vc \in 1 .. opened /\ tasks[k].vc \in Screens /\ review[tasks[k].vc].tx # NoId
        /\ InUse(tasks[k].vc)
    BY <1>0, <2>1, Basics DEF TaskOK, TransactionOf, InUse, IInv
  <2>3. opened \in Nat /\ opened' \in Nat /\ opened <= opened'
    BY TxStep
  <2>4. review'[tasks[k].vc].tx # NoId
    BY <1>0, <2>2, TxStep
  <2>5. QED
    BY <2>2, <2>3, <2>4
<1>3. \A k \in Tasks : tasks'[k] = tasks[k] => TaskOK(k)'
  BY <1>0, <1>2 DEF TaskOK, TransactionOf
<1>4. ASSUME NEW k \in Tasks, OneTask(k), TaskOK(k)' PROVE TaskInv'
  BY <1>3, <1>4 DEF OneTask, TaskInv
<1>5. CASE UNCHANGED tasks
  BY <1>3, <1>5 DEF TaskInv
<1>6. CASE \E v \in Screens : Starts(v)
  <2>1. PICK v \in Screens, k \in Tasks : Starts(v) /\ Spawned(k, v)
    BY <1>6 DEF Starts
  <2>2. v \in 1 .. opened /\ review[v].tx # NoId /\ opened' = opened
        /\ review'[v].tx = review[v].tx
    <3>1. review[v].tx # NoId /\ opened' = opened /\ review'[v].tx = review[v].tx
      BY <2>1 DEF Starts, SameExcept, IInv, ScreenInv, Tappable
    <3>2. v \in Nat \ {0} /\ opened \in Nat /\ (v > opened => review[v] = NoScreen)
      BY Basics DEF IInv, ScreenInv
    <3>3. QED
      BY <3>1, <3>2, NoScreenFacts
  <2>3. TaskOK(k)'
    BY <2>1, <2>2 DEF Spawned, TaskOK, TransactionOf, Holding
  <2>4. QED
    BY <1>4, <2>1, <2>3 DEF Spawned
<1>7. CASE \E k \in Tasks, i \in Ids : Looks(k, i)
  <2>1. PICK k \in Tasks, i \in Ids : Looks(k, i)
    BY <1>7
  <2>2. tasks[k].pc # "idle"
    BY <2>1 DEF Looks
  <2>3. i # NoId /\ rows'[i].status # "absent"
    BY <1>0, <2>1 DEF Looks, Gone
  <2>4. TaskOK(k)'
    <3>1. /\ tasks'[k].vc \in 1 .. opened' /\ review'[tasks'[k].vc].tx # NoId
          /\ tasks'[k].id = i
      BY <1>2, <2>1, <2>2 DEF Looks
    <3>2. /\ tasks'[k].pc # "accepted"
          /\ tasks'[k].pc = "estimating" => ~tasks'[k].copy.est
          /\ tasks'[k].pc = "notifying" => tasks'[k].copy.hash \in Hashes
      BY <2>1 DEF Looks
    <3>3. tasks'[k].pc = "relaying" =>
            /\ tasks'[k].copy.est /\ tasks'[k].copy.hash \in Hashes
            /\ \E g \in tasks'[k].copy.sigs : g.key = "device"
            /\ HasExtension => \E g \in tasks'[k].copy.sigs : g.key = "extension"
      BY <2>1 DEF Looks, WellFormed
    <3>4. QED
      BY <2>3, <3>1, <3>2, <3>3 DEF TaskOK, TransactionOf, Holding
  <2>5. QED
    BY <1>4, <2>1, <2>4 DEF Looks
<1>8. CASE \E k \in Tasks : GivesUp(k) \/ Estimates(k) \/ Assigns(k) \/ Records(k)
  <2>1. PICK k \in Tasks : GivesUp(k) \/ Estimates(k) \/ Assigns(k) \/ Records(k)
    BY <1>8
  <2>2. tasks[k].pc \notin {"idle", "start"}
    BY <2>1 DEF GivesUp, Estimates, Assigns, Records, Holding
  <2>3. TaskOK(k)'
    BY <1>0, <1>2, <2>1, <2>2
    DEF GivesUp, Estimates, Assigns, Records, TaskOK, TransactionOf, Holding
  <2>4. QED
    BY <1>4, <2>1, <2>3 DEF GivesUp, Estimates, Assigns, Records
<1>9. CASE \E k \in Tasks : Accepts(k)
  <2>1. PICK k \in Tasks : Accepts(k)
    BY <1>9
  <2>2. \E s \in relay' : s.hash = tasks'[k].copy.hash /\ s.id = tasks'[k].id
    BY <2>1 DEF Accepts
  <2>3. TaskOK(k)'
    BY <1>0, <1>2, <2>1, <2>2 DEF Accepts, TaskOK, TransactionOf, Holding
  <2>4. QED
    BY <1>4, <2>1, <2>3 DEF Accepts
<1>10. CASE \E k \in Tasks : Ends(k)
  BY <1>4, <1>10 DEF Ends, TaskOK, Holding
<1>11. QED
  BY <1>5, <1>6, <1>7, <1>8, <1>9, <1>10 DEF Step, Removes, Enters, Forgets, Taps, Shows,
     Snapshot, Resolves, Mined

LEMMA EstimatedStep ==
  ASSUME IInv, Step, TypeOK'
  PROVE  EstimatedInv'
<1>0. /\ \A k \in Tasks : TaskOK(k) /\ EstimatedOK(k)
      /\ \A i \in Ids : WellFormed(rows'[i])
      /\ \A i \in Ids \ resets' : rows[i].est => rows'[i].est
      /\ resets \subseteq resets'
      /\ \A k \in Tasks : tasks[k].id \in Ids \cup {NoId}
      /\ \A v \in Screens : review[v].tx \in Ids \cup {NoId}
      /\ \A v \in 1 .. opened : v \in Screens
  BY Basics, RowsStep DEF IInv, TaskInv, EstimatedInv
<1>1. CASE Restarts
  BY <1>1, RestartFacts, IdleFacts DEF Restarts, EstimatedInv, EstimatedOK, Holding
<1> SUFFICES ASSUME ~Restarts PROVE EstimatedInv'
  BY <1>1
<1>2. ASSUME NEW k \in Tasks, tasks[k].pc # "idle", tasks'[k].vc = tasks[k].vc,
             TransactionOf(k) \in resets \/ rows[TransactionOf(k)].est
      PROVE  review'[tasks'[k].vc].tx \in resets' \/ rows'[review'[tasks'[k].vc].tx].est
  <2>1. tasks[k].vc \in Screens /\ review[tasks[k].vc].tx \in Ids /\ InUse(tasks[k].vc)
    BY <1>0, <1>2 DEF TaskOK, TransactionOf, InUse
  <2>2. QED
    BY <1>0, <1>2, <2>1, TxStep DEF TransactionOf
<1>3. \A k \in Tasks : tasks'[k] = tasks[k] => EstimatedOK(k)'
  <2>1. SUFFICES ASSUME NEW k \in Tasks, tasks'[k] = tasks[k] PROVE EstimatedOK(k)'
    OBVIOUS
  <2>2. tasks[k].pc \in Holding \cup {"estimated", "acted"} /\ tasks[k].id \notin resets'
          => rows'[tasks[k].id].est
    BY <1>0 DEF TaskOK, EstimatedOK, Holding
  <2>3. tasks[k].pc \in Holding \cup {"act", "acted", "showing"}
          => review'[tasks'[k].vc].tx \in resets' \/ rows'[review'[tasks'[k].vc].tx].est
    BY <1>0, <1>2, <2>1 DEF EstimatedOK, Holding
  <2>4. QED
    BY <2>1, <2>2, <2>3 DEF EstimatedOK, TransactionOf
<1>4. ASSUME NEW k \in Tasks, OneTask(k), EstimatedOK(k)' PROVE EstimatedInv'
  BY <1>3, <1>4 DEF OneTask, EstimatedInv
<1>5. CASE UNCHANGED tasks
  BY <1>3, <1>5 DEF EstimatedInv
<1>6. CASE \E v \in Screens : Starts(v)
  BY <1>4, <1>6 DEF Starts, Spawned, EstimatedOK, Holding
<1>7. CASE \E k \in Tasks, i \in Ids : Looks(k, i)
  <2>1. PICK k \in Tasks, i \in Ids : Looks(k, i)
    BY <1>7
  <2>2. EstimatedOK(k)'
    BY <1>0, <2>1 DEF Looks, EstimatedOK, TransactionOf, Holding, ui
  <2>3. QED
    BY <1>4, <2>1, <2>2 DEF Looks
<1>8. CASE \E k \in Tasks : GivesUp(k) \/ Ends(k)
  BY <1>4, <1>8 DEF GivesUp, Ends, EstimatedOK, Holding
<1>9. CASE \E k \in Tasks : Estimates(k) \/ Records(k)
  <2>1. PICK k \in Tasks : Estimates(k) \/ Records(k)
    BY <1>9
  <2>2. tasks[k].id \in Ids /\ rows'[tasks[k].id].est
    BY <1>0, <2>1 DEF Estimates, Records, TaskOK, WellFormed, Gone
  <2>3. Records(k) => review'[tasks'[k].vc].tx \in resets' \/ rows'[review'[tasks'[k].vc].tx].est
    BY <1>0, <1>2 DEF Records, EstimatedOK, Holding
  <2>4. EstimatedOK(k)'
    BY <2>1, <2>2, <2>3 DEF Estimates, Records, EstimatedOK, TransactionOf, Holding
  <2>5. QED
    BY <1>4, <2>1, <2>4 DEF Estimates, Records
<1>10. CASE \E k \in Tasks : Assigns(k)
  <2>1. PICK k \in Tasks : Assigns(k)
    BY <1>10
  <2>2. tasks[k].id \in resets \/ rows[tasks[k].id].est
    BY <1>0, <2>1 DEF Assigns, EstimatedOK, Holding
  <2>3. EstimatedOK(k)'
    BY <2>1, <2>2 DEF Assigns, EstimatedOK, TransactionOf, Holding
  <2>4. QED
    BY <1>4, <2>1, <2>3 DEF Assigns
<1>11. CASE \E k \in Tasks : Accepts(k)
  <2>1. PICK k \in Tasks : Accepts(k)
    BY <1>11
  <2>2. EstimatedOK(k)'
    BY <1>0, <2>1 DEF Accepts, EstimatedOK, TransactionOf, Holding, ui
  <2>3. QED
    BY <1>4, <2>1, <2>2 DEF Accepts
<1>12. QED
  BY <1>5, <1>6, <1>7, <1>8, <1>9, <1>10, <1>11 DEF Step, Removes, Enters, Forgets, Taps,
     Shows, Snapshot, Resolves, Mined

LEMMA QuietStep ==
  ASSUME IInv, Step, TypeOK'
  PROVE  QuietInv'
<1>0. /\ \A v \in Screens : QuietOK(v)
      /\ \A k \in Tasks : TaskOK(k)
      /\ opened \in Nat
      /\ \A v \in 1 .. opened : v \in Screens
  BY Basics DEF IInv, QuietInv, TaskInv
<1>1. CASE Restarts
  BY <1>1, RestartFacts, IdleFacts, NoScreenFacts DEF Restarts, QuietInv, QuietOK, OnScreen
<1>2. ASSUME NEW v \in Screens, review'[v] = review[v],
             \A k \in Tasks : OnScreen(k, v)' => OnScreen(k, v)
      PROVE  QuietOK(v)'
  BY <1>0, <1>2 DEF QuietOK
<1>3. CASE UNCHANGED tasks
  <2>0. \A k \in Tasks, v \in Screens : OnScreen(k, v)' <=> OnScreen(k, v)
    BY <1>3 DEF OnScreen
  <2>1. ~\E k \in Tasks : OnScreen(k, opened + 1)
    BY <1>0 DEF TaskOK, OnScreen
  <2>2. ASSUME NEW v \in Screens, OneScreen(v), QuietOK(v)' PROVE QuietInv'
    BY <1>2, <2>0, <2>2 DEF OneScreen, QuietInv
  <2>3. CASE UNCHANGED review
    BY <1>2, <2>0, <2>3 DEF QuietInv
  <2>4. CASE \E i \in Ids : Enters(i)
    BY <2>0, <2>1, <2>2, <2>4 DEF Enters, QuietOK
  <2>5. CASE \E i \in Ids : Shows(i)
    <3>1. ASSUME NEW v \in Screens PROVE QuietOK(v)'
      BY <1>0, <1>2, <2>0, <2>1, <2>5 DEF Shows, SameExcept, QuietOK
    <3>2. QED
      BY <3>1 DEF QuietInv
  <2>6. CASE \E v \in Screens : Forgets(v)
    <3>1. PICK v \in Screens : Forgets(v)
      BY <2>6
    <3>2. CASE review'[v] = review[v]
      BY <1>2, <2>0, <2>2, <3>1, <3>2 DEF Forgets
    <3>3. CASE review'[v] = NoScreen /\ ~InUse(v)
      <4>1. ~\E k \in Tasks : OnScreen(k, v)
        BY <3>3 DEF InUse, OnScreen
      <4>2. QuietOK(v)'
        BY <2>0, <3>3, <4>1, NoScreenFacts DEF QuietOK
      <4>3. QED
        BY <2>2, <3>1, <4>2 DEF Forgets
    <3>4. QED
      BY <3>1, <3>2, <3>3 DEF Forgets
  <2>7. CASE \E v \in Screens : Taps(v)
    <3>1. PICK v \in Screens : Taps(v)
      BY <2>7
    <3>2. QuietOK(v)'
      BY <1>0, <2>0, <3>1 DEF Taps, SameExcept, Tappable, QuietOK
    <3>3. QED
      BY <2>2, <3>1, <3>2 DEF Taps
  <2>8. CASE \E v \in Screens : Starts(v)
    BY <1>3, <2>8 DEF Starts, Spawned
  <2>9. CASE \E k \in Tasks : Assigns(k) \/ Ends(k)
    BY <1>3, <2>9 DEF Assigns, Ends
  <2>10. QED
    BY <1>1, <2>3, <2>4, <2>5, <2>6, <2>7, <2>8, <2>9 DEF Step, Removes, Looks, GivesUp,
       Estimates, Accepts, Records, Snapshot, Resolves, Mined, ui
<1>4. CASE \E v \in Screens : Starts(v)
  <2>1. PICK v \in Screens, k \in Tasks : Starts(v) /\ Spawned(k, v)
    BY <1>4 DEF Starts
  <2>2. \A l \in Tasks, w \in Screens : OnScreen(l, w)' => OnScreen(l, w) \/ (l = k /\ w = v)
    BY <2>1 DEF Spawned, OneTask, OnScreen
  <2>3. ASSUME ~review[v].fee
        PROVE  (\A l \in Tasks : ~OnScreen(l, v)) /\ ~review'[v].waiting /\ ~review'[v].unlocking
    BY <1>0, <2>1, <2>3 DEF Starts, SameExcept, Tappable, QuietOK
  <2>4. QuietOK(v)'
    BY <2>1, <2>2, <2>3 DEF Starts, SameExcept, QuietOK
  <2>5. ASSUME NEW w \in Screens \ {v} PROVE QuietOK(w)'
    BY <1>2, <2>1, <2>2, <2>5 DEF Starts, OneScreen
  <2>6. QED
    BY <2>4, <2>5 DEF QuietInv
<1>5. ASSUME NEW k \in Tasks, OneTask(k), tasks'[k].vc = tasks[k].vc, tasks[k].pc # "idle"
      PROVE  \A l \in Tasks, w \in Screens : OnScreen(l, w)' => OnScreen(l, w)
  BY <1>5 DEF OneTask, OnScreen
<1>6. CASE \E k \in Tasks : GivesUp(k) \/ Estimates(k) \/ Accepts(k) \/ Records(k)
                            \/ \E i \in Ids : Looks(k, i)
  <2>1. \A l \in Tasks, w \in Screens : OnScreen(l, w)' => OnScreen(l, w)
    BY <1>5, <1>6 DEF GivesUp, Estimates, Accepts, Records, Looks, Holding
  <2>2. UNCHANGED review
    BY <1>6 DEF GivesUp, Estimates, Accepts, Records, Looks, ui
  <2>3. QED
    BY <1>2, <2>1, <2>2 DEF QuietInv
<1>7. CASE \E k \in Tasks : Assigns(k) \/ Ends(k)
  <2>1. PICK k \in Tasks : Assigns(k) \/ Ends(k)
    BY <1>7
  <2>2. PICK v \in Screens : v = tasks[k].vc /\ OnScreen(k, v)
    BY <1>0, <2>1 DEF Assigns, Ends, TaskOK, OnScreen
  <2>3. OneScreen(v) /\ OneTask(k)
    BY <2>1, <2>2 DEF Assigns, Ends
  <2>4. \A l \in Tasks, w \in Screens : OnScreen(l, w)' => OnScreen(l, w)
    BY <1>5, <2>1, <2>3 DEF Assigns, Ends, OneTask, OnScreen
  <2>5. CASE Assigns(k)
    <3>1. /\ review'[v].fee = review[v].fee /\ review'[v].waiting = review[v].waiting
          /\ review'[v].enabled = review[v].enabled /\ review'[v].unlocking = review[v].unlocking
      BY <2>2, <2>5 DEF Assigns, SameExcept
    <3>2. QuietOK(v)'
      BY <1>0, <2>2, <2>4, <3>1 DEF QuietOK
    <3>3. QED
      BY <1>2, <2>3, <2>4, <3>2 DEF OneScreen, QuietInv
  <2>6. CASE Ends(k)
    <3>1. /\ tasks[k].pc = "showing" => review'[v].fee = TRUE
          /\ tasks[k].pc # "showing" => review'[v].fee = review[v].fee
          /\ review'[v].waiting = review[v].waiting /\ review'[v].unlocking = review[v].unlocking
      BY <2>2, <2>6 DEF Ends, SameExcept
    <3>2. ~OnScreen(k, v)'
      BY <2>6 DEF Ends, OnScreen
    <3>3. QuietOK(v)'
      BY <1>0, <2>2, <2>4, <3>1, <3>2 DEF QuietOK
    <3>4. QED
      BY <1>2, <2>3, <2>4, <3>3 DEF OneScreen, QuietInv
  <2>7. QED
    BY <2>1, <2>5, <2>6
<1>8. QED
  BY <1>1, <1>3, <1>4, <1>6, <1>7 DEF Step, Removes, Enters, Forgets, Taps,
     Shows, Snapshot, Resolves, Mined

-----------------------------------------------------------------------------
(* One estimate, one submission *)

\* Only a task that estimates it takes a transaction past the draft, unless it is
\* new, and only its answer makes one pending; a reset lets it begin again.
LEMMA FirstStep ==
  ASSUME IInv, Step, TypeOK', NEW i \in Ids \ resets', rows[i].status # "absent"
  PROVE  /\ ~rows[i].est /\ rows'[i].est => \E l \in Tasks : Estimates(l) /\ tasks[l].id = i
         /\ rows[i].status \notin Sent /\ rows'[i].status \in Sent =>
               \E l \in Tasks : Records(l) /\ tasks[l].id = i
<1>0. /\ i \notin resets /\ WellFormed(rows[i]) /\ WellFormed(rows'[i])
      /\ "draft" \notin Sent /\ "removed" \notin Sent /\ "signing" \notin Sent
      /\ "rejected" \notin Sent
      /\ \A st \in Sent : st \notin {"draft"} \cup Gone
  BY RowsStep DEF IInv, RowInv, Sent, Processed, Gone
<1>1. CASE rows'[i] = rows[i]
  BY <1>1
<1>2. CASE \E j \in Ids : Enters(j) \/ Shows(j)
  BY <1>0, <1>1, <1>2 DEF Enters, Shows, OneRow, WellFormed, Gone
<1>3. CASE Removes
  BY <1>0, <1>1, <1>3 DEF Removes, OneRow, WellFormed, Gone
<1>4. CASE \E v \in Screens : Starts(v)
  BY <1>0, <1>1, <1>4 DEF Starts, OneRow
<1>5. CASE \E k \in Tasks : Estimates(k)
  BY <1>0, <1>1, <1>5 DEF Estimates, OneRow
<1>6. CASE \E k \in Tasks : Records(k)
  <2>1. PICK k \in Tasks : Records(k)
    BY <1>6
  <2>2. CASE tasks[k].id = i
    <3>1. rows[i].est
      BY <1>0, <2>1, <2>2 DEF Records, IInv, EstimatedInv, EstimatedOK, Holding
    <3>2. QED
      BY <2>1, <2>2, <3>1
  <2>3. CASE tasks[k].id # i
    BY <1>1, <2>1, <2>3 DEF Records, OneRow
  <2>4. QED
    BY <2>2, <2>3
<1>7. CASE \E p \in Pollers, j \in Ids : Resolves(p, j)
  <2>1. PICK p \in Pollers, j \in Ids : Resolves(p, j)
    BY <1>7
  <2>2. CASE j = i
    <3>1. rows[i].status \in Sent
      BY <1>0, <2>1, <2>2 DEF Resolves, IInv, CopyInv
    <3>2. rows[i].est
      BY <1>0, <3>1 DEF WellFormed
    <3>3. QED
      BY <3>1, <3>2
  <2>3. CASE j # i
    BY <1>1, <2>1, <2>3 DEF Resolves, OneRow
  <2>4. QED
    BY <2>2, <2>3
<1>8. QED
  BY <1>1, <1>2, <1>3, <1>4, <1>5, <1>6, <1>7 DEF Step, Restarts, Forgets, Taps, Looks,
     GivesUp, Assigns, Accepts, Ends, Snapshot, Mined

\* The fee of a screen in use is shown when a task of that screen ends.
LEMMA FeeStep ==
  ASSUME IInv, Step, ~Restarts, TypeOK', NEW v \in Screens, InUse(v),
         ~review[v].fee, review'[v].fee
  PROVE  \E l \in Tasks : tasks[l].pc = "showing" /\ tasks[l].vc = v
<1>0. opened \in Nat /\ ~InUse(opened + 1)
  BY Basics DEF IInv, InUse, TaskInv, TaskOK
<1>1. CASE \E k \in Tasks : Ends(k)
  BY <1>1 DEF Ends, OneScreen
<1>2. CASE review'[v].fee = review[v].fee
  BY <1>2
<1>3. CASE \E w \in Screens : Forgets(w) \/ Taps(w) \/ Starts(w)
  BY <1>2, <1>3 DEF Forgets, Taps, Starts, OneScreen, SameExcept
<1>4. CASE \E i \in Ids : Enters(i) \/ Shows(i)
  BY <1>0, <1>2, <1>4 DEF Enters, Shows, OneScreen, SameExcept
<1>5. CASE \E k \in Tasks : Assigns(k)
  BY <1>2, <1>5 DEF Assigns, OneScreen, SameExcept
<1>6. QED
  BY <1>1, <1>2, <1>3, <1>4, <1>5 DEF Step, Removes, Looks, GivesUp, Estimates, Accepts,
     Records, Snapshot, Resolves, Mined, ui

LEMMA OnceStep ==
  ASSUME IInv, Step, TypeOK'
  PROVE  OnceInv'
<1>0. /\ resets \subseteq resets'
      /\ \A i \in Ids \ resets' : rows[i].est => rows'[i].est
      /\ \A k \in Tasks : TaskOK(k)
      /\ \A v \in Screens : QuietOK(v)
      /\ \A v \in 1 .. opened : v \in Screens
      /\ NoId \notin Ids
      /\ OnceInv
  BY Basics, RowsStep DEF IInv, TaskInv, QuietInv
<1>1. CASE Restarts
  <2>1. /\ \A v \in Screens : review'[v].tx \notin Ids
        /\ \A k \in Tasks : tasks'[k].pc # "estimating"
    BY <1>0, <1>1, RestartFacts, NoScreenFacts, IdleFacts DEF Restarts
  <2>2. QED
    BY <2>1 DEF OnceInv
<1> SUFFICES ASSUME ~Restarts, NEW i \in Ids \ resets'
             PROVE  /\ ~rows'[i].est => \A v \in Screens : review'[v].tx = i =>
                          ~review'[v].fee /\ \A w \in Screens : review'[w].tx = i => v = w
                    /\ \A k \in Tasks : tasks'[k].pc = "estimating" /\ tasks'[k].id = i =>
                          /\ ~rows'[i].est
                          /\ ~review'[tasks'[k].vc].fee
                          /\ \A v \in Screens : review'[v].tx = i => v = tasks'[k].vc
                          /\ \A l \in Tasks :
                                tasks'[l].pc = "estimating" /\ tasks'[l].id = i => k = l
  BY <1>1 DEF OnceInv
<1>2. i \in Ids \ resets
  BY <1>0
<1>3. ASSUME ~rows'[i].est
      PROVE  /\ \A v \in Screens : review'[v].tx = i => \/ review[v].tx = i /\ review'[v].fee = review[v].fee
                                                        \/ /\ v = opened + 1 /\ review'[v].fee = FALSE
                                                           /\ rows[i].status = "absent"
             /\ ~rows[i].est
  BY <1>0, <1>3, TxStep
<1>4. rows[i].status = "absent" => \A v \in Screens : review[v].tx # i
  BY <1>0 DEF IInv, ScreenInv
<1>5. ~rows'[i].est => \A v \in Screens : review'[v].tx = i =>
         ~review'[v].fee /\ \A w \in Screens : review'[w].tx = i => v = w
  <2>1. SUFFICES ASSUME ~rows'[i].est, NEW v \in Screens, review'[v].tx = i,
                        NEW w \in Screens, review'[w].tx = i
                 PROVE  ~review'[v].fee /\ v = w
    OBVIOUS
  <2>2. CASE rows[i].status = "absent"
    <3>1. /\ v = opened + 1 /\ review'[v].fee = FALSE
          /\ w = opened + 1
      BY <1>3, <1>4, <2>1, <2>2
    <3>2. QED
      BY <3>1
  <2>3. CASE rows[i].status # "absent"
    <3>1. review[v].tx = i /\ review'[v].fee = review[v].fee /\ review[w].tx = i
      BY <1>3, <2>1, <2>3
    <3>2. ~rows[i].est
      BY <1>3, <2>1
    <3>3. ~review[v].fee /\ v = w
      BY <1>0, <1>2, <3>1, <3>2 DEF OnceInv
    <3>4. QED
      BY <3>1, <3>3
  <2>4. QED
    BY <2>2, <2>3
<1>6. ASSUME NEW k \in Tasks, tasks'[k].pc = "estimating", tasks'[k].id = i,
             tasks'[k] = tasks[k]
      PROVE  /\ ~rows'[i].est
             /\ ~review'[tasks'[k].vc].fee
             /\ \A v \in Screens : review'[v].tx = i => v = tasks'[k].vc
  <2>1. /\ ~rows[i].est /\ ~review[tasks[k].vc].fee
        /\ \A v \in Screens : review[v].tx = i => v = tasks[k].vc
        /\ \A l \in Tasks : tasks[l].pc = "estimating" /\ tasks[l].id = i => k = l
    BY <1>0, <1>2, <1>6 DEF OnceInv
  <2>2. rows[i].status # "absent" /\ tasks[k].vc \in Screens /\ InUse(tasks[k].vc)
    BY <1>0, <1>6 DEF TaskOK, InUse
  <2>3. ~rows'[i].est
    <3>1. ASSUME NEW l \in Tasks, Estimates(l), tasks[l].id = i PROVE FALSE
      BY <1>6, <2>1, <3>1 DEF Estimates
    <3>2. QED
      BY <2>1, <2>2, <3>1, FirstStep
  <2>4. ~review'[tasks[k].vc].fee
    <3>1. ASSUME NEW l \in Tasks, tasks[l].pc = "showing", tasks[l].vc = tasks[k].vc
          PROVE  FALSE
      BY <1>0, <1>6, <2>1, <2>2, <3>1 DEF QuietOK, OnScreen
    <3>2. QED
      BY <2>1, <2>2, <3>1, FeeStep
  <2>5. QED
    BY <1>3, <1>6, <2>1, <2>2, <2>3, <2>4
<1>7. ASSUME NEW k \in Tasks, tasks'[k].pc = "estimating", tasks'[k].id = i,
             tasks'[k] # tasks[k]
      PROVE  Looks(k, i)
  BY <1>7 DEF Step, Removes, Enters, Forgets, Taps, Starts, Spawned, Shows, Looks, GivesUp,
     Estimates, Assigns, Accepts, Records, Ends, Snapshot, Resolves, Mined, OneTask
<1>8. ASSUME NEW k \in Tasks, tasks'[k].pc = "estimating", tasks'[k].id = i, Looks(k, i)
      PROVE  /\ ~rows'[i].est
             /\ ~review'[tasks'[k].vc].fee
             /\ \A v \in Screens : review'[v].tx = i => v = tasks'[k].vc
             /\ \A l \in Tasks : tasks'[l].pc = "estimating" /\ tasks'[l].id = i => k = l
  <2>1. /\ tasks[k].pc = "start" /\ i = review[tasks[k].vc].tx /\ ~rows[i].est
        /\ UNCHANGED <<rows, review>> /\ tasks'[k].vc = tasks[k].vc /\ OneTask(k)
    BY <1>8 DEF Looks, TransactionOf, ui
  <2>2. tasks[k].vc \in Screens
    BY <1>0, <2>1 DEF TaskOK
  <2>3. ~review[tasks[k].vc].fee /\ \A v \in Screens : review[v].tx = i => v = tasks[k].vc
    BY <1>0, <1>2, <2>1, <2>2 DEF OnceInv
  <2>4. ASSUME NEW l \in Tasks \ {k}, tasks[l].pc = "estimating", tasks[l].id = i PROVE FALSE
    <3>1. tasks[k].vc = tasks[l].vc
      BY <1>0, <1>2, <2>1, <2>2, <2>4 DEF OnceInv
    <3>2. QED
      BY <1>0, <2>1, <2>2, <2>3, <2>4, <3>1 DEF QuietOK, OnScreen
  <2>5. QED
    BY <2>1, <2>3, <2>4 DEF OneTask
<1>9. ASSUME NEW k \in Tasks, tasks'[k].pc = "estimating", tasks'[k].id = i,
             NEW l \in Tasks, tasks'[l].pc = "estimating", tasks'[l].id = i
      PROVE  k = l
  <2>1. CASE tasks'[k] = tasks[k] /\ tasks'[l] = tasks[l]
    BY <1>0, <1>2, <1>9, <2>1 DEF OnceInv
  <2>2. CASE tasks'[k] # tasks[k]
    BY <1>7, <1>8, <1>9, <2>2
  <2>3. CASE tasks'[l] # tasks[l]
    BY <1>7, <1>8, <1>9, <2>3
  <2>4. QED
    BY <2>1, <2>2, <2>3
<1>10. QED
  BY <1>5, <1>6, <1>7, <1>8, <1>9

-----------------------------------------------------------------------------
(* The copies that are saved later *)

\* How a task comes to hold a copy.
LEMMA HoldingStep ==
  ASSUME Step, ~Restarts, NEW k \in Tasks, tasks'[k].pc \in Holding
  PROVE  \/ tasks'[k] = tasks[k]
         \/ Accepts(k)
         \/ \E i \in Ids : Looks(k, i)
<1>1. CASE \E l \in Tasks, i \in Ids : Looks(l, i)
  BY <1>1 DEF Looks, OneTask
<1>2. CASE \E l \in Tasks : GivesUp(l) \/ Estimates(l) \/ Assigns(l) \/ Accepts(l)
                            \/ Records(l) \/ Ends(l)
  BY <1>2 DEF GivesUp, Estimates, Assigns, Accepts, Records, Ends, OneTask, Holding
<1>3. CASE \E v \in Screens : Starts(v)
  BY <1>3 DEF Starts, Spawned, OneTask, Holding
<1>4. QED
  BY <1>1, <1>2, <1>3 DEF Step, Removes, Enters, Forgets, Taps, Shows, Snapshot, Resolves,
     Mined

\* The copy a task holds has the hash of the row.
LEMMA HeldHash ==
  ASSUME IInv, Step, TypeOK', NEW k \in Tasks, tasks'[k].pc \in Holding,
         tasks'[k].id \notin resets'
  PROVE  tasks'[k].copy.hash = rows'[tasks'[k].id].hash
<1>0. /\ resets \subseteq resets'
      /\ \A i \in Ids \ resets' : rows[i].est => rows'[i].hash = rows[i].hash
      /\ TaskOK(k) /\ EstimatedOK(k)
      /\ tasks[k].id \in Ids \cup {NoId}
  BY Basics, RowsStep DEF IInv, TaskInv, EstimatedInv
<1>1. ~Restarts
  BY RestartFacts, IdleFacts DEF Restarts, Holding
<1>2. CASE tasks'[k] = tasks[k] \/ Accepts(k)
  <2>1. /\ tasks[k].pc \in Holding /\ tasks'[k].id = tasks[k].id
        /\ tasks'[k].copy = tasks[k].copy
    BY <1>2 DEF Accepts, Holding
  <2>2. tasks[k].id \in Ids \ resets' /\ rows[tasks[k].id].est
    BY <1>0, <2>1 DEF TaskOK, EstimatedOK, Holding
  <2>3. tasks[k].copy.hash = rows[tasks[k].id].hash
    BY <1>0, <2>1, <2>2 DEF IInv, CopyInv
  <2>4. QED
    BY <1>0, <2>1, <2>2, <2>3
<1>3. CASE \E i \in Ids : Looks(k, i)
  BY <1>3 DEF Looks, Holding
<1>4. QED
  BY <1>1, <1>2, <1>3, HoldingStep

\* While a task has the relay's answer to save, nothing else made the row pending.
LEMMA AcceptedStep ==
  ASSUME IInv, Step, TypeOK', NEW k \in Tasks, tasks'[k].pc = "accepted"
  PROVE  /\ tasks'[k].id \notin resets' => rows'[tasks'[k].id].status \notin Sent
         /\ \A l \in Tasks : tasks'[l].pc = "accepted"
               /\ tasks'[l].copy.hash = tasks'[k].copy.hash => k = l
<1>0. /\ resets \subseteq resets'
      /\ \A l \in Tasks : TaskOK(l) /\ tasks[l].id \in Ids \cup {NoId}
      /\ CopyInv
  BY Basics, RowsStep DEF IInv, TaskInv
<1>1. ~Restarts
  BY RestartFacts, IdleFacts DEF Restarts
<1>2. ASSUME NEW l \in Tasks, tasks'[l].pc = "accepted"
      PROVE  tasks'[l] = tasks[l] \/ Accepts(l)
  BY <1>1, <1>2, HoldingStep DEF Holding, Looks
<1>3. ASSUME NEW l \in Tasks, tasks'[l].pc = "accepted", tasks'[l] = tasks[l],
             NEW m \in Tasks, Accepts(m)
      PROVE  tasks'[l].copy.hash # tasks'[m].copy.hash
  BY <1>0, <1>3 DEF TaskOK, Accepts
<1>4. ASSUME NEW l \in Tasks, Accepts(l), NEW m \in Tasks, Accepts(m)
      PROVE  l = m
  BY <1>4 DEF Accepts, OneTask
<1>5. ASSUME NEW l \in Tasks, tasks'[l].pc = "accepted",
             tasks'[l].copy.hash = tasks'[k].copy.hash
      PROVE  k = l
  <2>1. CASE tasks'[l] = tasks[l] /\ tasks'[k] = tasks[k]
    BY <1>0, <1>5, <2>1 DEF CopyInv
  <2>2. QED
    BY <1>2, <1>3, <1>4, <1>5, <2>1
<1>6. ASSUME tasks'[k].id \notin resets', tasks'[k] = tasks[k]
      PROVE  rows'[tasks'[k].id].status \notin Sent
  <2> DEFINE i == tasks[k].id
  <2>1. i \in Ids \ resets' /\ i \notin resets /\ rows[i].status # "absent"
    BY <1>0, <1>6 DEF TaskOK
  <2>2. rows[i].status \notin Sent /\ tasks[k].copy.hash = rows[i].hash
    BY <1>0, <1>6, <2>1 DEF CopyInv, Holding
  <2>3. ASSUME NEW l \in Tasks, Records(l), tasks[l].id = i PROVE FALSE
    <3>1. tasks[l].pc = "accepted" /\ tasks'[l].pc = "acted"
      BY <2>3 DEF Records
    <3>2. tasks[l].copy.hash = rows[i].hash
      BY <1>0, <2>1, <2>3, <3>1 DEF CopyInv, Holding
    <3>3. k = l
      BY <1>0, <1>6, <2>2, <3>1, <3>2 DEF CopyInv
    <3>4. QED
      BY <3>1, <3>3
  <2>4. QED
    BY <1>6, <2>1, <2>2, <2>3, FirstStep
<1>7. ASSUME tasks'[k].id \notin resets', Accepts(k)
      PROVE  rows'[tasks'[k].id].status \notin Sent
  <2>1. /\ tasks[k].id \in Ids \ resets /\ tasks'[k].id = tasks[k].id /\ UNCHANGED rows
        /\ tasks[k].copy.hash = rows[tasks[k].id].hash
        /\ \A s \in relay : s.hash # tasks[k].copy.hash
    BY <1>0, <1>7 DEF TaskOK, Accepts, CopyInv, Holding
  <2>2. rows[tasks[k].id].status \in Sent =>
           \E s \in relay : s.hash = rows[tasks[k].id].hash
    BY <2>1 DEF IInv, RowInv, Settled
  <2>3. QED
    BY <2>1, <2>2
<1>8. QED
  BY <1>2, <1>5, <1>6, <1>7

\* The copy a loop holds is the row but for the status.
LEMMA PolledStep ==
  ASSUME IInv, Step, TypeOK', NEW p \in Pollers, NEW i \in Ids \ resets',
         poll'[p][i].status # "absent"
  PROVE  /\ rows'[i].status \in Sent
         /\ rows'[i] = [poll'[p][i] EXCEPT !.status = rows'[i].status]
<1>0. /\ i \notin resets
      /\ rows[i] \in Rows /\ rows'[i] \in Rows /\ poll[p][i] \in Rows /\ poll'[p][i] \in Rows
      /\ rows[i].status \in Sent =>
            /\ rows'[i].status \in Sent
            /\ rows'[i] = [rows[i] EXCEPT !.status = rows'[i].status]
      /\ CopyInv
  BY Basics, RowsStep DEF IInv, TypeOK
<1>1. CASE poll'[p][i] = poll[p][i]
  <2>1. rows[i].status \in Sent /\ rows[i] = [poll[p][i] EXCEPT !.status = rows[i].status]
    BY <1>0, <1>1 DEF CopyInv
  <2>2. rows[i].status \in Statuses \cup Gone /\ rows'[i].status \in Statuses \cup Gone
    BY <1>0 DEF Rows
  <2>3. [rows[i] EXCEPT !.status = rows'[i].status]
          = [poll[p][i] EXCEPT !.status = rows'[i].status]
    BY <1>0, <2>1, <2>2, StatusTwice, Zenon
  <2>4. QED
    BY <1>0, <1>1, <2>1, <2>3, Zenon
<1>2. CASE poll'[p][i] = rows[i] /\ rows[i].status \in Sent
  BY <1>0, <1>2
<1>3. poll'[p][i] = poll[p][i] \/ (poll'[p][i] = rows[i] /\ rows[i].status \in Sent)
  <2>1. CASE Restarts
    BY <2>1, RestartFacts, AbsentFacts DEF Restarts
  <2>2. CASE \E q \in Pollers : Snapshot(q)
    BY <2>2, AbsentFacts DEF Snapshot
  <2>3. CASE \E q \in Pollers, j \in Ids : Resolves(q, j)
    BY <2>3, AbsentFacts DEF Resolves
  <2>4. CASE UNCHANGED poll
    BY <2>4
  <2>5. QED
    BY <2>1, <2>2, <2>3, <2>4 DEF Step, Removes, Enters, Forgets, Taps, Starts, Shows,
       Looks, GivesUp, Estimates, Assigns, Accepts, Records, Ends, Mined
<1>4. QED
  BY <1>1, <1>2, <1>3

LEMMA CopyStep ==
  ASSUME IInv, Step, TypeOK'
  PROVE  CopyInv'
BY HeldHash, AcceptedStep, PolledStep DEF CopyInv

-----------------------------------------------------------------------------
(* The invariant *)

LEMMA InitInv ==
  ASSUME Init
  PROVE  IInv
<1>1. TypeOK
  BY AbsentFacts, NoScreenFacts, IdleFacts, LifecycleAssumption
  DEF Init, TypeOK, NoPoll, ScreenRecords, TaskRecords
<1>2. /\ \A i \in Ids : rows[i] = AbsentRow
      /\ \A v \in Screens : review[v] = NoScreen
      /\ \A k \in Tasks : tasks[k] = IdleTask
      /\ \A p \in Pollers, i \in Ids : poll[p][i] = AbsentRow
      /\ top = 0 /\ input = NoId /\ resets = {} /\ relay = {}
      /\ \A h \in Hashes : receipts[h] = "none"
  BY DEF Init, NoPoll
<1>3. "absent" \notin Sent /\ "idle" \notin Holding
  BY DEF Sent, Processed, Holding
<1>4. RowInv
  BY <1>2, <1>3, AbsentFacts, IdleFacts DEF RowInv, Settled
<1>5. ScreenInv
  BY <1>2, AbsentFacts, NoScreenFacts DEF ScreenInv, CanReset
<1>6. TaskInv /\ EstimatedInv
  BY <1>2, <1>3, IdleFacts DEF TaskInv, TaskOK, EstimatedInv, EstimatedOK
<1>7. QuietInv
  BY <1>2, NoScreenFacts, IdleFacts DEF QuietInv, QuietOK, OnScreen
<1>8. OnceInv
  BY <1>2, NoScreenFacts, IdleFacts, LifecycleAssumption DEF OnceInv
<1>9. CopyInv /\ RelayInv
  BY <1>2, <1>3, AbsentFacts, IdleFacts DEF CopyInv, RelayInv
<1>10. QED
  BY <1>1, <1>4, <1>5, <1>6, <1>7, <1>8, <1>9 DEF IInv

LEMMA InvStep ==
  ASSUME IInv, [Next]_vars
  PROVE  IInv'
<1>1. CASE Next
  <2>1. Step /\ TypeOK'
    BY <1>1, NextStep, TypeStep
  <2>2. QED
    BY <2>1, RowStep, ScreenStep, TaskStepOK, EstimatedStep, QuietStep, OnceStep, CopyStep,
       RelayStep DEF IInv
<1>2. CASE UNCHANGED vars
  <2>1. UNCHANGED <<rows, review, opened, top, input, tasks, poll, asked, relay, receipts,
                    trap, resets, crashes, lost>>
    BY <1>2 DEF vars, ui, outside, counters
  <2>2. TypeOK' /\ RelayInv'
    BY <2>1 DEF IInv, TypeOK, RelayInv
  <2>3. RowInv' /\ CopyInv'
    BY <2>1 DEF IInv, RowInv, WellFormed, Settled, CopyInv
  <2>4. ScreenInv' /\ OnceInv'
    BY <2>1 DEF IInv, ScreenInv, OnceInv
  <2>5. TaskInv' /\ EstimatedInv' /\ QuietInv'
    BY <2>1 DEF IInv, TaskInv, TaskOK, TransactionOf, EstimatedInv, EstimatedOK, QuietInv,
       QuietOK, OnScreen
  <2>6. QED
    BY <2>2, <2>3, <2>4, <2>5 DEF IInv
<1>3. QED
  BY <1>1, <1>2

LEMMA InvHolds == Spec => []IInv
BY InitInv, InvStep, PTL DEF Spec

-----------------------------------------------------------------------------
(* The theorems *)

\* Every row, screen, task, copy and submission has its type in every state, and
\* trap names one of the assertions: no handler uses a screen or a transaction
\* it does not have.
THEOREM LifecycleTypeCorrect == Spec => []TypeOK
<1>1. IInv => TypeOK
  BY DEF IInv
<1>2. QED
  BY <1>1, InvHolds, PTL

\* A pending, successful or failed row is the relay's and the chain's
\* (proceedTransaction, updatePendingTransactions), whichever thread saved its
\* copy of the row last.
THEOREM ListedOutcomeIsTrue == Spec => []OutcomeIsTrue
<1>1. IInv => OutcomeIsTrue
  BY DEF IInv, RowInv, Settled, OutcomeIsTrue
<1>2. QED
  BY <1>1, InvHolds, PTL

\* What the relay accepts carries the owners' signatures over the hash that is
\* submitted (signTransaction, handle(message:)): however estimates, resets and
\* messages interleave, no stale or foreign signature is submitted.
THEOREM RelayedIsConfirmed == Spec => []SubmissionsAreConfirmed
<1>1. Init => SubmissionsAreConfirmed
  BY DEF Init, SubmissionsAreConfirmed
<1>2. ASSUME IInv, SubmissionsAreConfirmed, [Next]_vars
      PROVE  SubmissionsAreConfirmed'
  <2>1. CASE UNCHANGED relay
    BY <1>2, <2>1 DEF SubmissionsAreConfirmed
  <2>2. CASE \E k \in Tasks : Accepts(k)
    <3>1. PICK k \in Tasks : Accepts(k)
      BY <2>2
    <3>2. /\ \A g \in tasks[k].copy.sigs : g.over = tasks[k].copy.hash /\ g.key # "other"
          /\ \E g \in tasks[k].copy.sigs : g.key = "device"
          /\ HasExtension => \E g \in tasks[k].copy.sigs : g.key = "extension"
      BY <1>2, <3>1 DEF Accepts, IInv, RowInv, WellFormed, TaskInv, TaskOK
    <3>3. PICK s \in relay' : /\ relay' = relay \cup {s} /\ s.hash = tasks[k].copy.hash
                              /\ s.sigs = tasks[k].copy.sigs
      BY <3>1 DEF Accepts
    <3>4. QED
      BY <1>2, <3>2, <3>3 DEF SubmissionsAreConfirmed
  <2>3. CASE Next
    BY <1>2, <2>1, <2>2, <2>3, NextStep DEF Step, Restarts, Removes, Enters, Forgets, Taps,
       Starts, Shows, Looks, GivesUp, Estimates, Assigns, Records, Ends, Snapshot, Resolves,
       Mined
  <2>4. CASE UNCHANGED vars
    BY <2>1, <2>4 DEF vars, outside
  <2>5. QED
    BY <1>2, <2>3, <2>4
<1>3. QED
  BY <1>1, <1>2, InvHolds, PTL DEF Spec

\* A final status stays: no late answer, second loop or second task replaces a row
\* that has one (save(_:) of a copy found earlier), unless it is reset.
THEOREM FinalRowsStay == Spec => FinalStaysFinal
<1>1. ASSUME IInv, Next, NEW i \in Ids \ resets, rows[i].status \in Processed
      PROVE  rows'[i] = rows[i]
  <2>0. /\ Step /\ IInv' /\ rows[i] \in Rows /\ rows'[i] \in Rows
        /\ rows[i].status \in Sent /\ ~CanReset(rows[i])
    <3>1. Step /\ IInv' /\ TypeOK /\ TypeOK'
      BY <1>1, NextStep, InvStep DEF IInv
    <3>2. QED
      BY <1>1, <3>1 DEF TypeOK, Sent, Processed, CanReset
  <2>1. i \notin resets'
    BY <1>1, <2>0 DEF Step, Restarts, Removes, Enters, Forgets, Taps, Starts, Shows, Looks,
       GivesUp, Estimates, Assigns, Accepts, Records, Ends, Snapshot, Resolves, Mined
  <2>2. /\ rows'[i].status \in Sent
        /\ rows'[i] = [rows[i] EXCEPT !.status = rows'[i].status]
    BY <1>1, <2>0, <2>1, RowsStep
  <2>3. ASSUME rows'[i].status = "pending" PROVE FALSE
    <3>1. rows'[i] # rows[i]
      BY <1>1, <2>3 DEF Processed
    <3>2. CASE \E k \in Tasks : Records(k)
      BY <1>1, <2>0, <3>1, <3>2 DEF Records, OneRow, IInv, CopyInv
    <3>3. CASE \E p \in Pollers, j \in Ids : Resolves(p, j)
      <4>1. PICK p \in Pollers, j \in Ids : Resolves(p, j)
        BY <3>3
      <4>2. j = i /\ receipts[poll[p][i].sub] \in Processed
            /\ rows'[i] = [poll[p][i] EXCEPT !.status = receipts[poll[p][i].sub]]
        BY <1>1, <3>1, <4>1 DEF Resolves, OneRow
      <4>3. poll[p][i] \in Rows /\ receipts[poll[p][i].sub] \in Statuses \cup Gone
        BY <1>1, <4>2, Basics DEF IInv, Statuses, Sent
      <4> DEFINE copy == poll[p][i]
                 st == receipts[copy.sub]
      <4>4. rows'[i].status = st
        <5> HIDE DEF copy, st
        <5>1. copy \in Rows /\ st \in Statuses \cup Gone /\ rows'[i] = [copy EXCEPT !.status = st]
          BY <4>2, <4>3 DEF copy, st
        <5>2. [copy EXCEPT !.status = st].status = st
          BY <5>1, StatusFacts, Zenon
        <5>3. QED
          BY <5>1, <5>2, Zenon
      <4>5. QED
        BY <2>3, <4>2, <4>4 DEF Processed
    <3>4. QED
      BY <1>1, <2>0, <2>1, <2>3, <3>1, <3>2, <3>3 DEF Step, Restarts, Removes, Enters,
         Forgets, Taps, Starts, Shows, Looks, GivesUp, Estimates, Assigns, Accepts, Ends,
         Snapshot, Mined, OneRow
  <2>4. rows'[i].status \in Processed
    BY <2>2, <2>3 DEF Sent
  <2>5. rows'[i].sub = rows[i].sub
    <3>1. rows'[i].status \in Statuses \cup Gone
      BY <2>0 DEF Rows
    <3>2. [rows[i] EXCEPT !.status = rows'[i].status].sub = rows[i].sub
      BY <2>0, <3>1, StatusFacts, Zenon
    <3>3. QED
      BY <2>2, <3>2, Zenon
  <2>6. /\ receipts[rows[i].sub] = rows[i].status /\ rows[i].sub \in Hashes
        /\ receipts'[rows'[i].sub] = rows'[i].status
    BY <1>1, <2>0, <2>2, <2>4 DEF IInv, RowInv, Settled, TypeOK
  <2>7. receipts'[rows[i].sub] = receipts[rows[i].sub]
    BY <1>1, <2>0, <2>6, RelayStep DEF Processed
  <2>8. rows'[i].status = rows[i].status
    BY <2>5, <2>6, <2>7
  <2>9. rows[i] = [rows[i] EXCEPT !.status = rows[i].status]
    BY <2>0 DEF Rows
  <2>10. QED
    BY <2>2, <2>8, <2>9
<1>2. ASSUME IInv, [Next]_vars
      PROVE  [\A i \in Ids \ resets : rows[i].status \in Processed => rows'[i] = rows[i]]_vars
  BY <1>1, <1>2
<1>3. QED
  BY <1>2, InvHolds, PTL DEF Spec, FinalStaysFinal

\* Unless the process died or an answer was lost, a task that has the relay's
\* answer keeps it until it saves the row.
LEMMA AnswerKept ==
  ASSUME IInv, Next, crashes' = 0, lost' = 0, trap' = "none"
  PROVE  /\ crashes = 0 /\ lost = 0 /\ trap = "none"
         /\ \A k \in Tasks : tasks[k].pc = "accepted" => tasks'[k] = tasks[k] \/ Records(k)
<1>0. /\ TypeOK /\ tasks \in [Tasks -> TaskRecords] /\ crashes \in Nat /\ lost \in Nat
  BY Basics DEF IInv, TypeOK
<1>1. ASSUME NEW name \in {"find", "hash", "reset", "sign", "unsigned", "setHash"}, Trap(name)
      PROVE  FALSE
  BY <1>1 DEF Trap
<1>2. CASE UserStep
  BY <1>0, <1>1, <1>2 DEF UserStep, ProceedToSigning, Back, LeaveInput, TapRejected, TapReady,
     Unlocked, TapResend, Spawns, Free, counters
<1>3. CASE MessageStep
  BY <1>3 DEF MessageStep, ReceiveConfirmed, ReceiveRejected, ReceiveNew, ReceiveKnown,
     counters
<1>4. CASE Crash
  BY <1>0, <1>4 DEF Crash
<1>5. CASE \E v \in Screens : ScheduledRequest(v)
  BY <1>0, <1>5 DEF ScheduledRequest, Spawns, Free, counters
<1>6. CASE \E k \in Tasks : TaskStep(k)
  <2>1. PICK k \in Tasks : TaskStep(k)
    BY <1>6
  <2>2. CASE TaskStart(k) \/ ActRequest(k) \/ \E n \in Nonces : EstimateAnswers(k, n)
    BY <1>0, <1>1, <2>2 DEF TaskStart, ActRequest, EstimateAnswers, At, Returns, Waits,
       UnchangedForTask, counters
  <2>3. CASE ActSubmit(k) \/ NotifyAnswers(k)
    BY <1>0, <1>1, <2>3 DEF ActSubmit, NotifyAnswers, Signs, At, Returns, Waits,
       UnchangedForTask, counters
  <2>4. CASE TaskEstimated(k) \/ TaskActed(k) \/ TaskShows(k) \/ TaskFailed(k)
             \/ TaskThrows(k) \/ RelayAccepts(k)
    BY <1>0, <2>4 DEF TaskEstimated, TaskActed, AssignsTx, TaskShows, TaskFailed, TaskThrows,
       RelayAccepts, At, Goes, UnchangedForTask, counters
  <2>5. CASE RelayAnswerLost(k)
    BY <1>0, <2>5 DEF RelayAnswerLost
  <2>6. CASE RelayAnswers(k)
    <3>1. Records(k)
      BY <1>1, <2>6, AnswersStep
    <3>2. UNCHANGED <<crashes, lost, trap>>
      BY <1>1, <2>6 DEF RelayAnswers, UnchangedForTask, counters
    <3>3. QED
      BY <3>1, <3>2 DEF Records, OneTask
  <2>7. QED
    BY <2>1, <2>2, <2>3, <2>4, <2>5, <2>6 DEF TaskStep
<1>7. CASE \E p \in Pollers : PollStep(p)
  BY <1>7 DEF PollStep, PollBegins, PollThrows, PollLooks, counters
<1>8. CASE \E h \in Hashes, outcome \in Processed : Mine(h, outcome)
  BY <1>8 DEF Mine, counters
<1>9. QED
  BY <1>2, <1>3, <1>4, <1>5, <1>6, <1>7, <1>8 DEF Next

\* While the process lives, what the relay accepted is in the list or in the hands
\* of the task that will save it (submitTransaction, proceedTransaction): no other
\* thread's save of an older copy takes it out, unless the transaction is reset.
THEOREM AcceptedStaysRecorded == Spec => []AcceptedIsRecorded
<1>1. Init => AcceptedIsRecorded
  BY DEF Init, AcceptedIsRecorded
<1>2. ASSUME IInv, AcceptedIsRecorded, Next
      PROVE  AcceptedIsRecorded'
  <2>0. SUFFICES ASSUME crashes' = 0, lost' = 0, trap' = "none",
                        NEW s \in relay', s.id \notin resets'
                 PROVE  \/ rows'[s.id].status \in Sent /\ rows'[s.id].sub = s.hash
                        \/ \E k \in Tasks : /\ tasks'[k].pc = "accepted"
                                            /\ tasks'[k].copy.hash = s.hash
    BY DEF AcceptedIsRecorded, At
  <2>1. /\ Step /\ TypeOK /\ resets \subseteq resets' /\ crashes = 0 /\ lost = 0 /\ trap = "none"
        /\ \A k \in Tasks : tasks[k].pc = "accepted" => tasks'[k] = tasks[k] \/ Records(k)
    BY <1>2, <2>0, NextStep, RowsStep, AnswerKept DEF IInv
  <2>2. CASE s \in relay /\ rows[s.id].status \in Sent /\ rows[s.id].sub = s.hash
    <3>1. s.id \in Ids \ resets' /\ rows[s.id] \in Rows /\ rows'[s.id] \in Rows
      BY <1>2, <2>0, <2>1, <2>2, RowsStep DEF TypeOK
    <3>2. /\ rows'[s.id].status \in Sent
          /\ rows'[s.id] = [rows[s.id] EXCEPT !.status = rows'[s.id].status]
      BY <1>2, <2>1, <2>2, <3>1, RowsStep
    <3>3. rows'[s.id].status \in Statuses \cup Gone
      BY <3>1 DEF Rows
    <3>4. [rows[s.id] EXCEPT !.status = rows'[s.id].status].sub = rows[s.id].sub
      BY <3>1, <3>3, StatusFacts, Zenon
    <3>5. rows'[s.id].sub = rows[s.id].sub
      BY <3>2, <3>4, Zenon
    <3>6. QED
      BY <2>2, <3>2, <3>5
  <2>3. CASE s \in relay /\ \E k \in Tasks : tasks[k].pc = "accepted" /\ tasks[k].copy.hash = s.hash
    <3>1. PICK k \in Tasks : tasks[k].pc = "accepted" /\ tasks[k].copy.hash = s.hash
      BY <2>3
    <3>2. CASE tasks'[k] = tasks[k]
      BY <3>1, <3>2
    <3>3. CASE Records(k)
      <4>1. tasks[k].id = s.id
        BY <1>2, <2>3, <3>1 DEF IInv, TaskInv, TaskOK, RelayInv
      <4>2. QED
        BY <3>1, <3>3, <4>1 DEF Records, Sent
    <3>4. QED
      BY <2>1, <3>1, <3>2, <3>3
  <2>4. CASE s \in relay
    BY <1>2, <2>0, <2>1, <2>2, <2>3, <2>4 DEF AcceptedIsRecorded, At
  <2>5. CASE s \notin relay
    <3>1. \E k \in Tasks : Accepts(k)
      BY <2>0, <2>1, <2>5 DEF Step, Restarts, Removes, Enters, Forgets, Taps, Starts, Shows,
         Looks, GivesUp, Estimates, Assigns, Records, Ends, Snapshot, Resolves, Mined
    <3>2. QED
      BY <2>0, <2>5, <3>1 DEF Accepts
  <2>6. QED
    BY <2>4, <2>5
<1>3. ASSUME AcceptedIsRecorded, UNCHANGED vars
      PROVE  AcceptedIsRecorded'
  BY <1>3 DEF vars, ui, outside, counters, AcceptedIsRecorded, At
<1>4. QED
  BY <1>1, <1>2, <1>3, InvHolds, PTL DEF Spec

=============================================================================
