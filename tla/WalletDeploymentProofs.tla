----------------------- MODULE WalletDeploymentProofs -----------------------
(***************************************************************************)
(* Proofs about WalletDeployment, for every number of threads, addresses,  *)
(* errors, aborts and crashes.                                             *)
(***************************************************************************)
EXTENDS WalletDeployment, TLAPS

---------------------------------------------------------------------------
(* What the helpers of the actions preserve *)

\* Each state of a deployment in progress has an event of its own to republish
\* (the resume() methods of WalletStates.swift).
LEMMA ResumeEventType ==
  ASSUME NEW s \in WState, InProgress(s)
  PROVE  /\ ResumeEvent[s] \in WorkEvent
         /\ ResumeEvent[s] \in Event
BY DEF WState, InProgress, ResumeEvent, WorkEvent, Event

\* proceed() moves a wallet from a state to a state that is not a draft.
LEMMA NextStateType ==
  ASSUME NEW s \in WState, NEW b \in Nat
  PROVE  /\ NextState(s, b) \in WState
         /\ NextState(s, b) # "draft"
BY DEF WState, NextState

\* Publishing an event keeps the dispatch counts natural numbers.
LEMMA PublishType ==
  ASSUME TypeOK, NEW e \in Event, Publish(e)
  PROVE  pending' \in [Event -> Nat]
BY DEF TypeOK, ThreadsOK, Publish

\* Updating the fields of a thread leaves a thread.
LEMMA ThreadFields ==
  ASSUME NEW x \in ThreadState, NEW p \in PC
  PROVE  /\ [x EXCEPT !.pc = p] \in ThreadState
         /\ \A r \in Row : [x EXCEPT !.pc = p, !.w = r] \in ThreadState
         /\ \A s \in {"stopped", "running", "waiting"} :
              [x EXCEPT !.pc = p, !.rep = s] \in ThreadState
         /\ \A b \in 0..MinAmount :
              [x EXCEPT !.pc = p, !.bal = b] \in ThreadState
         /\ \A j \in Job, r \in Row :
              [x EXCEPT !.pc = p, !.job = j, !.w = r] \in ThreadState
<1>1. [x EXCEPT !.pc = p] \in ThreadState
  BY DEF ThreadState
<1>2. ASSUME NEW r \in Row
      PROVE  [x EXCEPT !.pc = p, !.w = r] \in ThreadState
  BY DEF ThreadState
<1>3. ASSUME NEW s \in {"stopped", "running", "waiting"}
      PROVE  [x EXCEPT !.pc = p, !.rep = s] \in ThreadState
  BY DEF ThreadState
<1>4. ASSUME NEW b \in 0..MinAmount
      PROVE  [x EXCEPT !.pc = p, !.bal = b] \in ThreadState
  BY DEF ThreadState
<1>5. ASSUME NEW j \in Job, NEW r \in Row
      PROVE  [x EXCEPT !.pc = p, !.job = j, !.w = r] \in ThreadState
  BY DEF ThreadState
<1>6. QED
  BY <1>1, <1>2, <1>3, <1>4, <1>5

\* A thread without work is a thread.
LEMMA IdleThreadType == IdleThread \in ThreadState
<1>1. DraftRow \in Row
  BY DEF DraftRow, Row, WState
<1>2. QED
  BY <1>1, ConstantsAssumption DEF IdleThread, ThreadState, PC, Job

\* A finished handler leaves a well-typed thread table.
LEMMA FinishType ==
  ASSUME TypeOK, NEW t \in Thread, Finish(t), pending' \in [Event -> Nat]
  PROVE  ThreadsOK'
BY IdleThreadType DEF TypeOK, ThreadsOK, Finish

\* A thread that moves on leaves a well-typed thread table.
LEMMA ThreadType ==
  ASSUME TypeOK, NEW t \in Thread, NEW r \in ThreadState,
         th' = [th EXCEPT ![t] = r],
         pending' \in [Event -> Nat],
         registered' \subseteq Thread,
         stopping' \subseteq Thread
  PROVE  ThreadsOK'
BY DEF TypeOK, ThreadsOK

\* The state after the process is gone is well-typed.
LEMMA DownType ==
  ASSUME Down
  PROVE  ScreenOK' /\ ThreadsOK'
BY IdleThreadType, ConstantsAssumption DEF Down, ScreenOK, ThreadsOK, View, Shown, Ui

\* wallet.proceed() saves a well-typed row and publishes an event.
LEMMA ProceedType ==
  ASSUME TypeOK, NEW r \in Row, ProceedWith(r)
  PROVE  /\ db' \in Row
         /\ pending' \in [Event -> Nat]
<1> DEFINE new == [r EXCEPT !.state = NextState(r.state, account)]
           e == IF new.state = "readyToUse" THEN "WalletCreated"
                ELSE ResumeEvent[new.state]
<1>1. account \in Nat
  BY ConstantsAssumption DEF TypeOK, StoreOK
<1>2. /\ new \in Row
      /\ new.state # "draft"
  BY <1>1, NextStateType DEF Row
<1>3. e \in Event
  <2>1. CASE new.state = "readyToUse"
    BY <2>1 DEF Event
  <2>2. CASE new.state # "readyToUse"
    <3>1. new.state \in WState /\ InProgress(new.state)
      BY <1>2, <2>2 DEF Row, InProgress
    <3>2. QED
      BY <2>2, <3>1, ResumeEventType
  <2>3. QED
    BY <2>1, <2>2
<1>4. CASE r.state = "readyToUse"
  BY <1>4 DEF ProceedWith, TypeOK, StoreOK, ThreadsOK
<1>5. CASE r.state # "readyToUse"
  <2>1. db' = new /\ Publish(e)
    BY <1>5 DEF ProceedWith
  <2>2. QED
    BY <2>1, <1>2, <1>3, PublishType
<1>6. QED
  BY <1>4, <1>5

\* wallet.cancel() saves a well-typed row and publishes an event.
LEMMA CancelType ==
  ASSUME TypeOK, NEW r \in Row, CancelWith(r)
  PROVE  /\ db' \in Row
         /\ pending' \in [Event -> Nat]
<1>1. DraftRow \in Row
  BY DEF DraftRow, Row, WState
<1>2. /\ "DeploymentAborted" \in Event
      /\ "WalletCreationFailed" \in Event
  BY DEF Event
<1>3. CASE r.state \in Cancellable
  BY <1>1, <1>2, <1>3, PublishType DEF CancelWith, TypeOK, StoreOK, ThreadsOK
<1>4. CASE r.state \notin Cancellable /\ r.state = "finalizingDeployment"
  BY <1>2, <1>4, PublishType DEF CancelWith, TypeOK, StoreOK, ThreadsOK
<1>5. CASE r.state \notin Cancellable /\ r.state # "finalizingDeployment"
  BY <1>5 DEF CancelWith, TypeOK, StoreOK, ThreadsOK
<1>6. QED
  BY <1>3, <1>4, <1>5

\* What follows a repeater is well-typed.
LEMMA AfterRepeaterType ==
  ASSUME TypeOK, NEW t \in Thread, NEW r \in Row, AfterRepeater(t, r),
         pending' \in [Event -> Nat]
  PROVE  ThreadsOK'
<1>1. CASE th[t].job = "hash"
  <2>1. [IdleThread EXCEPT !.pc = "add", !.job = "receipt", !.w = r]
          \in ThreadState
    BY IdleThreadType, ThreadFields DEF PC, Job
  <2>2. QED
    BY <1>1, <2>1 DEF AfterRepeater, TypeOK, ThreadsOK
<1>2. CASE th[t].job # "hash"
  BY <1>2, FinishType DEF AfterRepeater
<1>3. QED
  BY <1>1, <1>2

---------------------------------------------------------------------------
(* Type correctness *)

\* Every step keeps the Boolean variables Boolean.
LEMMA FlagsStep == TypeOK /\ Next => FlagsOK'
<1> SUFFICES ASSUME TypeOK, Next PROVE FlagsOK'
  OBVIOUS
<1>s. ScreenOpen \in BOOLEAN
  BY DEF ScreenOpen
<1> USE DEF TypeOK, FlagsOK, store, world, screen
<1>1. ASSUME NEW t \in Thread, OpenScreen(t)
      PROVE  FlagsOK'
  BY Zenon, <1>1 DEF OpenScreen
<1>2. ASSUME NEW t \in Thread, Retry(t)
      PROVE  FlagsOK'
  BY Zenon, <1>2 DEF Retry
<1>3. ASSUME NEW t \in Thread, ConfirmAbort(t)
      PROVE  FlagsOK'
  BY Zenon, <1>3 DEF ConfirmAbort
<1>4. ASSUME NEW t \in Thread, Unsubscribe(t)
      PROVE  FlagsOK'
  BY Zenon, <1>4 DEF Unsubscribe
<1>5. ASSUME NEW t \in Thread, Subscribe(t)
      PROVE  FlagsOK'
  BY Zenon, <1>5 DEF Subscribe
<1>6. ASSUME NEW t \in Thread, ReadWallet(t)
      PROVE  FlagsOK'
  BY Zenon, <1>6 DEF ReadWallet
<1>7. ASSUME NEW t \in Thread, Resume(t)
      PROVE  FlagsOK'
  BY Zenon, <1>7, <1>s DEF Resume, Publish, ProceedWith
<1>8. ASSUME NEW t \in Thread, NEW e \in Event, Begin(t, e)
      PROVE  FlagsOK'
  BY Zenon, <1>8 DEF Begin
<1>9. ASSUME NEW t \in Thread, NEW a \in Addr, Request(t, a)
      PROVE  FlagsOK'
  BY Zenon, <1>9 DEF Request, Down
<1>10. ASSUME NEW t \in Thread, Proceed(t)
      PROVE  FlagsOK'
  BY Zenon, <1>10, <1>s DEF Proceed, Publish, ProceedWith
<1>11. ASSUME NEW t \in Thread, StartCreation(t)
      PROVE  FlagsOK'
  BY Zenon, <1>11 DEF StartCreation
<1>12. ASSUME NEW t \in Thread, NotifyCreated(t)
      PROVE  FlagsOK'
  BY Zenon, <1>12 DEF NotifyCreated
<1>13. ASSUME NEW t \in Thread, AddRepeater(t)
      PROVE  FlagsOK'
  BY Zenon, <1>13 DEF AddRepeater
<1>14. ASSUME NEW t \in Thread, RunRepeater(t)
      PROVE  FlagsOK'
  BY Zenon, <1>14 DEF RunRepeater
<1>15. ASSUME NEW t \in Thread, EndOfTurn(t)
      PROVE  FlagsOK'
  BY Zenon, <1>15 DEF EndOfTurn
<1>16. ASSUME NEW t \in Thread, Wake(t)
      PROVE  FlagsOK'
  BY Zenon, <1>16 DEF Wake
<1>17. ASSUME NEW t \in Thread, PollBalance(t)
      PROVE  FlagsOK'
  BY Zenon, <1>17 DEF PollBalance
<1>18. ASSUME NEW t \in Thread, StoreBalance(t)
      PROVE  FlagsOK'
  BY Zenon, <1>18 DEF StoreBalance
<1>19. ASSUME NEW t \in Thread, PollHash(t)
      PROVE  FlagsOK'
  BY Zenon, <1>19, <1>s DEF PollHash, Down
<1>20. ASSUME NEW t \in Thread, PollReceipt(t)
      PROVE  FlagsOK'
  BY Zenon, <1>20, <1>s DEF PollReceipt, Publish, ProceedWith, CancelWith
<1>21. ASSUME NEW t \in Thread, AbortCancel(t)
      PROVE  FlagsOK'
  BY Zenon, <1>21 DEF AbortCancel, CancelWith, Publish
<1>22. ASSUME NEW t \in Thread, AbortSave(t)
      PROVE  FlagsOK'
  BY Zenon, <1>22 DEF AbortSave, PopScreen
<1>23. ASSUME NEW t \in Thread, StopRepeater(t)
      PROVE  FlagsOK'
  BY Zenon, <1>23 DEF StopRepeater
<1>24. ASSUME NEW t \in Thread, Trap(t)
      PROVE  FlagsOK'
  BY Zenon, <1>24 DEF Trap, Down
<1>25. ASSUME NEW t \in Thread, NetworkError(t)
      PROVE  FlagsOK'
  BY Zenon, <1>25 DEF NetworkError
<1>26. ASSUME NEW t \in Thread, FatalError(t)
      PROVE  FlagsOK'
  BY Zenon, <1>26 DEF FatalError
<1>27. ASSUME AskToAbort
      PROVE  FlagsOK'
  BY Zenon, <1>27 DEF AskToAbort
<1>28. ASSUME DismissAlert
      PROVE  FlagsOK'
  BY Zenon, <1>28 DEF DismissAlert
<1>28a. ASSUME ConfirmFailure
      PROVE  FlagsOK'
  BY Zenon, <1>28a DEF ConfirmFailure, PopScreen
<1>28b. ASSUME Configure
      PROVE  FlagsOK'
  BY Zenon, <1>28b DEF Configure
<1>28c. ASSUME PrepareForCreation
      PROVE  FlagsOK'
  BY Zenon, <1>28c DEF PrepareForCreation
<1>29. ASSUME HandleAborted
      PROVE  FlagsOK'
  BY Zenon, <1>29 DEF HandleAborted
<1>30. ASSUME HandleCreationFailed
      PROVE  FlagsOK'
  BY Zenon, <1>30 DEF HandleCreationFailed, Down
<1>31. ASSUME ReadState
      PROVE  FlagsOK'
  BY Zenon, <1>31 DEF ReadState
<1>32. ASSUME NEW v \in Shown, ShowState(v)
      PROVE  FlagsOK'
  BY Zenon, <1>32 DEF ShowState
<1>33. ASSUME Launch
      PROVE  FlagsOK'
  BY Zenon, <1>33 DEF Launch
<1>34. ASSUME Crash
      PROVE  FlagsOK'
  BY Zenon, <1>34 DEF Crash, Down
<1>35. ASSUME NEW a \in Addr, Deposit(a)
      PROVE  FlagsOK'
  BY Zenon, <1>35 DEF Deposit
<1>36. ASSUME NEW a \in Addr, RelaySubmits(a)
      PROVE  FlagsOK'
  BY Zenon, <1>36 DEF RelaySubmits
<1>37. ASSUME NEW a \in Addr, Mined(a)
      PROVE  FlagsOK'
  BY Zenon, <1>37 DEF Mined
<1>38. QED
  BY Zenon,
     <1>1, <1>2, <1>3, <1>4, <1>5, <1>6, <1>7, <1>8, <1>9, <1>10, <1>11, <1>12,
     <1>13, <1>14, <1>15, <1>16, <1>17, <1>18, <1>19, <1>20, <1>21, <1>22, <1>23, <1>24,
     <1>25, <1>26, <1>27, <1>28, <1>28a, <1>28b, <1>28c, <1>29, <1>30, <1>31, <1>32, <1>33, <1>34, <1>35, <1>36,
     <1>37
  DEF Next, Work, User, Outside, Failure

\* Everything but the flags is well-typed.
DataOK == StoreOK /\ WorldOK /\ ScreenOK /\ ThreadsOK /\ BoundsOK

\* What the type of the thread table says of one thread.
LEMMA ThreadOf ==
  ASSUME TypeOK, NEW t \in Thread
  PROVE  /\ th[t] \in ThreadState
         /\ th[t].w \in Row
         /\ th[t].bal \in 0..MinAmount
         /\ th[t].w.address \in Addr \cup {None}
         /\ th[t].w.hash \in Addr \cup {None}
         /\ db \in Row
         /\ pending \in [Event -> Nat]
         /\ registered \subseteq Thread
         /\ stopping \subseteq Thread
BY DEF TypeOK, ThreadsOK, StoreOK, ThreadState, Row

\* Every step keeps the other variables in their types.
LEMMA DataStep == TypeOK /\ Next => DataOK'
<1> SUFFICES ASSUME TypeOK, Next PROVE DataOK'
  OBVIOUS
<1> USE ConstantsAssumption, ThreadOf
<1>1. ASSUME NEW t \in Thread, OpenScreen(t)
      PROVE  DataOK'
  <2>1. [th[t] EXCEPT !.pc = "unsubscribe"]
          \in ThreadState
    BY <1>1, ThreadFields DEF PC
  <2>2. ThreadsOK'
    BY <1>1, <2>1, ThreadType DEF OpenScreen, Goto, loops
  <2>3. StoreOK' /\ WorldOK' /\ ScreenOK' /\ BoundsOK'
    BY <1>1 DEF OpenScreen, TypeOK, StoreOK, WorldOK, ScreenOK, BoundsOK,
           View, Shown, Ui, PopScreen, store, world, screen
  <2>4. QED
    BY <2>2, <2>3 DEF DataOK
<1>2. ASSUME NEW t \in Thread, Retry(t)
      PROVE  DataOK'
  <2>1. [th[t] EXCEPT !.pc = "unsubscribe"]
          \in ThreadState
    BY <1>2, ThreadFields DEF PC
  <2>2. ThreadsOK'
    BY <1>2, <2>1, ThreadType DEF Retry, Goto, loops
  <2>3. StoreOK' /\ WorldOK' /\ ScreenOK' /\ BoundsOK'
    BY <1>2 DEF Retry, TypeOK, StoreOK, WorldOK, ScreenOK, BoundsOK,
           View, Shown, Ui, PopScreen, store, world, screen
  <2>4. QED
    BY <2>2, <2>3 DEF DataOK
<1>3. ASSUME NEW t \in Thread, ConfirmAbort(t)
      PROVE  DataOK'
  <2>1. [th[t] EXCEPT !.pc = "abort", !.w = db]
          \in ThreadState
    BY <1>3, ThreadFields DEF PC
  <2>2. ThreadsOK'
    BY <1>3, <2>1, ThreadType DEF ConfirmAbort, Goto, loops
  <2>3. StoreOK' /\ WorldOK' /\ ScreenOK' /\ BoundsOK'
    BY <1>3 DEF ConfirmAbort, TypeOK, StoreOK, WorldOK, ScreenOK, BoundsOK,
           View, Shown, Ui, PopScreen, store, world, screen
  <2>4. QED
    BY <2>2, <2>3 DEF DataOK
<1>4. ASSUME NEW t \in Thread, Unsubscribe(t)
      PROVE  DataOK'
  <2>1. [th[t] EXCEPT !.pc = "subscribe"]
          \in ThreadState
    BY <1>4, ThreadFields DEF PC
  <2>2. ThreadsOK'
    BY <1>4, <2>1, ThreadType DEF Unsubscribe, Goto, loops
  <2>3. StoreOK' /\ WorldOK' /\ ScreenOK' /\ BoundsOK'
    BY <1>4 DEF Unsubscribe, TypeOK, StoreOK, WorldOK, ScreenOK, BoundsOK,
           View, Shown, Ui, PopScreen, store, world, screen
  <2>4. QED
    BY <2>2, <2>3 DEF DataOK
<1>5. ASSUME NEW t \in Thread, Subscribe(t)
      PROVE  DataOK'
  <2>1. [th[t] EXCEPT !.pc = "read"]
          \in ThreadState
    BY <1>5, ThreadFields DEF PC
  <2>2. ThreadsOK'
    BY <1>5, <2>1, ThreadType DEF Subscribe, Goto, loops
  <2>3. StoreOK' /\ WorldOK' /\ ScreenOK' /\ BoundsOK'
    BY <1>5 DEF Subscribe, TypeOK, StoreOK, WorldOK, ScreenOK, BoundsOK,
           View, Shown, Ui, PopScreen, store, world, screen
  <2>4. QED
    BY <2>2, <2>3 DEF DataOK
<1>6. ASSUME NEW t \in Thread, ReadWallet(t)
      PROVE  DataOK'
  <2>1. [th[t] EXCEPT !.pc = "resume", !.w = db]
          \in ThreadState
    BY <1>6, ThreadFields DEF PC
  <2>2. ThreadsOK'
    BY <1>6, <2>1, ThreadType DEF ReadWallet, Goto, loops
  <2>3. StoreOK' /\ WorldOK' /\ ScreenOK' /\ BoundsOK'
    BY <1>6 DEF ReadWallet, TypeOK, StoreOK, WorldOK, ScreenOK, BoundsOK,
           View, Shown, Ui, PopScreen, store, world, screen
  <2>4. QED
    BY <2>2, <2>3 DEF DataOK
<1>7. ASSUME NEW t \in Thread, Resume(t)
      PROVE  DataOK'
  <2>1. db' \in Row /\ pending' \in [Event -> Nat]
    <3>1. CASE th[t].w.state = "draft"
      BY <1>7, <3>1, ProceedType DEF Resume, InProgress
    <3>2. CASE InProgress(th[t].w.state)
      BY <1>7, <3>2, ResumeEventType, PublishType DEF Resume, InProgress, Row
    <3>3. CASE th[t].w.state = "readyToUse"
      BY <1>7, <3>3 DEF Resume, InProgress
    <3>4. QED
      BY <3>1, <3>2, <3>3 DEF InProgress
  <2>2. ThreadsOK'
    BY <1>7, <2>1, FinishType DEF Resume
  <2>3. StoreOK' /\ WorldOK' /\ ScreenOK' /\ BoundsOK'
    BY <1>7, <2>1 DEF Resume, TypeOK, StoreOK, WorldOK, ScreenOK, BoundsOK,
           View, Shown, Ui, PopScreen, store, world, screen
  <2>4. QED
    BY <2>2, <2>3 DEF DataOK
<1>8. ASSUME NEW t \in Thread, NEW e \in Event, Begin(t, e)
      PROVE  DataOK'
  <2>1. FirstStep(e) \in PC /\ FirstJob(e, db) \in Job
    BY DEF FirstStep, FirstJob, PC, Job
  <2>2. [IdleThread EXCEPT !.pc = FirstStep(e), !.job = FirstJob(e, db),
                           !.w = db] \in ThreadState
    BY <2>1, IdleThreadType, ThreadFields
  <2>3. pending' \in [Event -> Nat]
    BY <1>8 DEF Begin
  <2>4. ThreadsOK'
    BY <1>8, <2>2, <2>3, ThreadType DEF Begin, loops
  <2>5. StoreOK' /\ WorldOK' /\ ScreenOK' /\ BoundsOK'
    BY <1>8 DEF Begin, TypeOK, StoreOK, WorldOK, ScreenOK, BoundsOK,
           View, Shown, Ui, PopScreen, store, world, screen
  <2>6. QED
    BY <2>4, <2>5 DEF DataOK
<1>9. ASSUME NEW t \in Thread, NEW a \in Addr, Request(t, a)
      PROVE  DataOK'
  <2>1. StoreOK' /\ WorldOK' /\ BoundsOK'
    BY <1>9 DEF Request, TypeOK, StoreOK, WorldOK, BoundsOK, RelayStatus, store
  <2>2. CASE th[t].w.state = "deploying"
    <3>1. [th[t] EXCEPT !.pc = "proceed", !.w.address = a] \in ThreadState
      BY DEF ThreadState, Row, PC
    <3>2. ThreadsOK' /\ ScreenOK'
      BY <1>9, <2>2, <3>1, ThreadType
      DEF Request, loops, TypeOK, ScreenOK, screen
    <3>3. QED
      BY <2>1, <3>2 DEF DataOK
  <2>3. CASE th[t].w.state # "deploying"
    BY <1>9, <2>1, <2>3, DownType DEF Request, DataOK
  <2>4. QED
    BY <2>2, <2>3
<1>10. ASSUME NEW t \in Thread, Proceed(t)
      PROVE  DataOK'
  <2>1. db' \in Row /\ pending' \in [Event -> Nat]
    BY <1>10, ProceedType DEF Proceed
  <2>3. ThreadsOK'
    BY <1>10, <2>1, FinishType DEF Proceed
  <2>4. StoreOK' /\ WorldOK' /\ ScreenOK' /\ BoundsOK'
    BY <1>10, <2>1 DEF Proceed, TypeOK, StoreOK, WorldOK, ScreenOK, BoundsOK,
           View, Shown, Ui, PopScreen, store, world, screen
  <2>5. QED
    BY <2>3, <2>4 DEF DataOK
<1>11. ASSUME NEW t \in Thread, StartCreation(t)
      PROVE  DataOK'
  <2>1. [th[t] EXCEPT !.pc = "proceed"]
          \in ThreadState
    BY <1>11, ThreadFields DEF PC
  <2>2. ThreadsOK'
    BY <1>11, <2>1, ThreadType DEF StartCreation, Goto, loops
  <2>3. StoreOK' /\ WorldOK' /\ ScreenOK' /\ BoundsOK'
    BY <1>11 DEF StartCreation, TypeOK, StoreOK, WorldOK, ScreenOK, BoundsOK,
           View, Shown, Ui, PopScreen, store, world, screen, RelayStatus
  <2>4. QED
    BY <2>2, <2>3 DEF DataOK
<1>12. ASSUME NEW t \in Thread, NotifyCreated(t)
      PROVE  DataOK'
  <2>1. ThreadsOK'
    BY <1>12, FinishType DEF NotifyCreated
  <2>2. StoreOK' /\ WorldOK' /\ ScreenOK' /\ BoundsOK'
    BY <1>12 DEF NotifyCreated, TypeOK, StoreOK, WorldOK, ScreenOK, BoundsOK,
           View, Shown, Ui, PopScreen, store, world, screen
  <2>3. QED
    BY <2>1, <2>2 DEF DataOK
<1>13. ASSUME NEW t \in Thread, AddRepeater(t)
      PROVE  DataOK'
  <2>1. [th[t] EXCEPT !.pc = "enter", !.rep = "stopped"]
          \in ThreadState
    BY <1>13, ThreadFields DEF PC
  <2>2. ThreadsOK'
    BY <1>13, <2>1, ThreadType DEF AddRepeater, Goto, loops
  <2>3. StoreOK' /\ WorldOK' /\ ScreenOK' /\ BoundsOK'
    BY <1>13 DEF AddRepeater, TypeOK, StoreOK, WorldOK, ScreenOK, BoundsOK,
           View, Shown, Ui, PopScreen, store, world, screen
  <2>4. QED
    BY <2>2, <2>3 DEF DataOK
<1>14. ASSUME NEW t \in Thread, RunRepeater(t)
      PROVE  DataOK'
  <2>1. [th[t] EXCEPT !.pc = "poll", !.rep = "running"]
          \in ThreadState
    BY <1>14, ThreadFields DEF PC
  <2>2. ThreadsOK'
    BY <1>14, <2>1, ThreadType DEF RunRepeater, Goto, loops
  <2>3. StoreOK' /\ WorldOK' /\ ScreenOK' /\ BoundsOK'
    BY <1>14 DEF RunRepeater, TypeOK, StoreOK, WorldOK, ScreenOK, BoundsOK,
           View, Shown, Ui, PopScreen, store, world, screen
  <2>4. QED
    BY <2>2, <2>3 DEF DataOK
<1>15. ASSUME NEW t \in Thread, EndOfTurn(t)
      PROVE  DataOK'
  <2>1. ASSUME th[t].rep = "stopped" PROVE ThreadsOK'
    BY <1>15, <2>1, AfterRepeaterType DEF EndOfTurn
  <2>2. ASSUME th[t].rep # "stopped" PROVE ThreadsOK'
    <3>1. [th[t] EXCEPT !.pc = "wake", !.rep = "waiting"]
            \in ThreadState
      BY ThreadFields DEF PC
    <3>2. QED
      BY <1>15, <2>2, <3>1, ThreadType DEF EndOfTurn, Goto, loops
  <2>3. ThreadsOK'
    BY <2>1, <2>2
  <2>4. StoreOK' /\ WorldOK' /\ ScreenOK' /\ BoundsOK'
    BY <1>15 DEF EndOfTurn, TypeOK, StoreOK, WorldOK, ScreenOK, BoundsOK,
           View, Shown, Ui, PopScreen, store, world, screen
  <2>5. QED
    BY <2>3, <2>4 DEF DataOK
<1>16. ASSUME NEW t \in Thread, Wake(t)
      PROVE  DataOK'
  <2>1. ASSUME th[t].rep = "stopped" PROVE ThreadsOK'
    BY <1>16, <2>1, AfterRepeaterType DEF Wake
  <2>2. ASSUME th[t].rep # "stopped" PROVE ThreadsOK'
    <3>1. [th[t] EXCEPT !.pc = "run"]
            \in ThreadState
      BY ThreadFields DEF PC
    <3>2. QED
      BY <1>16, <2>2, <3>1, ThreadType DEF Wake, Goto, loops
  <2>3. ThreadsOK'
    BY <2>1, <2>2
  <2>4. StoreOK' /\ WorldOK' /\ ScreenOK' /\ BoundsOK'
    BY <1>16 DEF Wake, TypeOK, StoreOK, WorldOK, ScreenOK, BoundsOK,
           View, Shown, Ui, PopScreen, store, world, screen
  <2>5. QED
    BY <2>3, <2>4 DEF DataOK
<1>17. ASSUME NEW t \in Thread, PollBalance(t)
      PROVE  DataOK'
  <2>1. [th[t] EXCEPT !.pc = "store",
                       !.bal = chain[th[t].w.address]]
          \in ThreadState
    BY <1>17, ThreadFields DEF PollBalance, TypeOK, WorldOK, PC
  <2>2. ThreadsOK'
    BY <1>17, <2>1, ThreadType DEF PollBalance, Goto, loops
  <2>3. StoreOK' /\ WorldOK' /\ ScreenOK' /\ BoundsOK'
    BY <1>17 DEF PollBalance, TypeOK, StoreOK, WorldOK, ScreenOK, BoundsOK,
           View, Shown, Ui, PopScreen, store, world, screen
  <2>4. QED
    BY <2>2, <2>3 DEF DataOK
<1>18. ASSUME NEW t \in Thread, StoreBalance(t)
      PROVE  DataOK'
  <2>1. /\ [th[t] EXCEPT !.pc = "proceed", !.rep = "stopped"] \in ThreadState
        /\ [th[t] EXCEPT !.pc = "loop"] \in ThreadState
    BY ThreadFields DEF PC
  <2>2. ThreadsOK'
    BY <1>18, <2>1, ThreadType DEF StoreBalance, Goto
  <2>3. StoreOK' /\ WorldOK' /\ ScreenOK' /\ BoundsOK'
    BY <1>18 DEF StoreBalance, TypeOK, StoreOK, WorldOK, ScreenOK, BoundsOK,
           View, Shown, Ui, PopScreen, store, world, screen
  <2>4. QED
    BY <2>2, <2>3 DEF DataOK
<1>19. ASSUME NEW t \in Thread, PollHash(t)
      PROVE  DataOK'
  <2> DEFINE new == [th[t].w EXCEPT !.hash = th[t].w.address]
  <2>1. WorldOK' /\ BoundsOK' /\ account' = account
    BY <1>19 DEF PollHash, TypeOK, WorldOK, BoundsOK, world
  <2>2. new \in Row
    BY DEF Row
  <2>3. CASE Goto(t, "loop") /\ UNCHANGED <<db, screen, pending, loops>>
    <3>1. [th[t] EXCEPT !.pc = "loop"] \in ThreadState
      BY ThreadFields DEF PC
    <3>2. ThreadsOK'
      BY <2>3, <3>1, ThreadType DEF Goto, loops
    <3>3. QED
      BY <2>1, <2>3, <3>2 DEF DataOK, TypeOK, StoreOK, ScreenOK, screen
  <2>4. CASE db' = new /\ AfterRepeater(t, new) /\ UNCHANGED <<ui, alert, taps, toShow, pending>>
    <3>1. ThreadsOK'
      BY <2>2, <2>4, AfterRepeaterType
    <3>2. QED
      BY <2>1, <2>2, <2>4, <3>1 DEF DataOK, TypeOK, StoreOK, ScreenOK
  <2>5. CASE Down /\ UNCHANGED db
    BY <2>1, <2>5, DownType DEF DataOK, TypeOK, StoreOK
  <2>6. QED
    BY Zenon, <1>19, <2>3, <2>4, <2>5 DEF PollHash
<1>20. ASSUME NEW t \in Thread, PollReceipt(t)
      PROVE  DataOK'
  <2>1. WorldOK' /\ BoundsOK' /\ ScreenOK' /\ account' = account
    BY <1>20 DEF PollReceipt, TypeOK, WorldOK, ScreenOK, BoundsOK, world
  <2>2. CASE Goto(t, "loop") /\ UNCHANGED <<db, pending, loops>>
    <3>1. [th[t] EXCEPT !.pc = "loop"] \in ThreadState
      BY ThreadFields DEF PC
    <3>2. ThreadsOK'
      BY <2>2, <3>1, ThreadType DEF Goto, loops
    <3>3. QED
      BY <2>1, <2>2, <3>2 DEF DataOK, TypeOK, StoreOK
  <2>3. CASE ProceedWith(th[t].w) /\ Finish(t)
    BY <2>1, <2>3, ProceedType, FinishType DEF DataOK, TypeOK, StoreOK
  <2>4. CASE CancelWith(th[t].w) /\ Finish(t)
    BY <2>1, <2>4, CancelType, FinishType DEF DataOK, TypeOK, StoreOK
  <2>5. QED
    BY Zenon, <1>20, <2>2, <2>3, <2>4 DEF PollReceipt
<1>21. ASSUME NEW t \in Thread, AbortCancel(t)
      PROVE  DataOK'
  <2>1. db' \in Row /\ pending' \in [Event -> Nat]
    BY <1>21, CancelType DEF AbortCancel
  <2>2. [th[t] EXCEPT !.pc = "abortSave", !.w = Cancelled(th[t].w)]
          \in ThreadState
    BY ThreadFields DEF PC, Cancelled, DraftRow, Row, WState
  <2>3. ThreadsOK'
    BY <1>21, <2>1, <2>2, ThreadType DEF AbortCancel, loops
  <2>4. StoreOK' /\ WorldOK' /\ ScreenOK' /\ BoundsOK'
    BY <1>21, <2>1 DEF AbortCancel, TypeOK, StoreOK, WorldOK, ScreenOK, BoundsOK,
           View, Shown, Ui, PopScreen, store, world, screen
  <2>5. QED
    BY <2>3, <2>4 DEF DataOK
<1>22. ASSUME NEW t \in Thread, AbortSave(t)
      PROVE  DataOK'
  <2>1. ThreadsOK'
    BY <1>22, FinishType DEF AbortSave
  <2>2. StoreOK' /\ WorldOK' /\ ScreenOK' /\ BoundsOK'
    BY <1>22 DEF AbortSave, TypeOK, StoreOK, WorldOK, ScreenOK, BoundsOK,
           View, Shown, Ui, PopScreen, store, world, screen
  <2>3. QED
    BY <2>1, <2>2 DEF DataOK
<1>23. ASSUME NEW t \in Thread, StopRepeater(t)
      PROVE  DataOK'
  <2>1. [th[t] EXCEPT !.rep = "stopped"] \in ThreadState
    BY DEF ThreadState
  <2>2. ThreadsOK'
    BY <1>23, <2>1, ThreadType DEF StopRepeater
  <2>3. StoreOK' /\ WorldOK' /\ ScreenOK' /\ BoundsOK'
    BY <1>23 DEF StopRepeater, TypeOK, StoreOK, WorldOK, ScreenOK, BoundsOK,
           View, Shown, Ui, PopScreen, store, world, screen
  <2>4. QED
    BY <2>2, <2>3 DEF DataOK
<1>24. ASSUME NEW t \in Thread, Trap(t)
      PROVE  DataOK'
  BY <1>24, DownType DEF Trap, DataOK, TypeOK, StoreOK, WorldOK, BoundsOK,
           store, world
<1>25. ASSUME NEW t \in Thread, NetworkError(t)
      PROVE  DataOK'
  <2>1. ThreadsOK'
    BY <1>25, FinishType DEF NetworkError
  <2>2. StoreOK' /\ WorldOK' /\ ScreenOK' /\ BoundsOK'
    BY <1>25 DEF NetworkError, TypeOK, StoreOK, WorldOK, ScreenOK, BoundsOK,
           View, Shown, Ui, PopScreen, store, world, screen, LostAnswer, Post,
           RelayStatus
  <2>3. QED
    BY <2>1, <2>2 DEF DataOK
<1>26. ASSUME NEW t \in Thread, FatalError(t)
      PROVE  DataOK'
  <2>1. db' \in Row /\ pending' \in [Event -> Nat]
    BY <1>26, CancelType DEF FatalError
  <2>3. ThreadsOK'
    BY <1>26, <2>1, FinishType DEF FatalError
  <2>4. StoreOK' /\ WorldOK' /\ ScreenOK' /\ BoundsOK'
    BY <1>26, <2>1 DEF FatalError, TypeOK, StoreOK, WorldOK, ScreenOK, BoundsOK,
           View, Shown, Ui, PopScreen, store, world, screen, LostAnswer, Post,
           RelayStatus
  <2>5. QED
    BY <2>3, <2>4 DEF DataOK
<1>27. ASSUME AskToAbort
      PROVE  DataOK'
  BY <1>27
  DEF AskToAbort, DataOK, ThreadsOK, loops, TypeOK, StoreOK,
      WorldOK, ScreenOK, BoundsOK, store, world, screen
<1>28. ASSUME DismissAlert
      PROVE  DataOK'
  BY <1>28
  DEF DismissAlert, DataOK, ThreadsOK, loops, TypeOK, StoreOK,
      WorldOK, ScreenOK, BoundsOK, store, world, screen
<1>28a. ASSUME ConfirmFailure
      PROVE  DataOK'
  BY <1>28a
  DEF ConfirmFailure, DataOK, ThreadsOK, loops, PopScreen, Ui, TypeOK, StoreOK,
      WorldOK, ScreenOK, BoundsOK, store, world, screen
<1>28b. ASSUME Configure
      PROVE  DataOK'
  BY <1>28b
  DEF Configure, DataOK, ThreadsOK, loops, Ui, TypeOK, StoreOK,
      WorldOK, ScreenOK, BoundsOK, store, world, screen
<1>28c. ASSUME PrepareForCreation
      PROVE  DataOK'
  <2>1. DraftRow \in Row
    BY DEF DraftRow, Row, WState
  <2>2. QED
    BY <1>28c, <2>1
    DEF PrepareForCreation, DataOK, ThreadsOK, loops, Ui, TypeOK, StoreOK,
        WorldOK, ScreenOK, BoundsOK, store, world, screen
<1>29. ASSUME HandleAborted
      PROVE  DataOK'
  <2>1. "DeploymentAborted" \in Event
    BY DEF Event
  <2>2. ThreadsOK'
    BY <1>29, <2>1 DEF HandleAborted, TypeOK, ThreadsOK
  <2>3. StoreOK' /\ WorldOK' /\ ScreenOK' /\ BoundsOK'
    BY <1>29 DEF HandleAborted, TypeOK, StoreOK, WorldOK, ScreenOK, BoundsOK,
           View, Shown, Ui, PopScreen, store, world, screen
  <2>4. QED
    BY <2>2, <2>3 DEF DataOK
<1>30. ASSUME HandleCreationFailed
      PROVE  DataOK'
  BY <1>30, DownType DEF HandleCreationFailed, DataOK, TypeOK, StoreOK, WorldOK, BoundsOK,
           store, world
<1>31. ASSUME ReadState
      PROVE  DataOK'
  BY <1>31
  DEF ReadState, DataOK, ThreadsOK, loops, ViewOf, View, Shown, Ui, TypeOK, StoreOK,
      WorldOK, ScreenOK, BoundsOK, store, world, screen
<1>32. ASSUME NEW v \in Shown, ShowState(v)
      PROVE  DataOK'
  <2>1. ThreadsOK' /\ StoreOK' /\ WorldOK' /\ BoundsOK'
    BY <1>32 DEF ShowState, ThreadsOK, loops, TypeOK, StoreOK, WorldOK,
                 BoundsOK, store, world
  <2>2. ui' \in Ui
    BY <1>32 DEF ShowState, View, Shown, Ui
  <2>3. toShow' \subseteq Shown
    BY <1>32 DEF ShowState, TypeOK, ScreenOK
  <2>4. taps' \in 0..MaxTaps /\ alert' \in {"none", "abort", "failure"}
    BY <1>32, ConstantsAssumption DEF ShowState, TypeOK, ScreenOK
  <2>5. QED
    BY <2>1, <2>2, <2>3, <2>4 DEF DataOK, ScreenOK
<1>33. ASSUME Launch
      PROVE  DataOK'
  BY <1>33
  DEF Launch, DataOK, ThreadsOK, loops, Ui, View, TypeOK, StoreOK,
      WorldOK, ScreenOK, BoundsOK, store, world, screen
<1>34. ASSUME Crash
      PROVE  DataOK'
  BY <1>34, DownType DEF Crash, DataOK, TypeOK, StoreOK, WorldOK, BoundsOK,
           store, world
<1>35. ASSUME NEW a \in Addr, Deposit(a)
      PROVE  DataOK'
  BY <1>35
  DEF Deposit, DataOK, ThreadsOK, loops, TypeOK, StoreOK,
      WorldOK, ScreenOK, BoundsOK, store, world, screen
<1>36. ASSUME NEW a \in Addr, RelaySubmits(a)
      PROVE  DataOK'
  BY <1>36
  DEF RelaySubmits, DataOK, ThreadsOK, loops, RelayStatus, TypeOK, StoreOK,
      WorldOK, ScreenOK, BoundsOK, store, world, screen
<1>37. ASSUME NEW a \in Addr, Mined(a)
      PROVE  DataOK'
  BY <1>37
  DEF Mined, DataOK, ThreadsOK, loops, RelayStatus, TypeOK, StoreOK,
      WorldOK, ScreenOK, BoundsOK, store, world, screen
<1>38. QED
  BY Zenon,
     <1>1, <1>2, <1>3, <1>4, <1>5, <1>6, <1>7, <1>8, <1>9, <1>10, <1>11, <1>12,
     <1>13, <1>14, <1>15, <1>16, <1>17, <1>18, <1>19, <1>20, <1>21, <1>22, <1>23, <1>24,
     <1>25, <1>26, <1>27, <1>28, <1>28a, <1>28b, <1>28c, <1>29, <1>30, <1>31, <1>32, <1>33, <1>34, <1>35, <1>36,
     <1>37
  DEF Next, Work, User, Outside, Failure

\* Every step of the deployment keeps every variable in its type.
LEMMA TypeStep == TypeOK /\ [Next]_vars => TypeOK'
<1>1. TypeOK /\ Next => TypeOK'
  BY FlagsStep, DataStep DEF TypeOK, DataOK
<1>2. TypeOK /\ UNCHANGED vars => TypeOK'
  BY DEF vars, store, world, screen, loops, TypeOK, FlagsOK, StoreOK, WorldOK,
         ScreenOK, ThreadsOK, BoundsOK
<1>3. QED
  BY <1>1, <1>2

\* The initial state is well-typed.
LEMMA TypeInit == Init => TypeOK
<1> SUFFICES ASSUME Init PROVE TypeOK
  OBVIOUS
<1>1. FlagsOK
  BY Zenon DEF Init, FlagsOK
<1>2. DraftRow \in Row
  BY DEF DraftRow, Row, WState
<1>3. DataOK
  BY <1>2, IdleThreadType, ConstantsAssumption
  DEF Init, DataOK, StoreOK, WorldOK, ScreenOK, ThreadsOK, BoundsOK, RelayStatus,
      Ui
<1>4. QED
  BY <1>1, <1>3 DEF TypeOK, DataOK

\* The deployment is type-correct for every number of threads and addresses and
\* whatever the user, the network and the system do: in particular a dispatched
\* closure is never begun more often than it was published.
THEOREM TypeCorrect == Spec => []TypeOK
<1>1. Init => TypeOK
  BY TypeInit
<1>2. TypeOK /\ [Next]_vars => TypeOK'
  BY TypeStep
<1>3. QED
  BY <1>1, <1>2, PTL DEF Spec

---------------------------------------------------------------------------
(* The stored row is whole *)

\* A thread's copy of the wallet is whole, and a handler about to store a
\* balance or to call proceed() has an address in its copy.
ThreadWhole(x, status) ==
  /\ Whole(x.w, status)
  /\ x.pc \in {"store", "proceed"} => x.w.address # None

\* The inductive invariant: every copy of the row in any thread is whole, since
\* any of them may be saved next.
RowInv ==
  /\ TypeOK
  /\ Whole(db, relay)
  /\ \A t \in Thread : ThreadWhole(th[t], relay)

\* The relay never takes back an address or a transaction it has sent.
Advances ==
  \A a \in Addr : /\ relay[a] # "unknown" => relay'[a] # "unknown"
                  /\ relay[a] \in Sent => relay'[a] \in Sent

\* What the relay does for an address only advances, whatever the app does.
LEMMA RelayAdvances == TypeOK /\ Next => Advances
<1> SUFFICES ASSUME TypeOK, Next PROVE Advances
  OBVIOUS
<1> USE DEF Advances, Sent, TypeOK, WorldOK
<1>1. ASSUME NEW t \in Thread, OpenScreen(t)
      PROVE  Advances
  BY <1>1 DEF OpenScreen, world
<1>2. ASSUME NEW t \in Thread, Retry(t)
      PROVE  Advances
  BY <1>2 DEF Retry, world
<1>3. ASSUME NEW t \in Thread, ConfirmAbort(t)
      PROVE  Advances
  BY <1>3 DEF ConfirmAbort, world
<1>4. ASSUME NEW t \in Thread, Unsubscribe(t)
      PROVE  Advances
  BY <1>4 DEF Unsubscribe, world
<1>5. ASSUME NEW t \in Thread, Subscribe(t)
      PROVE  Advances
  BY <1>5 DEF Subscribe, world
<1>6. ASSUME NEW t \in Thread, ReadWallet(t)
      PROVE  Advances
  BY <1>6 DEF ReadWallet, world
<1>7. ASSUME NEW t \in Thread, Resume(t)
      PROVE  Advances
  BY <1>7 DEF Resume, world
<1>8. ASSUME NEW t \in Thread, NEW e \in Event, Begin(t, e)
      PROVE  Advances
  BY <1>8 DEF Begin, world
<1>9. ASSUME NEW t \in Thread, NEW a \in Addr, Request(t, a)
      PROVE  Advances
  BY <1>9 DEF Request, world
<1>10. ASSUME NEW t \in Thread, Proceed(t)
      PROVE  Advances
  BY <1>10 DEF Proceed, world
<1>11. ASSUME NEW t \in Thread, StartCreation(t)
      PROVE  Advances
  BY <1>11 DEF StartCreation, world
<1>12. ASSUME NEW t \in Thread, NotifyCreated(t)
      PROVE  Advances
  BY <1>12 DEF NotifyCreated, world
<1>13. ASSUME NEW t \in Thread, AddRepeater(t)
      PROVE  Advances
  BY <1>13 DEF AddRepeater, world
<1>14. ASSUME NEW t \in Thread, RunRepeater(t)
      PROVE  Advances
  BY <1>14 DEF RunRepeater, world
<1>15. ASSUME NEW t \in Thread, EndOfTurn(t)
      PROVE  Advances
  BY <1>15 DEF EndOfTurn, world
<1>16. ASSUME NEW t \in Thread, Wake(t)
      PROVE  Advances
  BY <1>16 DEF Wake, world
<1>17. ASSUME NEW t \in Thread, PollBalance(t)
      PROVE  Advances
  BY <1>17 DEF PollBalance, world
<1>18. ASSUME NEW t \in Thread, StoreBalance(t)
      PROVE  Advances
  BY <1>18 DEF StoreBalance, world
<1>19. ASSUME NEW t \in Thread, PollHash(t)
      PROVE  Advances
  BY <1>19 DEF PollHash, world
<1>20. ASSUME NEW t \in Thread, PollReceipt(t)
      PROVE  Advances
  BY <1>20 DEF PollReceipt, world
<1>21. ASSUME NEW t \in Thread, AbortCancel(t)
      PROVE  Advances
  BY <1>21 DEF AbortCancel, world
<1>22. ASSUME NEW t \in Thread, AbortSave(t)
      PROVE  Advances
  BY <1>22 DEF AbortSave, world
<1>23. ASSUME NEW t \in Thread, StopRepeater(t)
      PROVE  Advances
  BY <1>23 DEF StopRepeater, world
<1>24. ASSUME NEW t \in Thread, Trap(t)
      PROVE  Advances
  BY <1>24 DEF Trap, world
<1>25. ASSUME NEW t \in Thread, NetworkError(t)
      PROVE  Advances
  BY <1>25 DEF NetworkError, LostAnswer, At, world
<1>26. ASSUME NEW t \in Thread, FatalError(t)
      PROVE  Advances
  BY <1>26 DEF FatalError, LostAnswer, At, world
<1>27. ASSUME AskToAbort
      PROVE  Advances
  BY <1>27 DEF AskToAbort, world
<1>28. ASSUME DismissAlert
      PROVE  Advances
  BY <1>28 DEF DismissAlert, world
<1>28a. ASSUME ConfirmFailure
      PROVE  Advances
  BY <1>28a DEF ConfirmFailure, world
<1>28b. ASSUME Configure
      PROVE  Advances
  BY <1>28b DEF Configure, world
<1>28c. ASSUME PrepareForCreation
      PROVE  Advances
  BY <1>28c DEF PrepareForCreation, world
<1>29. ASSUME HandleAborted
      PROVE  Advances
  BY <1>29 DEF HandleAborted, world
<1>30. ASSUME HandleCreationFailed
      PROVE  Advances
  BY <1>30 DEF HandleCreationFailed, world
<1>31. ASSUME ReadState
      PROVE  Advances
  BY <1>31 DEF ReadState, world
<1>32. ASSUME NEW v \in Shown, ShowState(v)
      PROVE  Advances
  BY <1>32 DEF ShowState, world
<1>33. ASSUME Launch
      PROVE  Advances
  BY <1>33 DEF Launch, world
<1>34. ASSUME Crash
      PROVE  Advances
  BY <1>34 DEF Crash, world
<1>35. ASSUME NEW a \in Addr, Deposit(a)
      PROVE  Advances
  BY <1>35 DEF Deposit, world
<1>36. ASSUME NEW a \in Addr, RelaySubmits(a)
      PROVE  Advances
  BY <1>36 DEF RelaySubmits, world
<1>37. ASSUME NEW a \in Addr, Mined(a)
      PROVE  Advances
  BY <1>37 DEF Mined, world
<1>38. QED
  BY Zenon,
     <1>1, <1>2, <1>3, <1>4, <1>5, <1>6, <1>7, <1>8, <1>9, <1>10, <1>11, <1>12,
     <1>13, <1>14, <1>15, <1>16, <1>17, <1>18, <1>19, <1>20, <1>21, <1>22, <1>23, <1>24,
     <1>25, <1>26, <1>27, <1>28, <1>28a, <1>28b, <1>28c, <1>29, <1>30, <1>31, <1>32, <1>33, <1>34, <1>35, <1>36,
     <1>37
  DEF Next, Work, User, Outside, Failure

\* A whole row stays whole while the relay advances.
LEMMA WholeStays ==
  ASSUME TypeOK, Advances, NEW r \in Row, Whole(r, relay)
  PROVE  Whole(r, relay')
BY DEF Advances, Whole, Row

\* wallet.reset() leaves a whole row.
LEMMA DraftWhole == \A status : Whole(DraftRow, status)
BY DEF Whole, DraftRow

\* wallet.proceed() on a whole copy with an address, or on a draft, saves a
\* whole row.
LEMMA ProceedWhole ==
  ASSUME TypeOK, NEW r \in Row, NEW status, Whole(r, status), Whole(db, status),
         r.address # None \/ r.state = "draft", ProceedWith(r)
  PROVE  Whole(db', status)
<1>1. account \in Nat
  BY ConstantsAssumption DEF TypeOK, StoreOK
<1>2. CASE r.state = "readyToUse"
  BY <1>2 DEF ProceedWith
<1>3. CASE r.state # "readyToUse"
  <2> DEFINE s == NextState(r.state, account)
  <2>1. db' = [r EXCEPT !.state = s]
    BY <1>3 DEF ProceedWith
  <2>2. /\ r.state = "draft" => s = "deploying"
        /\ r.state = "finalizingDeployment" => s = "readyToUse"
    BY DEF NextState
  <2>3. db'.state = s /\ db'.address = r.address /\ db'.hash = r.hash
    BY <2>1 DEF Row
  <2>4. QED
    BY <1>3, <2>2, <2>3 DEF Whole
<1>4. QED
  BY <1>2, <1>3

\* wallet.cancel() saves a whole row.
LEMMA CancelWhole ==
  ASSUME NEW r \in Row, NEW status, Whole(db, status), CancelWith(r)
  PROVE  Whole(db', status)
<1>1. db' = DraftRow \/ db' = db
  BY DEF CancelWith
<1>2. QED
  BY <1>1, DraftWhole

\* One thread moves on with a whole copy: every thread's copy is whole.
LEMMA OneThread ==
  ASSUME TypeOK, NEW t \in Thread, NEW x, NEW status,
         th' = [th EXCEPT ![t] = x],
         \A u \in Thread : ThreadWhole(th[u], status),
         ThreadWhole(x, status)
  PROVE  \A u \in Thread : ThreadWhole(th'[u], status)
BY DEF TypeOK, ThreadsOK

\* A handler that returns keeps no copy.
LEMMA IdleWhole == \A status : ThreadWhole(IdleThread, status)
BY DraftWhole DEF ThreadWhole, IdleThread

\* A handler returns: every copy left is whole.
LEMMA FinishWhole ==
  ASSUME TypeOK, NEW t \in Thread, NEW status, Finish(t),
         \A u \in Thread : ThreadWhole(th[u], status)
  PROVE  \A u \in Thread : ThreadWhole(th'[u], status)
BY IdleWhole, OneThread DEF Finish

\* The process is gone and all copies with it.
LEMMA DownWhole ==
  ASSUME NEW status, Down
  PROVE  \A u \in Thread : ThreadWhole(th'[u], status)
BY IdleWhole DEF Down

\* After a repeater the handler goes on with the whole copy it is given.
LEMMA AfterRepeaterWhole ==
  ASSUME TypeOK, NEW t \in Thread, NEW r \in Row, NEW status,
         AfterRepeater(t, r), Whole(r, status),
         \A u \in Thread : ThreadWhole(th[u], status)
  PROVE  \A u \in Thread : ThreadWhole(th'[u], status)
<1>1. CASE th[t].job = "hash"
  <2> DEFINE x == [IdleThread EXCEPT !.pc = "add", !.job = "receipt", !.w = r]
  <2>1. x.pc = "add" /\ x.w = r
    BY DEF IdleThread
  <2>2. ThreadWhole(x, status)
    BY <2>1 DEF ThreadWhole
  <2>3. QED
    BY <1>1, <2>2, OneThread DEF AfterRepeater
<1>2. CASE th[t].job # "hash"
  BY <1>2, FinishWhole DEF AfterRepeater
<1>3. QED
  BY <1>1, <1>2

\* Every step keeps the stored row and every thread's copy whole.
LEMMA RowStep == RowInv /\ Next => RowInv'
<1> DEFINE Kept == \A u \in Thread : ThreadWhole(th'[u], relay')
           Goal == Whole(db', relay') /\ Kept
<1> SUFFICES ASSUME RowInv, Next PROVE RowInv'
  OBVIOUS
<1>a. TypeOK /\ TypeOK' /\ Advances
  BY TypeStep, RelayAdvances DEF RowInv
<1>b. Whole(db, relay')
  BY <1>a, WholeStays DEF RowInv, TypeOK, StoreOK
<1>c. ASSUME NEW u \in Thread
      PROVE  /\ ThreadWhole(th[u], relay')
             /\ Whole(th[u].w, relay')
             /\ Whole(th[u].w, relay)
  BY <1>a, WholeStays, ThreadOf DEF RowInv, ThreadWhole
<1>d. ASSUME NEW t \in Thread, NEW x, th' = [th EXCEPT ![t] = x],
             Whole(x.w, relay'), x.pc \in {"store", "proceed"} => x.w.address # None
      PROVE  Kept
  BY <1>a, <1>c, <1>d, OneThread DEF ThreadWhole
<1>e. ASSUME NEW t \in Thread, Finish(t) PROVE Kept
  BY <1>a, <1>c, <1>e, FinishWhole
<1>f. ASSUME NEW t \in Thread, NEW r \in Row, Whole(r, relay'), AfterRepeater(t, r)
      PROVE  Kept
  BY <1>a, <1>c, <1>f, AfterRepeaterWhole
<1>g. Down => Kept
  BY DownWhole
<1> HIDE DEF Kept
<1>1. ASSUME NEW t \in Thread, OpenScreen(t)
      PROVE  Goal
  <2> DEFINE x == [th[t] EXCEPT !.pc = "unsubscribe"]
  <2>1. x.pc \notin {"store", "proceed"} /\ x.w = th[t].w
    BY ThreadOf, <1>a DEF ThreadState
  <2>2. th' = [th EXCEPT ![t] = x] /\ db' = db
    BY <1>1 DEF OpenScreen, Goto, store
  <2>3. QED
    BY <1>b, <1>c, <1>d, <2>1, <2>2
<1>2. ASSUME NEW t \in Thread, Retry(t)
      PROVE  Goal
  <2> DEFINE x == [th[t] EXCEPT !.pc = "unsubscribe"]
  <2>1. x.pc \notin {"store", "proceed"} /\ x.w = th[t].w
    BY ThreadOf, <1>a DEF ThreadState
  <2>2. th' = [th EXCEPT ![t] = x] /\ db' = db
    BY <1>2 DEF Retry, Goto, store
  <2>3. QED
    BY <1>b, <1>c, <1>d, <2>1, <2>2
<1>3. ASSUME NEW t \in Thread, ConfirmAbort(t)
      PROVE  Goal
  <2> DEFINE x == [th[t] EXCEPT !.pc = "abort", !.w = db]
  <2>1. x.pc \notin {"store", "proceed"} /\ x.w = db
    BY ThreadOf, <1>a DEF ThreadState
  <2>2. th' = [th EXCEPT ![t] = x] /\ db' = db
    BY <1>3 DEF ConfirmAbort, Goto, store
  <2>3. QED
    BY <1>b, <1>c, <1>d, <2>1, <2>2
<1>4. ASSUME NEW t \in Thread, Unsubscribe(t)
      PROVE  Goal
  <2> DEFINE x == [th[t] EXCEPT !.pc = "subscribe"]
  <2>1. x.pc \notin {"store", "proceed"} /\ x.w = th[t].w
    BY ThreadOf, <1>a DEF ThreadState
  <2>2. th' = [th EXCEPT ![t] = x] /\ db' = db
    BY <1>4 DEF Unsubscribe, Goto, store
  <2>3. QED
    BY <1>b, <1>c, <1>d, <2>1, <2>2
<1>5. ASSUME NEW t \in Thread, Subscribe(t)
      PROVE  Goal
  <2> DEFINE x == [th[t] EXCEPT !.pc = "read"]
  <2>1. x.pc \notin {"store", "proceed"} /\ x.w = th[t].w
    BY ThreadOf, <1>a DEF ThreadState
  <2>2. th' = [th EXCEPT ![t] = x] /\ db' = db
    BY <1>5 DEF Subscribe, Goto, store
  <2>3. QED
    BY <1>b, <1>c, <1>d, <2>1, <2>2
<1>6. ASSUME NEW t \in Thread, ReadWallet(t)
      PROVE  Goal
  <2> DEFINE x == [th[t] EXCEPT !.pc = "resume", !.w = db]
  <2>1. x.pc \notin {"store", "proceed"} /\ x.w = db
    BY ThreadOf, <1>a DEF ThreadState
  <2>2. th' = [th EXCEPT ![t] = x] /\ db' = db
    BY <1>6 DEF ReadWallet, Goto, store
  <2>3. QED
    BY <1>b, <1>c, <1>d, <2>1, <2>2
<1>7. ASSUME NEW t \in Thread, Resume(t)
      PROVE  Goal
  <2>1. CASE th[t].w.state = "draft"
    BY <1>7, <1>a, <1>b, <1>c, <1>e, <2>1, ThreadOf, ProceedWhole
    DEF Resume, InProgress
  <2>2. CASE th[t].w.state # "draft"
    BY <1>7, <1>b, <1>e, <2>2 DEF Resume
  <2>3. QED
    BY <2>1, <2>2
<1>8. ASSUME NEW t \in Thread, NEW e \in Event, Begin(t, e)
      PROVE  Goal
  <2> DEFINE x == [IdleThread EXCEPT !.pc = FirstStep(e),
                                    !.job = FirstJob(e, db), !.w = db]
  <2>1. x.pc \notin {"store", "proceed"} /\ x.w = db
    BY DEF IdleThread, FirstStep
  <2>2. th' = [th EXCEPT ![t] = x] /\ db' = db
    BY <1>8 DEF Begin, store
  <2>3. QED
    BY <1>b, <1>d, <2>1, <2>2
<1>9. ASSUME NEW t \in Thread, NEW a \in Addr, Request(t, a)
      PROVE  Goal
  <2>1. CASE th[t].w.state = "deploying"
    <3> DEFINE x == [th[t] EXCEPT !.pc = "proceed", !.w.address = a]
    <3>1. /\ x.w.state = "deploying" /\ x.w.address = a
          /\ x.w.hash = th[t].w.hash
      BY <1>a, <2>1, ThreadOf DEF ThreadState, Row
    <3>2. th[t].w.hash = None /\ relay'[a] # "unknown" /\ a # None
      BY <1>9, <1>a, <1>c, <2>1, ConstantsAssumption
      DEF Request, Whole, TypeOK, WorldOK
    <3>3. Whole(x.w, relay')
      BY <3>1, <3>2 DEF Whole
    <3>4. th' = [th EXCEPT ![t] = x] /\ db' = db
      BY <1>9, <2>1 DEF Request, store
    <3>5. QED
      BY <1>b, <1>d, <3>1, <3>2, <3>3, <3>4
  <2>2. CASE th[t].w.state # "deploying"
    BY <1>9, <1>b, <1>g, <2>2 DEF Request, store
  <2>3. QED
    BY <2>1, <2>2
<1>10. ASSUME NEW t \in Thread, Proceed(t)
      PROVE  Goal
  <2>1. th[t].w \in Row /\ th[t].w.address # None
    BY <1>10, <1>a, <1>c, ThreadOf DEF Proceed, At, ThreadWhole
  <2>2. QED
    BY <1>10, <1>a, <1>b, <1>c, <1>e, <2>1, ProceedWhole DEF Proceed
<1>11. ASSUME NEW t \in Thread, StartCreation(t)
      PROVE  Goal
  <2> DEFINE x == [th[t] EXCEPT !.pc = "proceed"]
  <2>1. x.w = th[t].w /\ th[t].w.address # None
    BY <1>11, <1>a, ThreadOf DEF StartCreation, ThreadState
  <2>2. th' = [th EXCEPT ![t] = x] /\ db' = db
    BY <1>11 DEF StartCreation, Goto, store
  <2>3. QED
    BY <1>b, <1>c, <1>d, <2>1, <2>2
<1>12. ASSUME NEW t \in Thread, NotifyCreated(t)
      PROVE  Goal
  BY <1>12, <1>b, <1>e DEF NotifyCreated, store
<1>13. ASSUME NEW t \in Thread, AddRepeater(t)
      PROVE  Goal
  <2> DEFINE x == [th[t] EXCEPT !.pc = "enter", !.rep = "stopped"]
  <2>1. x.pc \notin {"store", "proceed"} /\ x.w = th[t].w
    BY ThreadOf, <1>a DEF ThreadState
  <2>2. th' = [th EXCEPT ![t] = x] /\ db' = db
    BY <1>13 DEF AddRepeater, Goto, store
  <2>3. QED
    BY <1>b, <1>c, <1>d, <2>1, <2>2
<1>14. ASSUME NEW t \in Thread, RunRepeater(t)
      PROVE  Goal
  <2> DEFINE x == [th[t] EXCEPT !.pc = "poll", !.rep = "running"]
  <2>1. x.pc \notin {"store", "proceed"} /\ x.w = th[t].w
    BY ThreadOf, <1>a DEF ThreadState
  <2>2. th' = [th EXCEPT ![t] = x] /\ db' = db
    BY <1>14 DEF RunRepeater, Goto, store
  <2>3. QED
    BY <1>b, <1>c, <1>d, <2>1, <2>2
<1>15. ASSUME NEW t \in Thread, EndOfTurn(t)
      PROVE  Goal
  <2>1. CASE th[t].rep = "stopped"
    BY <1>15, <1>a, <1>b, <1>c, <1>f, <2>1, ThreadOf DEF EndOfTurn, store
  <2>2. CASE th[t].rep # "stopped"
    <3> DEFINE x == [th[t] EXCEPT !.pc = "wake", !.rep = "waiting"]
    <3>1. x.pc \notin {"store", "proceed"} /\ x.w = th[t].w
      BY <1>a, ThreadOf DEF ThreadState
    <3>2. th' = [th EXCEPT ![t] = x] /\ db' = db
      BY <1>15, <2>2 DEF EndOfTurn, Goto, store
    <3>3. QED
      BY <1>b, <1>c, <1>d, <3>1, <3>2
  <2>3. QED
    BY <2>1, <2>2
<1>16. ASSUME NEW t \in Thread, Wake(t)
      PROVE  Goal
  <2>1. CASE th[t].rep = "stopped"
    BY <1>16, <1>a, <1>b, <1>c, <1>f, <2>1, ThreadOf DEF Wake, store
  <2>2. CASE th[t].rep # "stopped"
    <3> DEFINE x == [th[t] EXCEPT !.pc = "run"]
    <3>1. x.pc \notin {"store", "proceed"} /\ x.w = th[t].w
      BY <1>a, ThreadOf DEF ThreadState
    <3>2. th' = [th EXCEPT ![t] = x] /\ db' = db
      BY <1>16, <2>2 DEF Wake, Goto, store
    <3>3. QED
      BY <1>b, <1>c, <1>d, <3>1, <3>2
  <2>3. QED
    BY <2>1, <2>2
<1>17. ASSUME NEW t \in Thread, PollBalance(t)
      PROVE  Goal
  <2> DEFINE x == [th[t] EXCEPT !.pc = "store",
                       !.bal = chain[th[t].w.address]]
  <2>1. x.w = th[t].w /\ th[t].w.address # None
    BY <1>17, <1>a, ThreadOf DEF PollBalance, ThreadState
  <2>2. th' = [th EXCEPT ![t] = x] /\ db' = db
    BY <1>17 DEF PollBalance, Goto, store
  <2>3. QED
    BY <1>b, <1>c, <1>d, <2>1, <2>2
<1>18. ASSUME NEW t \in Thread, StoreBalance(t)
      PROVE  Goal
  <2> DEFINE x == [th[t] EXCEPT !.pc = "proceed", !.rep = "stopped"]
             y == [th[t] EXCEPT !.pc = "loop"]
  <2>1. x.w = th[t].w /\ y.w = th[t].w /\ y.pc = "loop"
    BY <1>a, ThreadOf DEF ThreadState
  <2>2. th[t].w.address # None
    BY <1>18, <1>c DEF StoreBalance, At, ThreadWhole
  <2>3. /\ th' = [th EXCEPT ![t] = x] \/ th' = [th EXCEPT ![t] = y]
        /\ db' = db
    BY <1>18 DEF StoreBalance, Goto
  <2>4. CASE th' = [th EXCEPT ![t] = x]
    BY <1>b, <1>c, <1>d, <2>1, <2>2, <2>3, <2>4
  <2>5. CASE th' = [th EXCEPT ![t] = y]
    BY <1>b, <1>c, <1>d, <2>1, <2>3, <2>5
  <2>6. QED
    BY <2>3, <2>4, <2>5
<1>19. ASSUME NEW t \in Thread, PollHash(t)
      PROVE  Goal
  <2> DEFINE r == th[t].w
             new == [r EXCEPT !.hash = r.address]
             x == [th[t] EXCEPT !.pc = "loop"]
  <2>1. CASE Goto(t, "loop") /\ UNCHANGED db
    <3>1. x.pc = "loop" /\ x.w = th[t].w
      BY <1>a, ThreadOf DEF ThreadState
    <3>2. th' = [th EXCEPT ![t] = x]
      BY <2>1 DEF Goto
    <3>3. QED
      BY <1>b, <1>c, <1>d, <2>1, <3>1, <3>2
  <2>2. CASE /\ relay[r.address] \in Sent
             /\ r.address # None
             /\ r.state = "finalizingDeployment"
             /\ db' = new
             /\ AfterRepeater(t, new)
    <3>1. r \in Row /\ new \in Row
      BY <1>a, ThreadOf DEF Row
    <3>2. /\ new.state = "finalizingDeployment"
          /\ new.address = r.address /\ new.hash = r.address
      BY <2>2, <3>1 DEF Row
    <3>3. relay'[r.address] \in Sent
      BY <1>a, <2>2, <3>1 DEF Advances, Row
    <3>4. Whole(new, relay')
      BY <2>2, <3>2, <3>3 DEF Whole, Sent
    <3>5. QED
      BY <1>f, <2>2, <3>1, <3>4
  <2>3. CASE Down /\ UNCHANGED db
    BY <1>b, <1>g, <2>3
  <2>4. QED
    BY Zenon, <1>19, <2>1, <2>2, <2>3 DEF PollHash, Sent
<1>20. ASSUME NEW t \in Thread, PollReceipt(t)
      PROVE  Goal
  <2> DEFINE x == [th[t] EXCEPT !.pc = "loop"]
  <2>1. CASE Goto(t, "loop") /\ UNCHANGED db
    <3>1. x.pc = "loop" /\ x.w = th[t].w
      BY <1>a, ThreadOf DEF ThreadState
    <3>2. th' = [th EXCEPT ![t] = x]
      BY <2>1 DEF Goto
    <3>3. QED
      BY <1>b, <1>c, <1>d, <2>1, <3>1, <3>2
  <2>2. CASE th[t].w.hash # None /\ ProceedWith(th[t].w) /\ Finish(t)
    <3>1. th[t].w.address # None
      BY <1>c, <2>2 DEF Whole
    <3>2. QED
      BY <1>a, <1>b, <1>c, <1>e, <2>2, <3>1, ThreadOf, ProceedWhole
  <2>3. CASE CancelWith(th[t].w) /\ Finish(t)
    BY <1>a, <1>b, <1>e, <2>3, ThreadOf, CancelWhole
  <2>4. QED
    BY Zenon, <1>20, <2>1, <2>2, <2>3 DEF PollReceipt
<1>21. ASSUME NEW t \in Thread, AbortCancel(t)
      PROVE  Goal
  <2> DEFINE x == [th[t] EXCEPT !.pc = "abortSave", !.w = Cancelled(th[t].w)]
  <2>1. x.pc = "abortSave" /\ x.w = Cancelled(th[t].w)
    BY <1>a, ThreadOf DEF ThreadState
  <2>2. Whole(x.w, relay')
    BY <1>c, <2>1, DraftWhole DEF Cancelled
  <2>3. Whole(db', relay')
    BY <1>21, <1>a, <1>b, ThreadOf, CancelWhole DEF AbortCancel
  <2>4. QED
    BY <1>21, <1>d, <2>1, <2>2, <2>3 DEF AbortCancel
<1>22. ASSUME NEW t \in Thread, AbortSave(t)
      PROVE  Goal
  BY <1>22, <1>c, <1>e DEF AbortSave
<1>23. ASSUME NEW t \in Thread, StopRepeater(t)
      PROVE  Goal
  <2> DEFINE x == [th[t] EXCEPT !.rep = "stopped"]
  <2>1. x.pc = th[t].pc /\ x.w = th[t].w
    BY <1>a, ThreadOf DEF ThreadState
  <2>2. th' = [th EXCEPT ![t] = x] /\ db' = db
    BY <1>23 DEF StopRepeater, store
  <2>3. QED
    BY <1>b, <1>c, <1>d, <2>1, <2>2 DEF ThreadWhole
<1>24. ASSUME NEW t \in Thread, Trap(t)
      PROVE  Goal
  BY <1>24, <1>b, <1>g DEF Trap, store
<1>25. ASSUME NEW t \in Thread, NetworkError(t)
      PROVE  Goal
  BY <1>25, <1>b, <1>e DEF NetworkError, store
<1>26. ASSUME NEW t \in Thread, FatalError(t)
      PROVE  Goal
  BY <1>26, <1>a, <1>b, <1>e, ThreadOf, CancelWhole DEF FatalError
<1>27. ASSUME AskToAbort
      PROVE  Goal
  BY <1>27, <1>b, <1>c DEF AskToAbort, store, Kept
<1>28. ASSUME DismissAlert
      PROVE  Goal
  BY <1>28, <1>b, <1>c DEF DismissAlert, store, Kept
<1>28a. ASSUME ConfirmFailure
      PROVE  Goal
  BY <1>28a, <1>b, <1>c DEF ConfirmFailure, store, Kept
<1>28b. ASSUME Configure
      PROVE  Goal
  BY <1>28b, <1>b, <1>c DEF Configure, store, Kept
<1>28c. ASSUME PrepareForCreation
      PROVE  Goal
  BY <1>28c, <1>b, <1>c, DraftWhole DEF PrepareForCreation, Kept
<1>29. ASSUME HandleAborted
      PROVE  Goal
  BY <1>29, <1>b, <1>c DEF HandleAborted, store, Kept
<1>30. ASSUME HandleCreationFailed
      PROVE  Goal
  BY <1>30, <1>b, <1>g DEF HandleCreationFailed, store
<1>31. ASSUME ReadState
      PROVE  Goal
  BY <1>31, <1>b, <1>c DEF ReadState, store, Kept
<1>32. ASSUME NEW v \in Shown, ShowState(v)
      PROVE  Goal
  BY <1>32, <1>b, <1>c DEF ShowState, store, Kept
<1>33. ASSUME Launch
      PROVE  Goal
  BY <1>33, <1>b, <1>c DEF Launch, store, Kept
<1>34. ASSUME Crash
      PROVE  Goal
  BY <1>34, <1>b, <1>g DEF Crash, store
<1>35. ASSUME NEW a \in Addr, Deposit(a)
      PROVE  Goal
  BY <1>35, <1>b, <1>c DEF Deposit, store, Kept
<1>36. ASSUME NEW a \in Addr, RelaySubmits(a)
      PROVE  Goal
  BY <1>36, <1>b, <1>c DEF RelaySubmits, store, Kept
<1>37. ASSUME NEW a \in Addr, Mined(a)
      PROVE  Goal
  BY <1>37, <1>b, <1>c DEF Mined, store, Kept
<1>38. Goal
  BY Zenon,
     <1>1, <1>2, <1>3, <1>4, <1>5, <1>6, <1>7, <1>8, <1>9, <1>10, <1>11, <1>12,
     <1>13, <1>14, <1>15, <1>16, <1>17, <1>18, <1>19, <1>20, <1>21, <1>22, <1>23, <1>24,
     <1>25, <1>26, <1>27, <1>28, <1>28a, <1>28b, <1>28c, <1>29, <1>30, <1>31, <1>32, <1>33, <1>34, <1>35, <1>36,
     <1>37
  DEF Next, Work, User, Outside, Failure
<1>39. QED
  BY <1>a, <1>38 DEF RowInv, Kept

\* The stored row is never torn, for any number of threads, addresses, aborts,
\* errors, crashes and taps: a handler may save a copy as stale as it likes, the
\* state, the address and the hash it saves belong together.
THEOREM RowsStayWhole == Spec => []RowIsWhole
<1>1. Init => RowInv
  BY TypeInit, DraftWhole, IdleWhole DEF Init, RowInv
<1>2. RowInv /\ [Next]_vars => RowInv'
  <2>1. RowInv /\ UNCHANGED vars => RowInv'
    <3> SUFFICES ASSUME RowInv, UNCHANGED vars PROVE RowInv'
      OBVIOUS
    <3>1. TypeOK'
      BY TypeStep DEF RowInv
    <3>2. QED
      BY <3>1 DEF RowInv, vars, store, world, Whole, ThreadWhole
  <2>2. QED
    BY <2>1, RowStep
<1>3. RowInv => RowIsWhole
  BY DEF RowInv, RowIsWhole
<1>4. QED
  BY <1>1, <1>2, <1>3, PTL DEF Spec

---------------------------------------------------------------------------
(* THE CALM USER.  For a user who neither aborts nor taps Refresh twice on *)
(* one error: one handler at a time works on the wallet, the relay is      *)
(* asked only for what is paid, what is ready is mined, the paper keys     *)
(* stay until then, and the stored wallet goes through the abstract        *)
(* creation of SafeCreation.  All other constants are free.                *)

\* The user the theorems are about.
CalmUser == MaxAborts = 0 /\ MaxTaps <= 1

---------------------------------------------------------------------------
(* The invariant *)

Closed == {"closed", "setup", "configure"}
Errors == {"error", "failed"}

\* Somebody works on the deployment, or is about to.
Active == \/ \E t \in Thread : Busy(t)
          \/ \E e \in WorkEvent : pending[e] > 0

\* The user can start, or will be able to: the right to start the service.
Offered == \/ toShow \cap Errors # {}
           \/ ui = "error" /\ taps = 0
           \/ alert = "failure"
           \/ ui \in Closed

\* The right to start is never there twice, and not while somebody works.  The
\* screen of a wallet that is ready is left, or told so.
ScreenInv ==
  /\ alert # "abort"
  /\ Active => ~Offered
  /\ toShow \cap Errors # {} => ~(ui = "error" /\ taps = 0) /\ alert # "failure"
  /\ ~(Errors \subseteq toShow)
  /\ ~ScreenOpen => toShow = {} /\ ~uiStale
  /\ ui \in Closed => alert = "none"
  /\ ~up => ui = "closed"
  /\ up /\ db.state = "readyToUse" => ui = "main" \/ uiStale \/ "main" \in toShow

\* The steps of a repeater's loop, and the states in which its jobs run.
Turn == {"add", "enter", "poll", "store", "loop", "wake", "run"}
JobState == [j \in Job \ {"none"} |->
               CASE j = "firstDeposit" -> "waitingForFirstDeposit"
                 [] j = "remaining"    -> "notEnoughFunds"
                 [] OTHER              -> "finalizingDeployment"]

\* What proceed() is about to do to the stored wallet r, by the copy c.
Proceeds(c, r) ==
  \/ /\ r.state = "deploying"
     /\ c.state = r.state /\ c.hash = r.hash /\ c.address # None
  \/ c = r /\ r.state = "waitingForFirstDeposit" /\ account <= chain[r.address]
  \/ c = r /\ r.state = "notEnoughFunds" /\ chain[r.address] >= MinAmount
  \/ c = r /\ r.state = "creationStarted"

\* A handler works on what is stored and does what the stored state calls for.
CopyOK(x) ==
  /\ x.pc \notin {"abort", "abortSave"}
  /\ x.pc \in Turn \cup {"resume", "request", "startCreation", "notify"} => x.w = db
  /\ x.pc = "request" => db.state = "deploying"
  /\ x.pc = "startCreation" => db.state = "creationStarted"
  /\ x.pc = "notify" => db.state = "readyToUse"
  /\ x.pc \in Turn => x.job # "none" /\ JobState[x.job] = db.state
  /\ x.pc = "store" => x.bal <= chain[db.address] /\ x.job \in {"firstDeposit", "remaining"}
  /\ x.pc = "proceed" => Proceeds(x.w, db)

\* The event of the state that is stored.
EventOf(s) == IF s = "readyToUse" THEN "WalletCreated" ELSE ResumeEvent[s]

PendingOK ==
  \A e \in WorkEvent : pending[e] > 0 => db.state # "draft" /\ e = EventOf(db.state)

CopyInv == PendingOK /\ \A t \in Thread : CopyOK(th[t])

MoneyInv ==
  /\ db.state \in {"creationStarted", "finalizingDeployment", "readyToUse"}
       => chain[db.address] >= MinAmount
  /\ PaidBeforeRequested
  /\ ReadyIsDeployed
  /\ KeysKeptUntilDeployed

CalmInv == RowInv /\ OneActivity /\ ScreenInv /\ CopyInv /\ MoneyInv

\* Without errors nobody is stopped, so that the wait for the hash ends with it.
RepeaterOK(x) ==
  /\ x.pc \in {"poll", "store", "loop"} => x.rep = "running"
  /\ x.pc = "wake" => x.rep = "waiting"
  /\ x.pc \in Turn /\ x.job = "receipt" => x.w.hash # None

SteadyInv ==
  /\ pending["DeploymentAborted"] = 0
  /\ stopping = {}
  /\ \A t \in Thread : RepeaterOK(th[t])

---------------------------------------------------------------------------
(* One activity *)

LEMMA CalmFacts ==
  ASSUME CalmUser, CalmInv
  PROVE  /\ TypeOK
         /\ pending \in [Event -> Nat] /\ th \in [Thread -> ThreadState]
         /\ up \in BOOLEAN /\ uiStale \in BOOLEAN
         /\ db \in Row /\ db.state \in WState /\ db.address \in Addr \cup {None}
         /\ chain \in [Addr -> 0..MinAmount] /\ relay \in [Addr -> RelayStatus]
         /\ account \in 0..MinAmount /\ MinAmount \in Nat \ {0}
         /\ ui \in Ui /\ alert \in {"none", "abort", "failure"} /\ taps \in {0, 1}
         /\ budget.aborts = 0
         /\ WorkEvent \subseteq Event
<1>1. TypeOK
  BY DEF CalmInv, RowInv
<1>2. taps \in {0, 1} /\ budget.aborts = 0
  BY <1>1, ConstantsAssumption DEF CalmUser, TypeOK, ScreenOK, BoundsOK
<1>3. up \in BOOLEAN /\ uiStale \in BOOLEAN
  BY <1>1, Zenon DEF TypeOK, FlagsOK
<1> QED
  BY <1>1, <1>2, <1>3, ConstantsAssumption
  DEF TypeOK, StoreOK, WorldOK, ScreenOK, ThreadsOK, Row, WorkEvent

\* The thread works and nobody else does.
Alone(t) ==
  /\ Busy(t)
  /\ \A u \in Thread \ {t} : ~Busy(u)
  /\ \A e \in WorkEvent : pending[e] = 0

LEMMA BusyAlone ==
  ASSUME CalmUser, CalmInv, NEW t \in Thread, Busy(t)
  PROVE  Alone(t) /\ Active
BY DEF CalmInv, OneActivity, Alone, Active

LEMMA AtAlone ==
  ASSUME CalmUser, CalmInv, NEW t \in Thread, NEW l, l # "idle", At(t, l)
  PROVE  Alone(t) /\ Active /\ up
BY BusyAlone DEF At, Busy

LEMMA OneMoves ==
  ASSUME CalmUser, CalmInv, NEW t \in Thread, Alone(t), NEW x,
         th' = [th EXCEPT ![t] = x], \A e \in WorkEvent : pending'[e] = 0
  PROVE  OneActivity'
<1>1. th' \in [Thread -> {th'[u] : u \in Thread}] /\ \A u \in Thread \ {t} : th'[u] = th[u]
  BY CalmFacts
<1>2. \A u \in Thread : Busy(u)' => u = t
  BY <1>1 DEF Alone, Busy
<1> QED BY <1>2 DEF OneActivity

\* A handler ends: nobody works, and at most the event it published waits.
LEMMA OneEnds ==
  ASSUME CalmUser, CalmInv, NEW t \in Thread, Alone(t),
         th' = [th EXCEPT ![t] = IdleThread], NEW e \in Event,
         pending' = pending \/ pending' = [pending EXCEPT ![e] = @ + 1]
  PROVE  /\ OneActivity'
         /\ \A u \in Thread : ~Busy(u)' /\ th'[u].pc = "idle"
         /\ \A f \in WorkEvent : f # e \/ pending' = pending => pending'[f] = 0
<1>1. \A u \in Thread : th'[u].pc = "idle"
  BY CalmFacts DEF Alone, Busy, IdleThread
<1>2. \A u \in Thread : ~Busy(u)'
  BY <1>1 DEF Busy
<1>3. /\ \A f \in WorkEvent : f # e \/ pending' = pending => pending'[f] = 0
      /\ \A f \in WorkEvent : pending'[f] <= 1
  <2>1. ASSUME NEW f \in WorkEvent
        PROVE  pending[f] = 0 /\ f \in Event
    BY CalmFacts DEF Alone
  <2>2. CASE pending' = pending
    BY <2>1, <2>2
  <2>3. CASE pending' = [pending EXCEPT ![e] = @ + 1]
    <3>1. \A f \in Event : pending'[f] = IF f = e THEN pending[e] + 1 ELSE pending[f]
      BY <2>3, CalmFacts
    <3>2. pending[e] \in Nat
      BY CalmFacts
    <3> QED BY <2>1, <3>1, <3>2
  <2> QED BY <2>2, <2>3
<1>4. \A f \in WorkEvent : pending'[f] > 0 => f = e
  BY <1>3
<1> QED BY <1>1, <1>2, <1>3, <1>4 DEF OneActivity

\* A dispatched closure begins, or the user starts the service.
LEMMA OneBegins ==
  ASSUME CalmUser, CalmInv, NEW t \in Thread, ~Busy(t), NEW x,
         th' = [th EXCEPT ![t] = x], NEW e \in WorkEvent, pending[e] > 0,
         pending' = [pending EXCEPT ![e] = @ - 1]
  PROVE  /\ OneActivity' /\ (\A u \in Thread : ~Busy(u))
         /\ \A f \in WorkEvent : pending'[f] = 0
<1>1. \A u \in Thread : ~Busy(u)
  BY CalmFacts DEF CalmInv, OneActivity
<1>2. \A f \in WorkEvent : pending'[f] = 0
  <2>1. \A f \in WorkEvent : f \in Event /\ pending[f] \in Nat /\ pending[f] <= 1
    BY CalmFacts DEF CalmInv, OneActivity
  <2>2. \A f \in WorkEvent : f # e => pending[f] = 0
    BY <2>1 DEF CalmInv, OneActivity
  <2>3. \A f \in Event : pending'[f] = IF f = e THEN pending[e] - 1 ELSE pending[f]
    BY CalmFacts
  <2> QED BY <2>1, <2>2, <2>3
<1>3. \A u \in Thread \ {t} : th'[u] = th[u]
  BY CalmFacts
<1>4. \A u \in Thread : Busy(u)' => u = t
  BY <1>1, <1>3 DEF Busy
<1> QED BY <1>1, <1>2, <1>4 DEF OneActivity

LEMMA OneStarts ==
  ASSUME CalmUser, CalmInv, NEW t \in Thread, ~Active, NEW x,
         th' = [th EXCEPT ![t] = x], pending' = pending
  PROVE  OneActivity' /\ \A e \in WorkEvent : pending'[e] = 0
<1>1. \A e \in WorkEvent : pending[e] = 0
  BY CalmFacts DEF Active
<1>2. \A u \in Thread \ {t} : th'[u] = th[u]
  BY CalmFacts
<1>3. \A u \in Thread : Busy(u)' => u = t
  BY <1>2 DEF Busy, Active
<1> QED BY <1>1, <1>3 DEF OneActivity

LEMMA OneSame ==
  ASSUME CalmInv, \A u \in Thread : th'[u].pc = th[u].pc,
         \A e \in WorkEvent : pending'[e] = pending[e]
  PROVE  OneActivity' /\ (Active' <=> Active)
BY DEF CalmInv, OneActivity, Busy, Active

LEMMA DownFacts ==
  ASSUME Down
  PROVE  /\ ~Active' /\ OneActivity'
         /\ \A u \in Thread : th'[u].pc = "idle"
         /\ \A e \in WorkEvent : pending'[e] = 0
<1>1. \A u \in Thread : th'[u].pc = "idle" /\ ~Busy(u)'
  BY DEF Down, IdleThread, Busy
<1>2. \A e \in WorkEvent : pending'[e] = 0
  BY DEF Down, WorkEvent
<1> QED BY <1>1, <1>2 DEF Active, OneActivity

---------------------------------------------------------------------------
(* The screen *)

\* A step that the screen may hear of and that shows nothing.
LEMMA ScreenFrame ==
  ASSUME CalmUser, CalmInv, UNCHANGED <<ui, alert, taps, toShow, up>>,
         uiStale => uiStale', uiStale' => uiStale \/ ScreenOpen, Active' => Active,
         db'.state = "readyToUse" => \/ db.state = "readyToUse"
                                     \/ Active /\ uiStale' = ScreenOpen
  PROVE  ScreenInv'
<1> USE DEF CalmInv, ScreenInv
<1>1. Offered' <=> Offered
  BY DEF Offered
<1>2. ScreenOpen' <=> ScreenOpen
  BY DEF ScreenOpen
<1>3. up' /\ db'.state = "readyToUse" => ui' = "main" \/ uiStale' \/ "main" \in toShow'
  <2>1. CASE db.state = "readyToUse"
    BY <2>1
  <2>2. CASE Active /\ uiStale' = ScreenOpen
    <3>1. ui \notin Closed /\ ui \in Ui
      BY <2>2, CalmFacts DEF Offered
    <3>2. ui = "main" \/ ScreenOpen
      BY <3>1 DEF Closed, Ui, View, ScreenOpen
    <3> QED BY <2>2, <3>2
  <2> QED BY <2>1, <2>2
<1> QED BY <1>1, <1>2, <1>3

LEMMA ScreenDown ==
  ASSUME Down
  PROVE  ScreenInv'
<1>1. ~Active'
  BY DownFacts
<1>2. /\ alert' = "none" /\ toShow' = {} /\ ui' = "closed" /\ uiStale' = FALSE /\ up' = FALSE
  BY DEF Down
<1> QED BY <1>1, <1>2 DEF ScreenInv, Errors

\* A handler ends with an error that an open screen will show.
LEMMA ScreenPosts ==
  ASSUME CalmUser, CalmInv, Active, ~Active', UNCHANGED <<ui, alert, taps, uiStale, up>>,
         NEW v \in Errors, Post(v), db'.state = "readyToUse" => db.state = "readyToUse"
  PROVE  ScreenInv'
<1> USE DEF CalmInv, ScreenInv
<1>1. ~Offered
  OBVIOUS
<1>2. ScreenOpen' <=> ScreenOpen
  BY DEF ScreenOpen
<1>3. CASE ~ScreenOpen
  <2>1. toShow' = toShow
    BY <1>3 DEF Post
  <2> QED BY <1>1, <1>2, <1>3, <2>1 DEF Offered
<1>4. CASE ScreenOpen
  <2>1. toShow' = toShow \cup {v}
    BY <1>4 DEF Post
  <2>2. ui \notin Closed
    BY <1>1 DEF Offered
  <2>3. ~(Errors \subseteq toShow')
    BY <1>1, <2>1 DEF Offered, Errors
  <2> QED BY <1>1, <1>2, <1>4, <2>1, <2>2, <2>3 DEF Offered
<1> QED BY <1>3, <1>4

---------------------------------------------------------------------------
(* Copies *)

LEMMA IdleCopy ==
  ASSUME NEW u \in Thread, th'[u].pc = "idle"
  PROVE  CopyOK(th[u])'
BY DEF CopyOK, Turn

\* Nobody is left who has a copy.
LEMMA CopyNone ==
  ASSUME \A u \in Thread : th'[u].pc = "idle", \A e \in WorkEvent : pending'[e] = 0
  PROVE  CopyInv'
<1>1. \A u \in Thread : CopyOK(th[u])'
  BY IdleCopy
<1> QED BY <1>1 DEF CopyInv, PendingOK

\* One thread works, with the copy it should have.
LEMMA CopyMoves ==
  ASSUME CalmUser, CalmInv, NEW t \in Thread, \A u \in Thread \ {t} : ~Busy(u), NEW x,
         th' = [th EXCEPT ![t] = x], \A e \in WorkEvent : pending'[e] = 0,
         CopyOK(th[t])'
  PROVE  CopyInv'
<1>1. ASSUME NEW u \in Thread \ {t} PROVE CopyOK(th[u])'
  <2>1. th'[u].pc = "idle"
    BY CalmFacts DEF Busy
  <2> QED BY <2>1, IdleCopy
<1>2. \A u \in Thread : CopyOK(th[u])'
  BY <1>1
<1> QED BY <1>2 DEF CopyInv, PendingOK

\* A handler ends and publishes what the state it stored calls for.
LEMMA CopyEnds ==
  ASSUME \A u \in Thread : th'[u].pc = "idle",
         \A e \in WorkEvent : pending'[e] > 0 => db'.state # "draft" /\ e = EventOf(db'.state)
  PROVE  CopyInv'
<1>1. \A u \in Thread : CopyOK(th[u])'
  BY IdleCopy
<1> QED BY <1>1 DEF CopyInv, PendingOK, EventOf

\* Balances only grow.
Grows == \A a \in Addr : chain[a] <= chain'[a]

LEMMA CopySame ==
  ASSUME CalmUser, CalmInv, Grows, WorldOK', UNCHANGED <<db, account>>,
         \A u \in Thread : /\ th'[u].pc = th[u].pc /\ th'[u].w = th[u].w
                           /\ th'[u].job = th[u].job /\ th'[u].bal = th[u].bal,
         \A e \in WorkEvent : pending'[e] = pending[e]
  PROVE  CopyInv'
<1>1. ASSUME NEW u \in Thread PROVE CopyOK(th[u])'
  <2>1. CopyOK(th[u])
    BY DEF CalmInv, CopyInv
  <2>2. th[u].bal \in Nat /\ account \in Nat /\ MinAmount \in Nat
    BY CalmFacts, ThreadOf
  <2>3. \A a \in Addr : chain[a] \in Nat /\ chain'[a] \in Nat
    BY CalmFacts DEF WorldOK
  <2>4. th[u].pc = "store" \/ (th[u].pc = "proceed" /\ db.state # "deploying")
           => db.address \in Addr
    <3>1. th[u].pc = "store" => db.state \in {"waitingForFirstDeposit", "notEnoughFunds"}
      BY <2>1 DEF CopyOK, Turn, JobState, Job
    <3>2. th[u].pc = "proceed" /\ db.state # "deploying" =>
            db.state \in {"waitingForFirstDeposit", "notEnoughFunds", "creationStarted"}
      BY <2>1 DEF CopyOK, Proceeds
    <3>3. db.state \notin {"draft", "deploying"} => db.address \in Addr
      BY CalmFacts DEF CalmInv, RowInv, Whole
    <3> QED BY <3>1, <3>2, <3>3
  <2>5. th[u].pc = "store" => th[u].bal <= chain'[db.address]
    BY <2>1, <2>2, <2>3, <2>4 DEF CopyOK, Grows
  <2>6. th[u].pc = "proceed" => Proceeds(th[u].w, db)'
    <3> SUFFICES ASSUME th[u].pc = "proceed" PROVE Proceeds(th[u].w, db)'
      OBVIOUS
    <3>1. Proceeds(th[u].w, db) /\ th'[u].w = th[u].w
      BY <2>1 DEF CopyOK
    <3>2. CASE db.state = "deploying"
      BY <3>1, <3>2 DEF Proceeds
    <3>3. CASE db.state # "deploying"
      <4>1. chain[db.address] <= chain'[db.address] /\ db.address \in Addr
        BY <2>4, <3>3 DEF Grows
      <4> QED BY <2>2, <2>3, <3>1, <3>3, <4>1 DEF Proceeds
    <3> QED BY <3>2, <3>3
  <2> QED BY <2>1, <2>5, <2>6 DEF CopyOK
<1>2. PendingOK'
  BY DEF CalmInv, CopyInv, PendingOK, EventOf
<1> QED BY <1>1, <1>2 DEF CopyInv

---------------------------------------------------------------------------
(* Money and keys *)

\* What was mined stays mined, and what is asked for is paid.
RelayOK ==
  \A a \in Addr :
    /\ relay[a] = "mined" => relay'[a] = "mined"
    /\ relay'[a] \notin {"unknown", "offered"} =>
         relay[a] \notin {"unknown", "offered"} \/ chain[a] >= MinAmount

LEMMA MoneyStays ==
  ASSUME CalmUser, CalmInv, Grows, RelayOK, WorldOK'
  PROVE  /\ PaidBeforeRequested'
         /\ \A a \in Addr : chain[a] >= MinAmount => chain'[a] >= MinAmount
         /\ \A a \in Addr : relay[a] = "mined" => relay'[a] = "mined"
<1>1. \A a \in Addr : chain[a] \in Nat /\ chain'[a] \in Nat /\ MinAmount \in Nat
  BY CalmFacts DEF WorldOK
<1>2. \A a \in Addr : chain[a] >= MinAmount => chain'[a] >= MinAmount
  BY <1>1 DEF Grows
<1> QED BY <1>2 DEF RelayOK, CalmInv, MoneyInv, PaidBeforeRequested

LEMMA DbAddress ==
  ASSUME CalmUser, CalmInv, db.state \notin {"draft", "deploying"}
  PROVE  db.address \in Addr /\ db.address # None
BY CalmFacts DEF CalmInv, RowInv, Whole

LEMMA MoneySame ==
  ASSUME CalmUser, CalmInv, Grows, RelayOK, WorldOK', UNCHANGED paperKeys,
         UNCHANGED <<db.state, db.address>>, db.state = "readyToUse" => db'.hash = db.hash
  PROVE  MoneyInv'
<1>1. /\ PaidBeforeRequested'
      /\ \A a \in Addr : chain[a] >= MinAmount => chain'[a] >= MinAmount
      /\ \A a \in Addr : relay[a] = "mined" => relay'[a] = "mined"
  BY MoneyStays
<1>2. db.state \notin {"draft", "deploying"} => db.address \in Addr
  BY DbAddress
<1> QED
  BY <1>1, <1>2 DEF CalmInv, MoneyInv, ReadyIsDeployed, KeysKeptUntilDeployed

\* Nothing outside changes.
LEMMA WorldSame ==
  ASSUME CalmUser, CalmInv, UNCHANGED world
  PROVE  Grows /\ RelayOK /\ WorldOK'
<1>1. WorldOK /\ \A a \in Addr : chain[a] \in Nat
  BY CalmFacts DEF WorldOK
<1>2. Grows
  BY <1>1 DEF world, Grows
<1> QED BY <1>1, <1>2 DEF world, RelayOK, WorldOK

\* The row starts anew, or moves on before it is paid.
LEMMA MoneyUnpaid ==
  ASSUME CalmUser, CalmInv, UNCHANGED world,
         db'.state \in {"draft", "deploying", "waitingForFirstDeposit", "notEnoughFunds"},
         paperKeys' \/ (UNCHANGED paperKeys /\ db.state # "readyToUse")
  PROVE  MoneyInv'
<1>1. PaidBeforeRequested'
  BY WorldSame, MoneyStays
<1>2. KeysKeptUntilDeployed'
  BY DEF CalmInv, MoneyInv, KeysKeptUntilDeployed
<1> QED BY <1>1, <1>2 DEF MoneyInv, ReadyIsDeployed

\* The row moves on with its address, which is paid for.
LEMMA MoneyPaid ==
  ASSUME CalmUser, CalmInv, UNCHANGED <<world, paperKeys>>, db.state # "readyToUse",
         db'.state \in {"creationStarted", "finalizingDeployment"},
         db'.address \in Addr, chain[db'.address] >= MinAmount
  PROVE  MoneyInv'
<1>1. PaidBeforeRequested' /\ chain' = chain
  BY WorldSame, MoneyStays DEF world
<1>2. KeysKeptUntilDeployed'
  BY DEF CalmInv, MoneyInv, KeysKeptUntilDeployed
<1> QED BY <1>1, <1>2 DEF MoneyInv, ReadyIsDeployed

---------------------------------------------------------------------------
(* The steps of a handler *)

LEMMA NextFacts ==
  ASSUME CalmInv, Next
  PROVE  RowInv' /\ TypeOK' /\ WorldOK'
<1>1. RowInv'
  BY RowStep DEF CalmInv
<1> QED BY <1>1 DEF RowInv, TypeOK

\* A handler goes on and stores nothing in the wallet.
LEMMA MoveKeeps ==
  ASSUME CalmUser, CalmInv, Next, NEW t \in Thread, Alone(t), NEW x,
         th' = [th EXCEPT ![t] = x], CopyOK(th[t])', Grows, RelayOK,
         UNCHANGED <<db, paperKeys, pending, up, screen>>
  PROVE  CalmInv'
<1>1. \A e \in WorkEvent : pending'[e] = 0
  BY DEF Alone
<1>2. OneActivity'
  BY <1>1, OneMoves
<1>3. ScreenInv'
  BY BusyAlone, ScreenFrame DEF screen, Alone
<1>4. CopyInv'
  BY <1>1, CopyMoves DEF Alone
<1>5. MoneyInv'
  BY NextFacts, MoneySame
<1> QED BY <1>2, <1>3, <1>4, <1>5, NextFacts DEF CalmInv

\* A handler ends, after it has stored and published what it should.
LEMMA EndKeeps ==
  ASSUME CalmUser, CalmInv, Next, NEW t \in Thread, Alone(t), Finish(t), NEW e \in Event,
         pending' = pending \/ pending' = [pending EXCEPT ![e] = @ + 1],
         e \in WorkEvent /\ pending' # pending => db'.state # "draft" /\ e = EventOf(db'.state),
         UNCHANGED <<ui, alert, taps, toShow, up>>,
         uiStale' = uiStale \/ uiStale' = ScreenOpen,
         db'.state = "readyToUse" => db.state = "readyToUse" \/ uiStale' = ScreenOpen,
         MoneyInv'
  PROVE  CalmInv'
<1>1. /\ OneActivity'
      /\ \A u \in Thread : ~Busy(u)' /\ th'[u].pc = "idle"
      /\ \A f \in WorkEvent : f # e \/ pending' = pending => pending'[f] = 0
  <2>1. th' = [th EXCEPT ![t] = IdleThread]
    BY DEF Finish
  <2> QED BY <2>1, OneEnds
<1>2. ScreenInv'
  <2>1. Active /\ (uiStale => ScreenOpen)
    BY BusyAlone DEF Alone, CalmInv, ScreenInv
  <2>2. uiStale \in BOOLEAN /\ ScreenOpen \in BOOLEAN
    BY CalmFacts DEF ScreenOpen
  <2>3. uiStale => uiStale'
    BY <2>1, <2>2
  <2>4. uiStale' => uiStale \/ ScreenOpen
    BY <2>1, <2>2
  <2> QED BY <2>1, <2>3, <2>4, ScreenFrame
<1>3. CopyInv'
  <2>1. \A f \in WorkEvent : pending'[f] > 0 => db'.state # "draft" /\ f = EventOf(db'.state)
    BY <1>1
  <2> QED BY <1>1, <2>1, CopyEnds
<1> QED BY <1>1, <1>2, <1>3, NextFacts DEF CalmInv

\* The process ends.
LEMMA DownKeeps ==
  ASSUME CalmUser, CalmInv, Next, Down, UNCHANGED <<store, chain>>, RelayOK
  PROVE  CalmInv'
<1>1. OneActivity' /\ ScreenInv' /\ CopyInv'
  BY DownFacts, ScreenDown, CopyNone
<1>2. Grows
  BY CalmFacts DEF Grows
<1>3. MoneyInv'
  BY <1>2, NextFacts, MoneySame DEF store
<1> QED BY <1>1, <1>3, NextFacts DEF CalmInv

\* The fields of a thread that moves on.
LEMMA GotoFacts ==
  ASSUME CalmUser, CalmInv, NEW t \in Thread, NEW l \in PC, Goto(t, l)
  PROVE  /\ th' = [th EXCEPT ![t] = [th[t] EXCEPT !.pc = l]]
         /\ th'[t].pc = l /\ th'[t].w = th[t].w /\ th'[t].job = th[t].job
         /\ th'[t].bal = th[t].bal /\ th'[t].rep = th[t].rep
<1>1. th' = [th EXCEPT ![t] = [th[t] EXCEPT !.pc = l]]
  BY DEF Goto
<1>2. th'[t] = [th[t] EXCEPT !.pc = l] /\ th[t] \in ThreadState
  BY <1>1, CalmFacts
<1> QED BY <1>1, <1>2 DEF ThreadState

\* The copy of a thread, by what it does.
LEMMA CopyAt ==
  ASSUME CalmUser, CalmInv, NEW t \in Thread
  PROVE  /\ CopyOK(th[t]) /\ th[t] \in ThreadState /\ th[t].w \in Row
         /\ th[t].bal \in Nat /\ th[t].job \in Job
<1>1. CopyOK(th[t]) /\ th[t] \in ThreadState
  BY CalmFacts DEF CalmInv, CopyInv
<1>2. th[t].bal \in 0..MinAmount /\ MinAmount \in Nat
  BY <1>1, CalmFacts DEF ThreadState
<1>3. th[t].bal \in Nat
  BY <1>2
<1> QED BY <1>1, <1>3 DEF ThreadState

LEMMA StartStepKeeps ==
  ASSUME CalmUser, CalmInv, Next, NEW t \in Thread,
         Unsubscribe(t) \/ Subscribe(t) \/ ReadWallet(t)
  PROVE  CalmInv'
<1>1. CASE Unsubscribe(t) \/ Subscribe(t)
  <2>1. /\ Alone(t) /\ UNCHANGED <<db, paperKeys, pending, up, screen, world>>
        /\ Goto(t, "subscribe") \/ Goto(t, "read")
    BY <1>1, AtAlone DEF Unsubscribe, Subscribe, store
  <2>2. /\ th' = [th EXCEPT ![t] = [th[t] EXCEPT !.pc = th'[t].pc]]
        /\ th'[t].pc \in {"subscribe", "read"}
    BY <2>1, GotoFacts DEF PC
  <2>3. CopyOK(th[t])'
    BY <2>2 DEF CopyOK, Turn
  <2> QED BY <2>1, <2>2, <2>3, WorldSame, MoveKeeps
<1>2. CASE ReadWallet(t)
  <2> DEFINE x == [th[t] EXCEPT !.pc = "resume", !.w = db]
  <2>1. /\ Alone(t) /\ UNCHANGED <<db, paperKeys, pending, up, screen, world>>
        /\ th' = [th EXCEPT ![t] = x]
    BY <1>2, AtAlone DEF ReadWallet, store
  <2>2. th'[t] = x /\ x.pc = "resume" /\ x.w = db
    BY <2>1, CalmFacts, CopyAt DEF ThreadState
  <2> HIDE DEF x
  <2>3. CopyOK(th[t])'
    BY <2>1, <2>2 DEF CopyOK, Turn
  <2> QED BY <2>1, <2>3, WorldSame, MoveKeeps
<1> QED BY <1>1, <1>2

\* proceed() stores the next state and publishes its event.
LEMMA ProceedFacts ==
  ASSUME CalmUser, CalmInv, NEW r \in Row, r.state # "readyToUse", ProceedWith(r)
  PROVE  /\ db'.state = NextState(r.state, account)
         /\ db'.address = r.address /\ db'.hash = r.hash
         /\ db'.state # "draft"
         /\ EventOf(db'.state) \in Event
         /\ pending' = pending \/ pending' = [pending EXCEPT ![EventOf(db'.state)] = @ + 1]
         /\ uiStale' = ScreenOpen
<1> DEFINE s == NextState(r.state, account)
<1>1. s \in WState /\ s # "draft"
  <2>1. r.state \in WState /\ account \in Nat
    BY CalmFacts DEF Row
  <2> QED BY <2>1, NextStateType
<1>2. /\ db' = [r EXCEPT !.state = s] /\ uiStale' = ScreenOpen
      /\ Publish(IF db'.state = "readyToUse" THEN "WalletCreated" ELSE ResumeEvent[db'.state])
  BY DEF ProceedWith
<1> HIDE DEF s
<1>3. db'.state = s /\ db'.address = r.address /\ db'.hash = r.hash
  BY <1>2 DEF Row
<1>4. EventOf(s) \in Event
  <2>1. CASE s = "readyToUse"
    BY <2>1 DEF EventOf, Event
  <2>2. CASE s # "readyToUse"
    BY <1>1, <2>2, ResumeEventType DEF EventOf, InProgress
  <2> QED BY <2>1, <2>2
<1>5. Publish(EventOf(db'.state))
  BY <1>2 DEF EventOf
<1> QED BY <1>1, <1>2, <1>3, <1>4, <1>5 DEF s, Publish

LEMMA ResumeKeeps ==
  ASSUME CalmUser, CalmInv, Next, NEW t \in Thread, Resume(t)
  PROVE  CalmInv'
<1> DEFINE r == th[t].w
<1>1. /\ Alone(t) /\ Finish(t) /\ UNCHANGED <<paperKeys, world, up, ui, alert, taps, toShow>>
  BY AtAlone DEF Resume
<1>2. r = db /\ r \in Row /\ db.state \in WState
  BY CopyAt, CalmFacts DEF Resume, At, CopyOK
<1>3. CASE db.state = "draft"
  <2>1. ProceedWith(db)
    BY <1>2, <1>3 DEF Resume, InProgress
  <2>2. db'.state = "deploying"
    BY <1>2, <1>3, <2>1, ProceedFacts DEF NextState
  <2>3. MoneyInv'
    BY <1>1, <1>3, <2>2, MoneyUnpaid
  <2>4. /\ EventOf(db'.state) \in Event /\ db'.state # "draft" /\ uiStale' = ScreenOpen
        /\ pending' = pending \/ pending' = [pending EXCEPT ![EventOf(db'.state)] = @ + 1]
    BY <1>2, <1>3, <2>1, ProceedFacts
  <2> DEFINE e == EventOf(db'.state)
  <2>5. e = EventOf(db'.state)
    OBVIOUS
  <2> HIDE DEF e
  <2> QED BY <1>1, <2>2, <2>3, <2>4, <2>5, EndKeeps
<1>4. CASE InProgress(db.state)
  <2> DEFINE e == ResumeEvent[db.state]
  <2>1. Publish(e) /\ uiStale' = ScreenOpen /\ db' = db
    BY <1>2, <1>4 DEF Resume, InProgress
  <2>2. e \in Event /\ e = EventOf(db.state) /\ db.state # "draft"
    BY <1>2, <1>4, ResumeEventType DEF EventOf, InProgress
  <2> HIDE DEF e
  <2>3. MoneyInv'
    BY <1>1, <2>1, WorldSame, MoneySame
  <2>4. pending' = pending \/ pending' = [pending EXCEPT ![e] = @ + 1]
    BY <2>1 DEF Publish
  <2>5. e = EventOf(db'.state)
    BY <2>1, <2>2
  <2> QED BY <1>1, <2>1, <2>2, <2>3, <2>4, <2>5, EndKeeps
<1>5. CASE db.state = "readyToUse"
  <2>1. UNCHANGED <<db, pending, uiStale>>
    BY <1>2, <1>5 DEF Resume, InProgress
  <2>2. MoneyInv' /\ "WalletCreated" \in Event
    BY <1>1, <2>1, WorldSame, MoneySame DEF Event
  <2> QED BY <1>1, <2>1, <2>2, EndKeeps
<1> QED BY <1>3, <1>4, <1>5 DEF InProgress

\* What a closure does first suits the state that is stored.
LEMMA FirstStepFacts ==
  ASSUME CalmUser, CalmInv, NEW e \in WorkEvent, e = EventOf(db.state), db.state # "draft"
  PROVE  /\ FirstStep(e) \in {"request", "startCreation", "notify", "add"}
         /\ FirstStep(e) = "request" => db.state = "deploying"
         /\ FirstStep(e) = "startCreation" => db.state = "creationStarted"
         /\ FirstStep(e) = "notify" => db.state = "readyToUse"
         /\ FirstStep(e) = "add" => /\ FirstJob(e, db) \in Job \ {"none"}
                                    /\ JobState[FirstJob(e, db)] = db.state
         /\ FirstJob(e, db) = "receipt" => db.hash # None
<1>1. db.state \in WState
  BY CalmFacts
<1> USE DEF FirstStep, FirstJob, JobState, Job
<1>2. CASE db.state = "deploying"
  <2>1. e = "DeploymentStarted"
    BY <1>2 DEF EventOf, ResumeEvent, WState
  <2> QED BY <1>2, <2>1
<1>3. CASE db.state = "waitingForFirstDeposit"
  <2>1. e = "StartedWaitingForFirstDeposit"
    BY <1>3 DEF EventOf, ResumeEvent, WState
  <2> QED BY <1>3, <2>1
<1>4. CASE db.state = "notEnoughFunds"
  <2>1. e = "StartedWaitingForRemainingFeeAmount"
    BY <1>4 DEF EventOf, ResumeEvent, WState
  <2> QED BY <1>4, <2>1
<1>5. CASE db.state = "creationStarted"
  <2>1. e = "DeploymentFunded"
    BY <1>5 DEF EventOf, ResumeEvent, WState
  <2> QED BY <1>5, <2>1
<1>6. CASE db.state = "finalizingDeployment"
  <2>1. e = "CreationStarted"
    BY <1>6 DEF EventOf, ResumeEvent, WState
  <2> QED BY <1>6, <2>1
<1>7. CASE db.state = "readyToUse"
  <2>1. e = "WalletCreated"
    BY <1>7 DEF EventOf
  <2> QED BY <1>7, <2>1
<1> QED BY <1>1, <1>2, <1>3, <1>4, <1>5, <1>6, <1>7 DEF WState

LEMMA BeginKeeps ==
  ASSUME CalmUser, CalmInv, Next, NEW t \in Thread, NEW e \in Event, Begin(t, e)
  PROVE  CalmInv'
<1> DEFINE p == FirstStep(e)
           j == FirstJob(e, db)
           x == [IdleThread EXCEPT !.pc = p, !.job = j, !.w = db]
<1>1. /\ e \in WorkEvent /\ pending[e] > 0 /\ ~Busy(t)
      /\ pending' = [pending EXCEPT ![e] = @ - 1]
      /\ th' = [th EXCEPT ![t] = x]
      /\ uiStale' = (uiStale \/ (ScreenOpen /\ j = "receipt"))
      /\ UNCHANGED <<db, paperKeys, world, up, ui, alert, taps, toShow>>
  BY DEF Begin, WorkEvent, At, Busy, store
<1>2. db.state # "draft" /\ e = EventOf(db.state)
  BY <1>1 DEF CalmInv, CopyInv, PendingOK
<1>3. /\ p \in {"request", "startCreation", "notify", "add"}
      /\ p = "request" => db.state = "deploying"
      /\ p = "startCreation" => db.state = "creationStarted"
      /\ p = "notify" => db.state = "readyToUse"
      /\ p = "add" => j \in Job \ {"none"} /\ JobState[j] = db.state
  BY <1>1, <1>2, FirstStepFacts
<1>4. IdleThread \in ThreadState
  BY IdleThreadType
<1> HIDE DEF p, j
<1>5. th'[t] = x /\ x.pc = p /\ x.job = j /\ x.w = db
  BY <1>1, <1>4, CalmFacts DEF ThreadState
<1> HIDE DEF x
<1>6. /\ OneActivity' /\ (\A u \in Thread : ~Busy(u))
      /\ \A f \in WorkEvent : pending'[f] = 0
  BY <1>1, OneBegins
<1>7. CopyOK(th[t])'
  BY <1>1, <1>3, <1>5 DEF CopyOK, Turn
<1>8. CopyInv'
  BY <1>1, <1>6, <1>7, CopyMoves
<1>9. Active
  BY <1>1 DEF Active
<1>10. ScreenInv'
  BY <1>1, <1>9, ScreenFrame
<1>11. MoneyInv'
  BY <1>1, WorldSame, MoneySame
<1> QED BY <1>6, <1>8, <1>10, <1>11, NextFacts DEF CalmInv

LEMMA RequestKeeps ==
  ASSUME CalmUser, CalmInv, Next, NEW t \in Thread, NEW a \in Addr, Request(t, a)
  PROVE  CalmInv'
<1>1. /\ Alone(t) /\ relay[a] = "unknown" /\ relay' = [relay EXCEPT ![a] = "offered"]
      /\ UNCHANGED <<store, chain, dropped, budget>> /\ th[t].pc = "request"
  BY AtAlone DEF Request, At
<1>2. Grows /\ RelayOK
  BY <1>1, CalmFacts DEF Grows, RelayOK
<1>3. th[t].w = db /\ db.state = "deploying" /\ th[t] \in ThreadState /\ db \in Row
  BY <1>1, CopyAt, CalmFacts DEF CopyOK
<1> DEFINE y == [th[t].w EXCEPT !.address = a]
           x == [th[t] EXCEPT !.pc = "proceed", !.w = y]
<1>4. /\ th' = [th EXCEPT ![t] = x] /\ UNCHANGED <<pending, up, screen>>
  <2>1. /\ th' = [th EXCEPT ![t] = [th[t] EXCEPT !.pc = "proceed", !.w.address = a]]
        /\ UNCHANGED <<pending, up, screen>>
    BY <1>3 DEF Request
  <2>2. [th[t] EXCEPT !.pc = "proceed", !.w.address = a] = x
    BY <1>3 DEF ThreadState
  <2> QED BY <2>1, <2>2
<1>5. y.state = db.state /\ y.hash = db.hash /\ y.address = a /\ a # None
  BY <1>3, ConstantsAssumption DEF Row
<1> HIDE DEF y
<1>6. th'[t] = x /\ x.pc = "proceed" /\ x.w = y
  BY <1>3, <1>4, CalmFacts DEF ThreadState
<1> HIDE DEF x
<1>7. CopyOK(th[t])'
  <2>1. db' = db
    BY <1>1 DEF store
  <2>2. Proceeds(th[t].w, db)'
    BY <1>3, <1>5, <1>6, <2>1 DEF Proceeds
  <2> QED BY <1>6, <2>2 DEF CopyOK, Turn
<1> QED BY <1>1, <1>2, <1>4, <1>7, MoveKeeps DEF store

LEMMA StartCreationKeeps ==
  ASSUME CalmUser, CalmInv, Next, NEW t \in Thread, StartCreation(t)
  PROVE  CalmInv'
<1> DEFINE a == th[t].w.address
<1>1. /\ Alone(t) /\ th[t].pc = "startCreation" /\ Goto(t, "proceed") /\ a # None
      /\ relay' = [relay EXCEPT ![a] = IF @ = "offered" THEN "requested" ELSE @]
      /\ UNCHANGED <<store, chain, up, screen, pending>>
  BY AtAlone DEF StartCreation, At
<1>2. th[t].w = db /\ db.state = "creationStarted" /\ a \in Addr /\ chain[a] >= MinAmount
  <2>1. th[t].w = db /\ db.state = "creationStarted"
    BY <1>1, CopyAt DEF CopyOK
  <2>2. db.address \in Addr /\ chain[db.address] >= MinAmount
    BY <2>1, DbAddress DEF CalmInv, MoneyInv
  <2> QED BY <2>1, <2>2
<1>3. th' = [th EXCEPT ![t] = [th[t] EXCEPT !.pc = "proceed"]] /\ th'[t].pc = "proceed" /\ th'[t].w = db
  BY <1>1, <1>2, GotoFacts DEF PC
<1> HIDE DEF a
<1>4. Grows /\ RelayOK
  BY <1>1, <1>2, CalmFacts DEF Grows, RelayOK
<1>5. CopyOK(th[t])'
  BY <1>1, <1>2, <1>3 DEF CopyOK, Turn, Proceeds, store
<1> QED BY <1>1, <1>3, <1>4, <1>5, MoveKeeps DEF store

LEMMA NotifyCreatedKeeps ==
  ASSUME CalmUser, CalmInv, Next, NEW t \in Thread, NotifyCreated(t)
  PROVE  CalmInv'
<1>1. /\ Alone(t) /\ Finish(t) /\ th[t].pc = "notify"
      /\ UNCHANGED <<db, world, up, screen, pending>>
  BY AtAlone DEF NotifyCreated, At
<1>2. db.state = "readyToUse"
  BY <1>1, CopyAt DEF CopyOK
<1>3. MoneyInv'
  BY <1>1, <1>2 DEF CalmInv, MoneyInv, PaidBeforeRequested, ReadyIsDeployed,
                    KeysKeptUntilDeployed, world
<1>4. "WalletCreated" \in Event
  BY DEF Event
<1> QED BY <1>1, <1>3, <1>4, EndKeeps DEF screen

LEMMA ProceedKeeps ==
  ASSUME CalmUser, CalmInv, Next, NEW t \in Thread, Proceed(t)
  PROVE  CalmInv'
<1> DEFINE c == th[t].w
<1>1. /\ Alone(t) /\ Finish(t) /\ th[t].pc = "proceed" /\ ProceedWith(c)
      /\ UNCHANGED <<paperKeys, world, up, ui, alert, taps, toShow>>
  BY AtAlone DEF Proceed, At
<1>2. c \in Row /\ Proceeds(c, db)
  BY <1>1, CopyAt DEF CopyOK
<1>3. c.state = db.state /\ db.state \notin {"draft", "finalizingDeployment", "readyToUse"}
  BY <1>2 DEF Proceeds
<1>4. /\ db'.state = NextState(db.state, account) /\ db'.address = c.address
      /\ db'.state # "draft" /\ EventOf(db'.state) \in Event
      /\ pending' = pending \/ pending' = [pending EXCEPT ![EventOf(db'.state)] = @ + 1]
      /\ uiStale' = ScreenOpen
  BY <1>1, <1>2, <1>3, ProceedFacts
<1>5. /\ account \in Nat /\ MinAmount \in Nat /\ \A b \in Addr : chain[b] \in Nat
  BY CalmFacts
<1>6. MoneyInv'
  <2>1. CASE db.state = "deploying"
    BY <1>1, <1>3, <1>4, <2>1, MoneyUnpaid DEF NextState
  <2>2. CASE db.state = "waitingForFirstDeposit"
    <3>1. c = db /\ account <= chain[db.address] /\ db.address \in Addr
      BY <1>2, <2>2, DbAddress DEF Proceeds
    <3>2. CASE account < MinAmount
      BY <1>1, <1>4, <2>2, <3>2, MoneyUnpaid DEF NextState
    <3>3. CASE ~(account < MinAmount)
      <4>1. chain[db.address] >= MinAmount
        BY <1>5, <3>1, <3>3
      <4> QED BY <1>1, <1>4, <2>2, <3>1, <3>3, <4>1, MoneyPaid DEF NextState
    <3> QED BY <3>2, <3>3
  <2>3. CASE db.state = "notEnoughFunds"
    <3>1. c = db /\ chain[db.address] >= MinAmount /\ db.address \in Addr
      BY <1>2, <2>3, DbAddress DEF Proceeds
    <3> QED BY <1>1, <1>4, <2>3, <3>1, MoneyPaid DEF NextState
  <2>4. CASE db.state = "creationStarted"
    <3>1. c = db /\ chain[db.address] >= MinAmount /\ db.address \in Addr
      BY <1>2, <2>4, DbAddress DEF Proceeds, CalmInv, MoneyInv
    <3> QED BY <1>1, <1>4, <2>4, <3>1, MoneyPaid DEF NextState
  <2> QED BY <1>2, <2>1, <2>2, <2>3, <2>4 DEF Proceeds
<1> DEFINE e == EventOf(db'.state)
<1>7. e = EventOf(db'.state)
  OBVIOUS
<1> HIDE DEF e
<1> QED BY <1>1, <1>4, <1>6, <1>7, EndKeeps

---------------------------------------------------------------------------
(* Repeaters *)

\* A repeater's turn goes on with the same job and copy.
LEMMA TurnKeeps ==
  ASSUME CalmUser, CalmInv, Next, NEW t \in Thread, Alone(t), th[t].pc \in Turn, NEW x,
         th' = [th EXCEPT ![t] = x], x.pc \in Turn \ {"store"}, x.w = th[t].w,
         x.job = th[t].job, UNCHANGED <<store, pending, up, screen, world>>
  PROVE  CalmInv'
<1>1. th'[t] = x /\ db' = db
  BY CalmFacts DEF store
<1>2. CopyOK(th[t])'
  BY <1>1, CopyAt DEF CopyOK, Turn
<1> QED BY <1>2, WorldSame, MoveKeeps DEF store

LEMMA RepeaterFields ==
  ASSUME CalmUser, CalmInv, NEW t \in Thread, NEW l \in PC,
         NEW s \in {"stopped", "running", "waiting"}
  PROVE  /\ [th[t] EXCEPT !.pc = l, !.rep = s].pc = l
         /\ [th[t] EXCEPT !.pc = l, !.rep = s].w = th[t].w
         /\ [th[t] EXCEPT !.pc = l, !.rep = s].job = th[t].job
         /\ [th[t] EXCEPT !.pc = l, !.rep = s].bal = th[t].bal
         /\ [th[t] EXCEPT !.pc = l, !.rep = s].rep = s
BY CopyAt DEF ThreadState

LEMMA AddRepeaterKeeps ==
  ASSUME CalmUser, CalmInv, Next, NEW t \in Thread, AddRepeater(t)
  PROVE  CalmInv'
<1> DEFINE x == [th[t] EXCEPT !.pc = "enter", !.rep = "stopped"]
<1>1. /\ Alone(t) /\ th[t].pc = "add" /\ th' = [th EXCEPT ![t] = x]
      /\ UNCHANGED <<store, pending, up, screen, world>>
  BY AtAlone DEF AddRepeater, At
<1>2. x.pc = "enter" /\ x.w = th[t].w /\ x.job = th[t].job
  BY RepeaterFields DEF PC
<1> HIDE DEF x
<1> QED BY <1>1, <1>2, TurnKeeps DEF Turn

LEMMA RunRepeaterKeeps ==
  ASSUME CalmUser, CalmInv, Next, NEW t \in Thread, RunRepeater(t)
  PROVE  CalmInv'
<1> DEFINE x == [th[t] EXCEPT !.pc = "poll", !.rep = "running"]
<1>1. /\ Alone(t) /\ th[t].pc \in {"enter", "run"} /\ th' = [th EXCEPT ![t] = x]
      /\ UNCHANGED <<store, pending, up, screen, world>>
  BY AtAlone DEF RunRepeater, At
<1>2. x.pc = "poll" /\ x.w = th[t].w /\ x.job = th[t].job
  BY RepeaterFields DEF PC
<1> HIDE DEF x
<1> QED BY <1>1, <1>2, TurnKeeps DEF Turn

\* A repeater has returned: the handler goes on with the stored row, or ends.
LEMMA AfterRepeaterKeeps ==
  ASSUME CalmUser, CalmInv, Next, NEW t \in Thread, Alone(t), th[t].pc \in Turn,
         AfterRepeater(t, db'), UNCHANGED <<paperKeys, pending, up, world, ui, alert, taps, toShow>>,
         uiStale' = uiStale \/ uiStale' = ScreenOpen,
         UNCHANGED <<db.state, db.address>>, db.state = "readyToUse" => db'.hash = db.hash
  PROVE  CalmInv'
<1>1. MoneyInv'
  BY WorldSame, MoneySame
<1>2. CASE th[t].job # "hash"
  <2>1. Finish(t) /\ "WalletCreated" \in Event
    BY <1>2 DEF AfterRepeater, Event
  <2> QED BY <1>1, <2>1, EndKeeps
<1>3. CASE th[t].job = "hash"
  <2> DEFINE x == [IdleThread EXCEPT !.pc = "add", !.job = "receipt", !.w = db']
  <2>1. th' = [th EXCEPT ![t] = x]
    BY <1>3 DEF AfterRepeater
  <2>2. x.pc = "add" /\ x.job = "receipt" /\ x.w = db'
    BY DEF IdleThread
  <2> HIDE DEF x
  <2>3. th'[t] = x
    BY <2>1, CalmFacts
  <2>4. db.state = "finalizingDeployment"
    BY <1>3, CopyAt DEF CopyOK, JobState, Job
  <2>5. CopyOK(th[t])'
    BY <2>2, <2>3, <2>4 DEF CopyOK, Turn, JobState, Job
  <2>6. \A e \in WorkEvent : pending'[e] = 0
    BY DEF Alone
  <2>7. OneActivity' /\ CopyInv'
    BY <2>1, <2>5, <2>6, OneMoves, CopyMoves DEF Alone
  <2>8. ScreenInv'
    <3>1. Active /\ (uiStale => ScreenOpen)
      BY BusyAlone DEF Alone, CalmInv, ScreenInv
    <3>2. uiStale \in BOOLEAN /\ ScreenOpen \in BOOLEAN
      BY CalmFacts DEF ScreenOpen
    <3>3. (uiStale => uiStale') /\ (uiStale' => uiStale \/ ScreenOpen)
      BY <3>1, <3>2
    <3> QED BY <2>4, <3>1, <3>3, ScreenFrame
  <2> QED BY <1>1, <2>7, <2>8, NextFacts DEF CalmInv
<1> QED BY <1>2, <1>3

\* A handler in a turn works on the stored row.
LEMMA TurnCopy ==
  ASSUME CalmUser, CalmInv, NEW t \in Thread, th[t].pc \in Turn
  PROVE  th[t].w = db
BY CopyAt DEF CopyOK

LEMMA EndOfTurnKeeps ==
  ASSUME CalmUser, CalmInv, Next, NEW t \in Thread, EndOfTurn(t)
  PROVE  CalmInv'
<1> DEFINE x == [th[t] EXCEPT !.pc = "wake", !.rep = "waiting"]
<1>1. /\ Alone(t) /\ th[t].pc \in Turn /\ th[t].pc = "loop"
      /\ UNCHANGED <<store, pending, up, screen, world>>
  BY AtAlone DEF EndOfTurn, At, Turn
<1>2. th[t].w = db /\ db' = db
  BY <1>1, TurnCopy DEF store
<1>3. CASE th[t].rep = "stopped"
  <2>1. AfterRepeater(t, db')
    BY <1>2, <1>3 DEF EndOfTurn
  <2> QED BY <1>1, <1>2, <2>1, AfterRepeaterKeeps DEF store, screen
<1>4. CASE th[t].rep # "stopped"
  <2>1. th' = [th EXCEPT ![t] = x]
    BY <1>4 DEF EndOfTurn
  <2>2. x.pc = "wake" /\ x.w = th[t].w /\ x.job = th[t].job
    BY RepeaterFields DEF PC
  <2> HIDE DEF x
  <2> QED BY <1>1, <2>1, <2>2, TurnKeeps DEF Turn
<1> QED BY <1>3, <1>4

LEMMA WakeKeeps ==
  ASSUME CalmUser, CalmInv, Next, NEW t \in Thread, Wake(t)
  PROVE  CalmInv'
<1> DEFINE x == [th[t] EXCEPT !.pc = "run"]
<1>1. /\ Alone(t) /\ th[t].pc \in Turn /\ th[t].pc = "wake"
      /\ UNCHANGED <<store, pending, up, screen, world>>
  BY AtAlone DEF Wake, At, Turn
<1>2. th[t].w = db /\ db' = db
  BY <1>1, TurnCopy DEF store
<1>3. CASE th[t].rep = "stopped"
  <2>1. AfterRepeater(t, db')
    BY <1>2, <1>3 DEF Wake
  <2> QED BY <1>1, <1>2, <2>1, AfterRepeaterKeeps DEF store, screen
<1>4. CASE th[t].rep # "stopped"
  <2>1. Goto(t, "run")
    BY <1>4 DEF Wake
  <2>2. "run" \in PC /\ th' = [th EXCEPT ![t] = x]
    BY <2>1 DEF PC, Goto
  <2>3. x.pc = "run" /\ x.w = th[t].w /\ x.job = th[t].job
    BY <2>2, CopyAt DEF ThreadState
  <2> HIDE DEF x
  <2> QED BY <1>1, <2>2, <2>3, TurnKeeps DEF Turn
<1> QED BY <1>3, <1>4

LEMMA PollBalanceKeeps ==
  ASSUME CalmUser, CalmInv, Next, NEW t \in Thread, PollBalance(t)
  PROVE  CalmInv'
<1> DEFINE a == th[t].w.address
           b == chain[a]
           x == [th[t] EXCEPT !.pc = "store", !.bal = b]
<1>1. /\ Alone(t) /\ th[t].pc = "poll" /\ th[t].job \in {"firstDeposit", "remaining"}
      /\ a # None /\ th' = [th EXCEPT ![t] = x]
      /\ UNCHANGED <<store, pending, up, screen, world>>
  BY AtAlone DEF PollBalance, At
<1>2. th[t].w = db /\ db' = db /\ chain' = chain /\ a \in Addr
  BY <1>1, TurnCopy, CalmFacts DEF Turn, store, world
<1>3. b \in Nat /\ b = chain[db.address]
  BY <1>2, CalmFacts
<1> HIDE DEF a, b
<1>4. th'[t] = x /\ x.pc = "store" /\ x.w = th[t].w /\ x.job = th[t].job /\ x.bal = b
  BY <1>1, CopyAt, CalmFacts DEF ThreadState
<1> HIDE DEF x
<1>5. CopyOK(th[t])'
  <2>1. JobState[th[t].job] = db.state /\ th[t].job # "none"
    BY <1>1, CopyAt DEF CopyOK, Turn
  <2>2. b <= chain'[db'.address]
    BY <1>2, <1>3
  <2> QED BY <1>1, <1>2, <1>4, <2>1, <2>2 DEF CopyOK, Turn
<1> QED BY <1>1, <1>5, WorldSame, MoveKeeps DEF store

LEMMA StoreBalanceKeeps ==
  ASSUME CalmUser, CalmInv, Next, NEW t \in Thread, StoreBalance(t)
  PROVE  CalmInv'
<1> DEFINE enough == th[t].bal >= (IF th[t].job = "firstDeposit" THEN 1 ELSE MinAmount)
           x == [th[t] EXCEPT !.pc = "proceed", !.rep = "stopped"]
<1>1. /\ Alone(t) /\ th[t].pc = "store" /\ account' = th[t].bal
      /\ UNCHANGED <<db, paperKeys, pending, up, screen, world>>
  BY AtAlone DEF StoreBalance, At
<1>2. /\ th[t].w = db /\ th[t].job \in {"firstDeposit", "remaining"} /\ th[t].bal <= chain[db.address]
      /\ JobState[th[t].job] = db.state
  BY <1>1, CopyAt DEF CopyOK, Turn
<1>3. db.state = IF th[t].job = "firstDeposit" THEN "waitingForFirstDeposit" ELSE "notEnoughFunds"
  BY <1>2 DEF JobState, Job
<1>4. CASE enough
  <2>1. th' = [th EXCEPT ![t] = x]
    BY <1>4 DEF StoreBalance
  <2>2. th'[t] = x /\ x.pc = "proceed" /\ x.w = th[t].w
    BY <2>1, CalmFacts, RepeaterFields DEF PC
  <2> HIDE DEF x
  <2>3. db.address \in Addr /\ chain[db.address] \in Nat /\ th[t].bal \in Nat /\ MinAmount \in Nat
    BY <1>3, DbAddress, CalmFacts, CopyAt
  <2>4. Proceeds(th[t].w, db)'
    <3>1. CASE th[t].job = "firstDeposit"
      BY <1>1, <1>2, <1>3, <2>2, <3>1 DEF Proceeds, world
    <3>2. CASE th[t].job = "remaining"
      <4>1. chain[db.address] >= MinAmount
        BY <1>2, <1>4, <2>3, <3>2
      <4> QED BY <1>1, <1>2, <1>3, <2>2, <3>2, <4>1 DEF Proceeds, world
    <3> QED BY <1>2, <3>1, <3>2
  <2>5. CopyOK(th[t])'
    BY <2>2, <2>4 DEF CopyOK, Turn
  <2> QED BY <1>1, <2>1, <2>5, WorldSame, MoveKeeps
<1>5. CASE ~enough
  <2>1. Goto(t, "loop")
    BY <1>5 DEF StoreBalance
  <2>2. /\ th' = [th EXCEPT ![t] = [th[t] EXCEPT !.pc = "loop"]]
        /\ th'[t].pc = "loop" /\ th'[t].w = th[t].w /\ th'[t].job = th[t].job
    BY <2>1, GotoFacts DEF PC
  <2>3. CopyOK(th[t])'
    BY <1>1, <1>2, <2>2 DEF CopyOK, Turn
  <2> QED BY <1>1, <2>2, <2>3, WorldSame, MoveKeeps
<1> QED BY <1>4, <1>5

LEMMA PollHashKeeps ==
  ASSUME CalmUser, CalmInv, Next, NEW t \in Thread, PollHash(t)
  PROVE  CalmInv'
<1> DEFINE new == [th[t].w EXCEPT !.hash = th[t].w.address]
<1>1. /\ Alone(t) /\ th[t].pc = "poll" /\ th[t].job = "hash" /\ th[t].pc \in Turn
      /\ UNCHANGED <<account, paperKeys, world, dropped, budget>>
  BY AtAlone DEF PollHash, At, Turn
<1>2. th[t].w = db /\ db \in Row
  BY <1>1, TurnCopy, CalmFacts
<1>3. JobState["hash"] = db.state
  BY <1>1, CopyAt DEF CopyOK, Turn
<1>4. db.state = "finalizingDeployment"
  BY <1>3 DEF JobState, Job
<1>5. CASE Goto(t, "loop") /\ UNCHANGED <<db, up, screen, pending>>
  <2>1. /\ th' = [th EXCEPT ![t] = [th[t] EXCEPT !.pc = "loop"]]
        /\ th'[t].pc = "loop" /\ th'[t].w = th[t].w /\ th'[t].job = th[t].job
    BY <1>5, GotoFacts DEF PC
  <2>2. CopyOK(th[t])'
    BY <1>1, <1>2, <1>3, <1>5, <2>1 DEF CopyOK, Turn
  <2> QED BY <1>1, <1>5, <2>1, <2>2, WorldSame, MoveKeeps
<1>6. CASE /\ db' = new /\ AfterRepeater(t, new) /\ uiStale' = ScreenOpen
           /\ UNCHANGED <<up, ui, alert, taps, toShow, pending>>
  <2>1. db'.state = db.state /\ db'.address = db.address /\ AfterRepeater(t, db')
    BY <1>2, <1>6 DEF Row
  <2> QED BY <1>1, <1>4, <1>6, <2>1, AfterRepeaterKeeps
<1>7. CASE Down /\ UNCHANGED db
  BY <1>1, <1>7, DownKeeps, WorldSame DEF store, world
<1> QED BY <1>5, <1>6, <1>7 DEF PollHash

LEMMA PollReceiptKeeps ==
  ASSUME CalmUser, CalmInv, Next, NEW t \in Thread, PollReceipt(t)
  PROVE  CalmInv'
<1>1. /\ Alone(t) /\ th[t].pc = "poll" /\ th[t].job = "receipt" /\ th[t].pc \in Turn
      /\ UNCHANGED <<account, paperKeys, world, up, ui, alert, taps, toShow>>
      /\ th[t].w.hash # None
  BY AtAlone DEF PollReceipt, At, Turn
<1>2. th[t].w = db /\ db \in Row
  BY <1>1, TurnCopy, CalmFacts
<1>3. JobState["receipt"] = db.state
  BY <1>1, CopyAt DEF CopyOK, Turn
<1>4. db.state = "finalizingDeployment"
  BY <1>3 DEF JobState, Job
<1>5. CASE Goto(t, "loop") /\ UNCHANGED <<db, uiStale, pending>>
  <2>1. /\ th' = [th EXCEPT ![t] = [th[t] EXCEPT !.pc = "loop"]]
        /\ th'[t].pc = "loop" /\ th'[t].w = th[t].w /\ th'[t].job = th[t].job
    BY <1>5, GotoFacts DEF PC
  <2>2. CopyOK(th[t])'
    BY <1>1, <1>2, <1>3, <1>5, <2>1 DEF CopyOK, Turn
  <2> QED BY <1>1, <1>5, <2>1, <2>2, WorldSame, MoveKeeps DEF screen
<1>6. CASE relay[db.hash] = "mined" /\ ProceedWith(db) /\ Finish(t)
  <2>1. /\ db'.state = "readyToUse" /\ db'.address = db.address /\ db'.hash = db.hash
        /\ EventOf(db'.state) \in Event
        /\ pending' = pending \/ pending' = [pending EXCEPT ![EventOf(db'.state)] = @ + 1]
        /\ uiStale' = ScreenOpen
    BY <1>2, <1>4, <1>6, ProceedFacts DEF NextState
  <2>2. db.hash = db.address /\ db.address # None
    BY <1>1, <1>2 DEF CalmInv, RowInv, Whole
  <2>3. PaidBeforeRequested' /\ chain' = chain /\ relay' = relay
    BY <1>1, WorldSame, MoneyStays DEF world
  <2>4. MoneyInv'
    BY <1>4, <1>6, <2>1, <2>2, <2>3
    DEF CalmInv, MoneyInv, ReadyIsDeployed, KeysKeptUntilDeployed
  <2> DEFINE e == EventOf(db'.state)
  <2>5. e = EventOf(db'.state)
    OBVIOUS
  <2> HIDE DEF e
  <2> QED BY <1>1, <1>6, <2>1, <2>4, <2>5, EndKeeps
<1>7. CASE CancelWith(db) /\ uiStale' = ScreenOpen /\ Finish(t)
  <2>1. db' = db /\ Publish("WalletCreationFailed")
    BY <1>4, <1>7 DEF CancelWith, Cancellable
  <2>2. /\ "WalletCreationFailed" \in Event \ WorkEvent
        /\ pending' = pending \/ pending' = [pending EXCEPT !["WalletCreationFailed"] = @ + 1]
    BY <2>1 DEF Publish, Event, WorkEvent
  <2>3. MoneyInv'
    BY <1>1, <2>1, WorldSame, MoneySame
  <2> QED BY <1>1, <1>7, <2>1, <2>2, <2>3, EndKeeps
<1> QED BY <1>2, <1>5, <1>6, <1>7 DEF PollReceipt

\* stopAll() changes nothing but the state of the repeaters.
LEMMA StopKeeps ==
  ASSUME CalmUser, CalmInv, Next, HandleAborted \/ \E t \in Thread : StopRepeater(t)
  PROVE  CalmInv'
<1>1. UNCHANGED <<store, world, up, screen>>
  BY DEF HandleAborted, StopRepeater
<1>2. /\ \A u \in Thread : /\ th'[u].pc = th[u].pc /\ th'[u].w = th[u].w
                           /\ th'[u].job = th[u].job /\ th'[u].bal = th[u].bal
      /\ \A e \in WorkEvent : pending'[e] = pending[e]
  <2>1. CASE HandleAborted
    BY <2>1, CalmFacts DEF HandleAborted, WorkEvent
  <2>2. ASSUME NEW t \in Thread, StopRepeater(t)
        PROVE  <1>2
    <3>1. th' = [th EXCEPT ![t] = [th[t] EXCEPT !.rep = "stopped"]] /\ pending' = pending
      BY <2>2 DEF StopRepeater
    <3>2. ASSUME NEW u \in Thread
          PROVE  /\ th'[u].pc = th[u].pc /\ th'[u].w = th[u].w
                 /\ th'[u].job = th[u].job /\ th'[u].bal = th[u].bal
      BY <3>1, CalmFacts, CopyAt DEF ThreadState
    <3> QED BY <3>1, <3>2
  <2> QED BY <2>1, <2>2
<1>3. OneActivity' /\ (Active' <=> Active)
  BY <1>2, OneSame
<1>4. ScreenInv'
  BY <1>1, <1>3, ScreenFrame DEF screen, store
<1>5. CopyInv'
  BY <1>1, <1>2, WorldSame, CopySame DEF store
<1>6. MoneyInv'
  BY <1>1, WorldSame, MoneySame DEF store
<1> QED BY <1>3, <1>4, <1>5, <1>6, NextFacts DEF CalmInv

---------------------------------------------------------------------------
(* Failures *)

LEMMA EndOfProcessKeeps ==
  ASSUME CalmUser, CalmInv, Next,
         Crash \/ HandleCreationFailed \/ \E t \in Thread : Trap(t)
  PROVE  CalmInv'
<1>1. Down /\ UNCHANGED <<store, world>>
  BY DEF Crash, HandleCreationFailed, Trap
<1> QED BY <1>1, DownKeeps, WorldSame DEF world

\* A call that throws: who made it works on the stored row, and a request that
\* got through was paid for.
LEMMA InCallFacts ==
  ASSUME CalmUser, CalmInv, NEW t \in Thread, InCall(t), LostAnswer(t)
  PROVE  Alone(t) /\ Active /\ th[t].w = db /\ RelayOK
<1>1. /\ Alone(t) /\ Active
      /\ th[t].pc \in {"request", "startCreation", "notify", "poll"}
  BY AtAlone DEF InCall, At
<1>2. th[t].w = db
  BY <1>1, CopyAt DEF CopyOK, Turn
<1>3. CASE UNCHANGED relay
  BY <1>1, <1>2, <1>3 DEF RelayOK
<1>4. CASE ~UNCHANGED relay
  <2>1. /\ th[t].pc = "startCreation" /\ relay[db.address] = "offered"
        /\ relay' = [relay EXCEPT ![db.address] = "requested"]
    BY <1>2, <1>4 DEF LostAnswer, At
  <2>2. db.state = "creationStarted"
    BY <2>1, CopyAt DEF CopyOK
  <2>3. db.address \in Addr /\ chain[db.address] >= MinAmount
    BY <2>2, DbAddress DEF CalmInv, MoneyInv
  <2> QED BY <1>1, <1>2, <2>1, <2>3, CalmFacts DEF RelayOK
<1> QED BY <1>1, <1>2, <1>3, <1>4

LEMMA NetworkErrorKeeps ==
  ASSUME CalmUser, CalmInv, Next, NEW t \in Thread, NetworkError(t)
  PROVE  CalmInv'
<1>1. /\ Alone(t) /\ Active /\ RelayOK /\ Finish(t)
      /\ UNCHANGED <<store, chain, up, ui, alert, taps, uiStale, pending>>
      /\ Post("error") \/ Post("failed")
  BY InCallFacts DEF NetworkError
<1>2. /\ OneActivity'
      /\ \A u \in Thread : ~Busy(u)' /\ th'[u].pc = "idle"
      /\ \A f \in WorkEvent : pending'[f] = 0
  <2>1. th' = [th EXCEPT ![t] = IdleThread] /\ "WalletCreated" \in Event
    BY <1>1 DEF Finish, Event
  <2> QED BY <1>1, <2>1, OneEnds
<1>3. ~Active'
  BY <1>2 DEF Active
<1>4. ScreenInv'
  BY <1>1, <1>3, ScreenPosts DEF Errors, store
<1>5. CopyInv'
  BY <1>2, CopyNone
<1>6. Grows
  BY <1>1, CalmFacts DEF Grows
<1>7. MoneyInv'
  BY <1>1, <1>6, NextFacts, MoneySame DEF store
<1> QED BY <1>2, <1>4, <1>5, <1>7, NextFacts DEF CalmInv

LEMMA FatalErrorKeeps ==
  ASSUME CalmUser, CalmInv, Next, NEW t \in Thread, FatalError(t)
  PROVE  CalmInv'
<1>1. /\ Alone(t) /\ Active /\ RelayOK /\ Finish(t) /\ CancelWith(db)
      /\ UNCHANGED <<account, paperKeys, chain, up, ui, alert, taps, uiStale>>
      /\ Post("failed")
  BY InCallFacts DEF FatalError
<1>2. PICK e \in Event \ WorkEvent :
        /\ pending' = pending \/ pending' = [pending EXCEPT ![e] = @ + 1]
        /\ db' = db \/ (db' = DraftRow /\ db.state \in Cancellable)
  <2>1. {"DeploymentAborted", "WalletCreationFailed"} \subseteq Event \ WorkEvent
    BY DEF Event, WorkEvent
  <2>2. CASE db.state \in Cancellable
    BY <1>1, <2>1, <2>2 DEF CancelWith, Publish
  <2>3. CASE db.state = "finalizingDeployment"
    BY <1>1, <2>1, <2>3 DEF CancelWith, Publish, Cancellable
  <2>4. CASE db.state \notin Cancellable /\ db.state # "finalizingDeployment"
    BY <1>1, <2>1, <2>4 DEF CancelWith
  <2> QED BY <2>2, <2>3, <2>4
<1>3. /\ OneActivity'
      /\ \A u \in Thread : ~Busy(u)' /\ th'[u].pc = "idle"
      /\ \A f \in WorkEvent : pending'[f] = 0
  <2>1. th' = [th EXCEPT ![t] = IdleThread]
    BY <1>1 DEF Finish
  <2> QED BY <1>1, <1>2, <2>1, OneEnds
<1>4. ~Active'
  BY <1>3 DEF Active
<1>5. ScreenInv'
  BY <1>1, <1>2, <1>4, ScreenPosts DEF Errors, DraftRow
<1>6. CopyInv'
  BY <1>3, CopyNone
<1>7. Grows
  BY <1>1, CalmFacts DEF Grows
<1>8. MoneyInv'
  <2>1. CASE db' = db
    BY <1>1, <1>7, <2>1, NextFacts, MoneySame
  <2>2. CASE db' = DraftRow /\ db.state \in Cancellable
    <3>1. PaidBeforeRequested'
      BY <1>1, <1>7, NextFacts, MoneyStays
    <3> QED BY <1>1, <2>2, <3>1
        DEF CalmInv, MoneyInv, ReadyIsDeployed, KeysKeptUntilDeployed, DraftRow, Cancellable
  <2> QED BY <1>2, <2>1, <2>2
<1> QED BY <1>3, <1>5, <1>6, <1>8, NextFacts DEF CalmInv

---------------------------------------------------------------------------
(* The user, the main queue and the outside world *)

\* A step of the screen alone.
LEMMA ScreenKeeps ==
  ASSUME CalmUser, CalmInv, Next, UNCHANGED <<store, world, pending, th>>, ScreenInv'
  PROVE  CalmInv'
<1>1. OneActivity'
  BY OneSame
<1>2. CopyInv'
  BY WorldSame, CopySame DEF store
<1>3. MoneyInv'
  BY WorldSame, MoneySame DEF store
<1> QED BY <1>1, <1>2, <1>3, NextFacts DEF CalmInv

\* The service is started by a user to whom that is offered.
LEMMA StartKeeps ==
  ASSUME CalmUser, CalmInv, Next, NEW t \in Thread, Offered, Goto(t, "unsubscribe"),
         UNCHANGED <<store, world, up, pending>>, ScreenInv'
  PROVE  CalmInv'
<1>1. ~Active
  BY DEF CalmInv, ScreenInv
<1>2. /\ th' = [th EXCEPT ![t] = [th[t] EXCEPT !.pc = "unsubscribe"]]
      /\ th'[t].pc = "unsubscribe"
  BY GotoFacts DEF PC
<1>3. OneActivity' /\ \A e \in WorkEvent : pending'[e] = 0
  BY <1>1, <1>2, OneStarts
<1>4. CopyOK(th[t])'
  BY <1>2 DEF CopyOK, Turn
<1>5. CopyInv'
  BY <1>1, <1>2, <1>3, <1>4, CopyMoves DEF Active
<1>6. MoneyInv'
  BY WorldSame, MoneySame DEF store
<1> QED BY <1>3, <1>5, <1>6, NextFacts DEF CalmInv

LEMMA OpenScreenKeeps ==
  ASSUME CalmUser, CalmInv, Next, NEW t \in Thread, OpenScreen(t)
  PROVE  CalmInv'
<1>1. /\ up /\ ui \in Closed /\ ui' = "cancellable" /\ Goto(t, "unsubscribe")
      /\ UNCHANGED <<store, world, up, alert, uiStale, toShow, pending>>
  BY DEF OpenScreen, At, Closed
<1>2. toShow = {} /\ ~uiStale /\ alert = "none"
  BY <1>1 DEF CalmInv, ScreenInv, ScreenOpen, Closed
<1>3. db.state # "readyToUse"
  BY <1>1, <1>2 DEF CalmInv, ScreenInv, Closed
<1>4. ScreenInv'
  BY <1>1, <1>2, <1>3 DEF ScreenInv, Offered, Closed, Errors, ScreenOpen, store
<1> QED BY <1>1, <1>4, StartKeeps DEF Offered

LEMMA RetryKeeps ==
  ASSUME CalmUser, CalmInv, Next, NEW t \in Thread, Retry(t)
  PROVE  CalmInv'
<1>1. /\ up /\ ui = "error" /\ alert = "none" /\ taps < MaxTaps /\ Goto(t, "unsubscribe")
      /\ taps' = taps + 1
      /\ UNCHANGED <<store, world, up, ui, alert, uiStale, toShow, pending>>
  BY DEF Retry, At
<1>2. taps = 0 /\ taps' = 1
  BY <1>1, CalmFacts, ConstantsAssumption DEF CalmUser
<1>3. toShow \cap Errors = {}
  BY <1>1, <1>2 DEF CalmInv, ScreenInv
<1>4. ScreenInv'
  BY <1>1, <1>2, <1>3 DEF CalmInv, ScreenInv, Offered, Closed, Errors, ScreenOpen, store
<1> QED BY <1>1, <1>2, <1>4, StartKeeps DEF Offered

LEMMA PrepareForCreationKeeps ==
  ASSUME CalmUser, CalmInv, Next, PrepareForCreation
  PROVE  CalmInv' /\ db.state # "readyToUse"
<1>1. /\ up /\ ui \in Closed /\ ui' = "setup" /\ db' = DraftRow /\ paperKeys'
      /\ UNCHANGED <<world, up, alert, taps, uiStale, toShow, pending, th>>
  BY DEF PrepareForCreation, Closed
<1>2. toShow = {} /\ ~uiStale /\ alert = "none" /\ ~Active
  BY <1>1 DEF CalmInv, ScreenInv, ScreenOpen, Closed, Offered
<1>3. db.state # "readyToUse"
  BY <1>1, <1>2 DEF CalmInv, ScreenInv, Closed
<1>4. OneActivity' /\ ~Active'
  BY <1>1, <1>2, OneSame
<1>5. ScreenInv'
  BY <1>1, <1>2, <1>4 DEF ScreenInv, Errors, ScreenOpen, DraftRow
<1>6. /\ \A u \in Thread : th'[u].pc = "idle"
      /\ \A e \in WorkEvent : pending'[e] = 0
  BY <1>1, <1>2, CalmFacts DEF Active, Busy
<1>7. CopyInv'
  BY <1>6, CopyNone
<1>8. MoneyInv'
  BY <1>1, MoneyUnpaid DEF DraftRow
<1> QED BY <1>3, <1>4, <1>5, <1>7, <1>8, NextFacts DEF CalmInv

LEMMA ShowStateKeeps ==
  ASSUME CalmUser, CalmInv, Next, NEW v \in Shown, ShowState(v)
  PROVE  CalmInv'
<1>1. /\ up /\ v \in toShow /\ UNCHANGED <<store, world, up, pending, th>>
      /\ ui' = (IF v = "failed" THEN "error" ELSE v)
      /\ toShow' = (IF v = "main" THEN {} ELSE toShow \ {v})
      /\ uiStale' = (uiStale /\ v # "main")
      /\ taps' = (IF v \in {"error", "failed"} THEN 0 ELSE taps)
      /\ alert' = (IF v = "failed" THEN "failure" ELSE alert)
  BY DEF ShowState
<1>2. ScreenOpen /\ ui \notin Closed /\ ui # "main"
  BY <1>1 DEF CalmInv, ScreenInv, ScreenOpen, Closed
<1>3. (Active' <=> Active) /\ db' = db
  BY <1>1, OneSame DEF store
<1>4. CASE v = "main"
  <2>1. ui' = "main" /\ toShow' = {} /\ ~uiStale' /\ alert' = alert
    BY <1>1, <1>4
  <2> QED BY <1>1, <1>2, <1>3, <2>1, ScreenKeeps
      DEF CalmInv, ScreenInv, Offered, Closed, Errors, ScreenOpen
<1>5. CASE v \in {"cancellable", "locked"}
  <2>1. /\ ui' = v /\ toShow' = toShow \ {v} /\ uiStale' = uiStale /\ alert' = alert
    BY <1>1, <1>5, CalmFacts
  <2> QED BY <1>1, <1>2, <1>3, <1>5, <2>1, ScreenKeeps
      DEF CalmInv, ScreenInv, Offered, Closed, Errors, ScreenOpen
<1>6. CASE v \in Errors
  <2>1. /\ ui' = "error" /\ toShow' = toShow \ {v} /\ uiStale' = uiStale
        /\ alert' = (IF v = "failed" THEN "failure" ELSE alert)
    BY <1>1, <1>6, CalmFacts DEF Errors
  <2>2. toShow' \cap Errors = {} /\ ~Active /\ alert # "abort"
    BY <1>1, <1>6, <2>1 DEF CalmInv, ScreenInv, Offered, Errors
  <2> QED BY <1>1, <1>2, <1>3, <1>6, <2>1, <2>2, ScreenKeeps
      DEF CalmInv, ScreenInv, Closed, Errors, ScreenOpen
<1> QED BY <1>4, <1>5, <1>6 DEF Shown, View, Errors

LEMMA ReadStateKeeps ==
  ASSUME CalmUser, CalmInv, Next, ReadState
  PROVE  CalmInv'
<1> DEFINE v == ViewOf(db.state)
<1>1. /\ up /\ uiStale /\ ~uiStale' /\ toShow' = toShow \cup {v}
      /\ UNCHANGED <<store, world, up, ui, alert, taps, pending, th>>
  BY DEF ReadState
<1>2. v \in View /\ (db.state = "readyToUse" => v = "main")
  BY DEF ViewOf, View
<1> HIDE DEF v
<1>3. v \notin Errors
  BY <1>2 DEF View, Errors
<1>4. (Active' <=> Active) /\ db' = db
  BY <1>1, OneSame DEF store
<1>5. ScreenOpen
  BY <1>1 DEF CalmInv, ScreenInv
<1>6. ScreenInv'
  <2>1. Offered' <=> Offered
    BY <1>1, <1>3 DEF Offered
  <2>2. toShow' \cap Errors = toShow \cap Errors
    BY <1>1, <1>3
  <2> QED BY <1>1, <1>2, <1>3, <1>4, <1>5, <2>1, <2>2 DEF CalmInv, ScreenInv, ScreenOpen
<1> QED BY <1>1, <1>6, ScreenKeeps

\* The remaining steps of the screen.
LEMMA QuietScreenKeeps ==
  ASSUME CalmUser, CalmInv, Next, ConfirmFailure \/ Configure \/ Launch
  PROVE  CalmInv'
<1>1. UNCHANGED <<store, world, pending, th>>
  BY DEF ConfirmFailure, Configure, Launch
<1>2. (Active' <=> Active) /\ db' = db
  BY <1>1, OneSame DEF store
<1>3. CASE ConfirmFailure
  <2>1. /\ up /\ up' = up /\ alert = "failure" /\ alert' = "none" /\ taps' = taps
        /\ ~uiStale /\ ~uiStale' /\ toShow = {} /\ toShow' = {}
        /\ ui' = IF ScreenOpen THEN "setup" ELSE ui
    BY <1>3 DEF ConfirmFailure, PopScreen
  <2>2. ~Active
    BY <2>1 DEF CalmInv, ScreenInv, Offered
  <2>3. db.state = "readyToUse" => ui' = "main"
    BY <2>1 DEF CalmInv, ScreenInv, ScreenOpen
  <2> QED BY <1>1, <1>2, <2>1, <2>2, <2>3, ScreenKeeps DEF ScreenInv, Errors
<1>4. CASE Configure
  <2>1. /\ up /\ up' = up /\ ui \in Closed /\ ui' = "configure" /\ db.state = "draft"
        /\ UNCHANGED <<alert, uiStale, toShow>>
    BY <1>4 DEF Configure, Closed
  <2>2. ~Active /\ toShow = {} /\ ~uiStale /\ alert = "none"
    BY <2>1 DEF CalmInv, ScreenInv, Offered, ScreenOpen, Closed
  <2> QED BY <1>1, <1>2, <2>1, <2>2, ScreenKeeps DEF ScreenInv, Errors
<1>5. CASE Launch
  <2>1. /\ ~up /\ up' /\ UNCHANGED <<alert, uiStale, toShow>>
        /\ ui' \in {"setup", "main", "closed"}
        /\ db.state = "readyToUse" => ui' = "main"
    BY <1>5 DEF Launch
  <2>2. ui = "closed"
    BY <2>1 DEF CalmInv, ScreenInv
  <2>3. ~Active /\ toShow = {} /\ ~uiStale /\ alert = "none"
    BY <2>2 DEF CalmInv, ScreenInv, Offered, ScreenOpen, Closed
  <2> QED BY <1>1, <1>2, <2>1, <2>3, ScreenKeeps DEF ScreenInv, Errors
<1> QED BY <1>3, <1>4, <1>5

\* Nobody aborts.
LEMMA NoAbort ==
  ASSUME CalmUser, CalmInv, NEW t \in Thread
  PROVE  ~AskToAbort /\ ~DismissAlert /\ ~ConfirmAbort(t) /\ ~AbortCancel(t) /\ ~AbortSave(t)
<1>1. alert # "abort" /\ ~(budget.aborts > 0)
  BY CalmFacts DEF CalmInv, ScreenInv
<1>2. th[t].pc \notin {"abort", "abortSave"}
  BY CopyAt DEF CopyOK
<1> QED BY <1>1, <1>2 DEF AskToAbort, DismissAlert, ConfirmAbort, AbortCancel, AbortSave, At

LEMMA OutsideKeeps ==
  ASSUME CalmUser, CalmInv, Next, NEW a \in Addr, Deposit(a) \/ RelaySubmits(a) \/ Mined(a)
  PROVE  CalmInv'
<1>1. UNCHANGED <<store, up, screen, pending, th>>
  BY DEF Deposit, RelaySubmits, Mined
<1>2. Grows
  <2>1. \A b \in Addr : chain[b] \in Nat
    BY CalmFacts
  <2>2. chain' = chain \/ chain' = [chain EXCEPT ![a] = @ + 1]
    BY DEF Deposit, RelaySubmits, Mined
  <2> QED BY <2>1, <2>2, CalmFacts DEF Grows
<1>3. RelayOK
  BY CalmFacts DEF RelayOK, Deposit, RelaySubmits, Mined
<1>4. OneActivity' /\ (Active' <=> Active)
  BY <1>1, OneSame
<1>5. ScreenInv'
  BY <1>1, <1>4, ScreenFrame DEF screen, store
<1>6. CopyInv'
  BY <1>1, <1>2, NextFacts, CopySame DEF store
<1>7. MoneyInv'
  BY <1>1, <1>2, <1>3, NextFacts, MoneySame DEF store
<1> QED BY <1>4, <1>5, <1>6, <1>7, NextFacts DEF CalmInv

---------------------------------------------------------------------------
(* The invariant holds *)

LEMMA CalmInit == CalmUser /\ Init => CalmInv
<1> SUFFICES ASSUME Init PROVE CalmInv
  OBVIOUS
<1>1. RowInv
  BY TypeInit, DraftWhole, IdleWhole DEF Init, RowInv
<1>2. \A t \in Thread : th[t].pc = "idle" /\ ~Busy(t)
  BY DEF Init, IdleThread, Busy
<1>3. \A e \in WorkEvent : pending[e] = 0
  BY DEF Init, WorkEvent
<1>4. ~Active /\ OneActivity
  BY <1>2, <1>3 DEF Active, OneActivity
<1>5. ScreenInv
  BY <1>4 DEF Init, ScreenInv, DraftRow, Errors
<1>6. CopyInv
  <2>1. \A t \in Thread : CopyOK(th[t])
    BY <1>2 DEF CopyOK, Turn
  <2> QED BY <1>3, <2>1 DEF CopyInv, PendingOK
<1>7. MoneyInv
  BY DEF Init, MoneyInv, DraftRow, PaidBeforeRequested, ReadyIsDeployed, KeysKeptUntilDeployed
<1> QED BY <1>1, <1>4, <1>5, <1>6, <1>7 DEF CalmInv

LEMMA CalmStutter == CalmInv /\ UNCHANGED vars => CalmInv'
<1> SUFFICES ASSUME CalmInv, UNCHANGED vars PROVE CalmInv'
  OBVIOUS
<1>1. UNCHANGED <<db, account, paperKeys, chain, relay, up, ui, alert, taps, uiStale, toShow,
                  pending, th>>
  BY DEF vars, store, world, screen
<1>2. RowInv'
  <2>1. TypeOK'
    BY TypeStep DEF CalmInv, RowInv
  <2> QED BY <1>1, <2>1 DEF CalmInv, RowInv, Whole, ThreadWhole
<1>3. OneActivity' /\ (Active' <=> Active)
  BY <1>1, OneSame
<1>4. ScreenInv'
  BY <1>1, <1>3 DEF CalmInv, ScreenInv, Offered, ScreenOpen
<1>5. CopyInv'
  BY <1>1 DEF CalmInv, CopyInv, PendingOK, EventOf, CopyOK, Proceeds
<1>6. MoneyInv'
  BY <1>1 DEF CalmInv, MoneyInv, PaidBeforeRequested, ReadyIsDeployed, KeysKeptUntilDeployed
<1> QED BY <1>2, <1>3, <1>4, <1>5, <1>6 DEF CalmInv

LEMMA CalmStep == CalmUser /\ CalmInv /\ [Next]_vars => CalmInv'
<1> SUFFICES ASSUME CalmUser, CalmInv, Next PROVE CalmInv'
  BY CalmStutter
<1>1. ASSUME NEW t \in Thread, Work(t)
      PROVE  CalmInv'
  <2>1. CASE Unsubscribe(t) \/ Subscribe(t) \/ ReadWallet(t) \/ Resume(t)
    BY <2>1, StartStepKeeps, ResumeKeeps
  <2>2. CASE \/ (\E e \in Event : Begin(t, e)) \/ (\E a \in Addr : Request(t, a))
             \/ Proceed(t) \/ StartCreation(t) \/ NotifyCreated(t)
    BY <2>2, BeginKeeps, RequestKeeps, ProceedKeeps, StartCreationKeeps, NotifyCreatedKeeps
  <2>3. CASE AddRepeater(t) \/ RunRepeater(t) \/ EndOfTurn(t) \/ Wake(t)
    BY <2>3, AddRepeaterKeeps, RunRepeaterKeeps, EndOfTurnKeeps, WakeKeeps
  <2>4. CASE PollBalance(t) \/ StoreBalance(t) \/ PollHash(t) \/ PollReceipt(t)
    BY <2>4, PollBalanceKeeps, StoreBalanceKeeps, PollHashKeeps, PollReceiptKeeps
  <2>5. CASE AbortCancel(t) \/ AbortSave(t) \/ StopRepeater(t) \/ Trap(t)
    BY <2>5, NoAbort, StopKeeps, EndOfProcessKeeps
  <2> QED BY <1>1, <2>1, <2>2, <2>3, <2>4, <2>5 DEF Work
<1>2. CASE User
  <2>1. ASSUME NEW t \in Thread, OpenScreen(t) \/ Retry(t) \/ ConfirmAbort(t)
        PROVE  CalmInv'
    BY <2>1, OpenScreenKeeps, RetryKeeps, NoAbort
  <2>2. CASE AskToAbort \/ DismissAlert
    BY <2>2, CalmFacts DEF AskToAbort, DismissAlert, CalmInv, ScreenInv
  <2>3. CASE ConfirmFailure \/ Configure \/ PrepareForCreation
    BY <2>3, QuietScreenKeeps, PrepareForCreationKeeps
  <2> QED BY <1>2, <2>1, <2>2, <2>3 DEF User
<1>3. CASE Outside
  BY <1>3, OutsideKeeps DEF Outside
<1>4. CASE Failure
  BY <1>4, EndOfProcessKeeps, NetworkErrorKeeps, FatalErrorKeeps DEF Failure
<1>5. CASE HandleAborted \/ HandleCreationFailed \/ Launch \/ ReadState
  BY <1>5, StopKeeps, EndOfProcessKeeps, QuietScreenKeeps, ReadStateKeeps
<1>6. CASE \E v \in Shown : ShowState(v)
  BY <1>6, ShowStateKeeps
<1> QED BY <1>1, <1>2, <1>3, <1>4, <1>5, <1>6 DEF Next

LEMMA CalmAlways == ASSUME CalmUser PROVE Spec => []CalmInv
<1>1. Init => CalmInv
  BY CalmInit
<1>2. CalmInv /\ [Next]_vars => CalmInv'
  BY CalmStep
<1> QED BY <1>1, <1>2, PTL DEF Spec

\* At most one handler of a deployment runs or is dispatched, for any number of
\* threads, errors and crashes: start(), handleError and the screen's Refresh
\* hand the one right to work on the wallet around.
THEOREM OneHandlerAtATime == ASSUME CalmUser PROVE Spec => []OneActivity
<1>1. CalmInv => OneActivity
  BY DEF CalmInv
<1> QED BY <1>1, CalmAlways, PTL

\* A wallet is stored as ready only when the creation transaction of its own
\* address is mined (waitForCreationTransactionCompletion).
THEOREM ReadyWalletsAreDeployed == ASSUME CalmUser PROVE Spec => []ReadyIsDeployed
<1>1. CalmInv => ReadyIsDeployed
  BY DEF CalmInv, MoneyInv
<1> QED BY <1>1, CalmAlways, PTL

\* startSafeCreation is called only for an address that holds the payment, even
\* when the balance was polled for an earlier state or the answer is lost.
THEOREM PaidWhenRequested == ASSUME CalmUser PROVE Spec => []PaidBeforeRequested
<1>1. CalmInv => PaidBeforeRequested
  BY DEF CalmInv, MoneyInv
<1> QED BY <1>1, CalmAlways, PTL

\* walletCreated removes the paper keys of a wallet that is ready, and no later
\* step takes such a wallet back.
THEOREM KeysStayUntilDeployed == ASSUME CalmUser PROVE Spec => []KeysKeptUntilDeployed
<1>1. CalmInv => KeysKeptUntilDeployed
  BY DEF CalmInv, MoneyInv
<1> QED BY <1>1, CalmAlways, PTL

---------------------------------------------------------------------------
(* The refinement *)

\* What was mined before the step is what is mined after it.
MinedSame == \A a \in Addr : relay'[a] = "mined" <=> relay[a] = "mined"

AbstractStep == Abstract!Next \/ UNCHANGED Abstract!absVars

LEMMA OutsideSame ==
  ASSUME UNCHANGED chain, MinedSame
  PROVE  /\ UNCHANGED {a \in Addr : chain[a] >= MinAmount}
         /\ UNCHANGED {a \in Addr : relay[a] = "mined"}
BY DEF MinedSame

\* A step that the abstract creation does not see.
LEMMA QuietStep ==
  ASSUME UNCHANGED <<db.state, db.address, chain>>, MinedSame
  PROVE  AbstractStep
BY OutsideSame DEF AbstractStep, Abstract!absVars

LEMMA StepOnlyMoves ==
  ASSUME UNCHANGED world, UNCHANGED <<db.state, db.address>> \/ UNCHANGED db
  PROVE  AbstractStep
<1>1. UNCHANGED <<db.state, db.address, chain>> /\ MinedSame
  BY DEF world, MinedSame
<1> QED BY <1>1, QuietStep

\* The row moves on to the next state.
LEMMA StepProceeds ==
  ASSUME CalmUser, CalmInv, NEW r \in Row, ProceedWith(r), UNCHANGED world,
         \/ r = db /\ db.state = "draft"
         \/ Proceeds(r, db)
         \/ /\ r = db /\ db.state = "finalizingDeployment"
            /\ db.address \in Addr /\ relay[db.address] = "mined"
  PROVE  AbstractStep
<1>1. r.state = db.state /\ db.state # "readyToUse"
  BY DEF Proceeds
<1>2. db'.state = NextState(db.state, account) /\ db'.address = r.address
  BY <1>1, ProceedFacts
<1>3. UNCHANGED chain /\ MinedSame
  BY DEF world, MinedSame
<1>4. /\ UNCHANGED {a \in Addr : chain[a] >= MinAmount}
      /\ UNCHANGED {a \in Addr : relay[a] = "mined"}
  BY <1>3, OutsideSame
<1>5. account \in Nat /\ MinAmount \in Nat /\ \A b \in Addr : chain[b] \in Nat
  BY CalmFacts
<1> USE DEF AbstractStep, Abstract!Next, Abstract!Move, NextState
<1>6. CASE db.state = "draft"
  BY <1>1, <1>2, <1>4, <1>6 DEF Abstract!Start, Proceeds
<1>7. CASE db.state = "deploying"
  <2>1. r.address \in Addr
    BY <1>7 DEF Proceeds, Row
  <2>2. Abstract!Assign(r.address)
    BY <1>1, <1>2, <1>4, <1>7 DEF Abstract!Assign
  <2> QED BY <2>1, <2>2
<1>8. CASE db.state = "waitingForFirstDeposit"
  <2>1. r = db /\ account <= chain[db.address] /\ db.address \in Addr
    BY <1>8, DbAddress DEF Proceeds
  <2>2. CASE account < MinAmount
    BY <1>2, <1>4, <1>8, <2>1, <2>2 DEF Abstract!PayInPart
  <2>3. CASE ~(account < MinAmount)
    <3>1. chain[db.address] >= MinAmount
      BY <1>5, <2>1, <2>3
    <3> QED BY <1>2, <1>4, <1>8, <2>1, <2>3, <3>1 DEF Abstract!PayInFull
  <2> QED BY <2>2, <2>3
<1>9. CASE db.state = "notEnoughFunds"
  <2>1. r = db /\ chain[db.address] >= MinAmount /\ db.address \in Addr
    BY <1>9, DbAddress DEF Proceeds
  <2> QED BY <1>2, <1>4, <1>9, <2>1 DEF Abstract!PayInFull
<1>10. CASE db.state = "creationStarted"
  <2>1. r = db
    BY <1>10 DEF Proceeds
  <2> QED BY <1>2, <1>4, <1>10, <2>1 DEF Abstract!RequestCreation
<1>11. CASE db.state = "finalizingDeployment"
  <2>1. r = db /\ db.address \in Addr /\ relay[db.address] = "mined"
    BY <1>11 DEF Proceeds
  <2> QED BY <1>2, <1>4, <1>11, <2>1 DEF Abstract!Complete
<1> QED BY <1>1, <1>6, <1>7, <1>8, <1>9, <1>10, <1>11, CalmFacts DEF WState

\* The row starts anew.
LEMMA StepGivesUp ==
  ASSUME db' = DraftRow, db.state \notin {"draft", "readyToUse"}, UNCHANGED chain, MinedSame
  PROVE  AbstractStep
<1>1. /\ UNCHANGED {a \in Addr : chain[a] >= MinAmount}
      /\ UNCHANGED {a \in Addr : relay[a] = "mined"}
  BY OutsideSame
<1> QED BY <1>1 DEF AbstractStep, Abstract!Next, Abstract!GiveUp, DraftRow

LEMMA CallStep ==
  ASSUME CalmUser, CalmInv, NEW t \in Thread, NetworkError(t) \/ FatalError(t)
  PROVE  AbstractStep
<1>1. /\ InCall(t) /\ LostAnswer(t) /\ UNCHANGED chain
      /\ (UNCHANGED store) \/ CancelWith(th[t].w)
  BY DEF NetworkError, FatalError
<1>2. th[t].w = db
  BY <1>1, InCallFacts
<1>3. MinedSame
  <2>1. CASE UNCHANGED relay
    BY <2>1 DEF MinedSame
  <2>2. CASE relay[db.address] = "offered" /\ relay' = [relay EXCEPT ![db.address] = "requested"]
    BY <2>2, CalmFacts DEF MinedSame
  <2> QED BY <1>1, <1>2, <2>1, <2>2 DEF LostAnswer
<1>4. CASE UNCHANGED db
  BY <1>1, <1>3, <1>4, QuietStep
<1>5. CASE db' = DraftRow /\ db.state \in Cancellable
  BY <1>1, <1>3, <1>5, StepGivesUp DEF Cancellable
<1> QED BY <1>1, <1>2, <1>4, <1>5 DEF CancelWith, store

LEMMA OutsideStep ==
  ASSUME CalmUser, CalmInv, NEW a \in Addr, Deposit(a) \/ RelaySubmits(a) \/ Mined(a)
  PROVE  AbstractStep
<1>1. UNCHANGED db
  BY DEF Deposit, RelaySubmits, Mined, store
<1>2. CASE Deposit(a)
  <2>1. chain' = [chain EXCEPT ![a] = @ + 1] /\ UNCHANGED relay
    BY <1>2 DEF Deposit
  <2>2. UNCHANGED {b \in Addr : relay[b] = "mined"}
    BY <2>1
  <2>3. chain[a] \in Nat /\ MinAmount \in Nat /\ \A b \in Addr : chain[b] \in Nat
    BY CalmFacts
  <2>4. \A b \in Addr : chain'[b] = IF b = a THEN chain[b] + 1 ELSE chain[b]
    BY <2>1, CalmFacts
  <2>5. CASE chain'[a] >= MinAmount
    <3>1. {b \in Addr : chain[b] >= MinAmount}' = {b \in Addr : chain[b] >= MinAmount} \cup {a}
      BY <2>3, <2>4, <2>5
    <3> QED BY <1>1, <2>2, <3>1 DEF AbstractStep, Abstract!Next, Abstract!Payment
  <2>6. CASE ~(chain'[a] >= MinAmount)
    <3>1. UNCHANGED {b \in Addr : chain[b] >= MinAmount}
      BY <2>3, <2>4, <2>6
    <3> QED BY <1>1, <2>2, <3>1 DEF AbstractStep, Abstract!absVars
  <2> QED BY <2>5, <2>6
<1>3. CASE RelaySubmits(a)
  <2>1. UNCHANGED chain /\ MinedSame
    BY <1>3, CalmFacts DEF RelaySubmits, MinedSame
  <2> QED BY <1>1, <2>1, QuietStep
<1>4. CASE Mined(a)
  <2>1. UNCHANGED chain /\ relay[a] = "submitted"
    BY <1>4 DEF Mined
  <2>2. CASE relay' = [relay EXCEPT ![a] = "mined"]
    <3>1. {b \in Addr : relay[b] = "mined"}' = {b \in Addr : relay[b] = "mined"} \cup {a}
      BY <2>2, CalmFacts
    <3>2. chain[a] >= MinAmount /\ UNCHANGED {b \in Addr : chain[b] >= MinAmount}
      BY <2>1 DEF CalmInv, MoneyInv, PaidBeforeRequested
    <3>3. a \in {b \in Addr : chain[b] >= MinAmount}
      BY <3>2
    <3> QED BY <1>1, <3>1, <3>2, <3>3 DEF AbstractStep, Abstract!Next, Abstract!Mining
  <2>3. CASE relay' = [relay EXCEPT ![a] = "reverted"]
    <3>1. MinedSame
      BY <2>1, <2>3, CalmFacts DEF MinedSame
    <3> QED BY <1>1, <2>1, <3>1, QuietStep
  <2> QED BY <1>4, <2>2, <2>3 DEF Mined
<1> QED BY <1>2, <1>3, <1>4

LEMMA WorkStep ==
  ASSUME CalmUser, CalmInv, NEW t \in Thread, Work(t)
  PROVE  AbstractStep
<1>1. CASE Unsubscribe(t) \/ Subscribe(t) \/ ReadWallet(t) \/ NotifyCreated(t) \/ StoreBalance(t)
  BY <1>1, StepOnlyMoves DEF Unsubscribe, Subscribe, ReadWallet, NotifyCreated, StoreBalance, store
<1>2. CASE Resume(t)
  <2>1. UNCHANGED world /\ th[t].w = db /\ db \in Row
    BY <1>2, CopyAt, CalmFacts DEF Resume, At, CopyOK
  <2>2. CASE UNCHANGED db
    BY <2>1, <2>2, StepOnlyMoves
  <2>3. CASE db.state = "draft" /\ ProceedWith(db)
    BY <2>1, <2>3, StepProceeds
  <2> QED BY <1>2, <2>1, <2>2, <2>3 DEF Resume
<1>3. CASE \E e \in Event : Begin(t, e)
  BY <1>3, StepOnlyMoves DEF Begin, store
<1>4. ASSUME NEW a \in Addr, Request(t, a)
      PROVE  AbstractStep
  <2>1. UNCHANGED <<db, chain>> /\ relay[a] = "unknown" /\ relay' = [relay EXCEPT ![a] = "offered"]
    BY <1>4 DEF Request, store
  <2>2. MinedSame
    BY <2>1, CalmFacts DEF MinedSame
  <2> QED BY <2>1, <2>2, QuietStep
<1>5. CASE Proceed(t)
  <2>1. th[t].w \in Row /\ Proceeds(th[t].w, db) /\ ProceedWith(th[t].w) /\ UNCHANGED world
    BY <1>5, CopyAt DEF Proceed, At, CopyOK
  <2> QED BY <2>1, StepProceeds
<1>6. CASE StartCreation(t)
  <2> DEFINE a == th[t].w.address
  <2>1. /\ UNCHANGED <<db, chain>>
        /\ relay' = [relay EXCEPT ![a] = IF @ = "offered" THEN "requested" ELSE @]
    BY <1>6 DEF StartCreation, store
  <2> HIDE DEF a
  <2>2. MinedSame
    BY <2>1, CalmFacts DEF MinedSame
  <2> QED BY <2>1, <2>2, QuietStep
<1>7. CASE AddRepeater(t) \/ RunRepeater(t) \/ EndOfTurn(t) \/ Wake(t) \/ PollBalance(t)
           \/ StopRepeater(t) \/ Trap(t)
  BY <1>7, StepOnlyMoves
  DEF AddRepeater, RunRepeater, EndOfTurn, Wake, PollBalance, StopRepeater, Trap, store
<1>8. CASE PollHash(t)
  <2>1. UNCHANGED world /\ th[t].w = db /\ db \in Row
    BY <1>8, TurnCopy, CalmFacts DEF PollHash, At, Turn
  <2>2. CASE UNCHANGED db
    BY <2>1, <2>2, StepOnlyMoves
  <2>3. CASE db' = [db EXCEPT !.hash = db.address]
    <3>1. UNCHANGED <<db.state, db.address>>
      BY <2>1, <2>3 DEF Row
    <3> QED BY <2>1, <3>1, StepOnlyMoves
  <2> QED BY <1>8, <2>1, <2>2, <2>3 DEF PollHash
<1>9. CASE PollReceipt(t)
  <2>1. /\ UNCHANGED world /\ th[t].w = db /\ db \in Row /\ db.hash # None
        /\ th[t].job = "receipt"
    BY <1>9, TurnCopy, CalmFacts DEF PollReceipt, At, Turn
  <2>2. JobState["receipt"] = db.state
    BY <1>9, <2>1, CopyAt DEF PollReceipt, At, CopyOK, Turn
  <2>3. db.state = "finalizingDeployment"
    BY <2>2 DEF JobState, Job
  <2>4. CASE UNCHANGED db
    BY <2>1, <2>4, StepOnlyMoves
  <2>5. CASE relay[db.hash] = "mined" /\ ProceedWith(db)
    <3>1. db.hash = db.address /\ db.address \in Addr
      BY <2>1, <2>3, DbAddress DEF CalmInv, RowInv, Whole
    <3> QED BY <2>1, <2>3, <2>5, <3>1, StepProceeds
  <2> QED BY <1>9, <2>1, <2>3, <2>4, <2>5 DEF PollReceipt, CancelWith, Cancellable
<1>10. ~AbortCancel(t) /\ ~AbortSave(t)
  BY NoAbort
<1> QED BY <1>1, <1>2, <1>3, <1>4, <1>5, <1>6, <1>7, <1>8, <1>9, <1>10 DEF Work

LEMMA AbstractSteps ==
  ASSUME CalmUser, CalmInv, [Next]_vars
  PROVE  AbstractStep
<1>1. CASE UNCHANGED vars
  BY <1>1, StepOnlyMoves DEF vars, store
<1>2. CASE \E t \in Thread : Work(t)
  BY <1>2, WorkStep
<1>3. ASSUME NEW t \in Thread, OpenScreen(t) \/ Retry(t) \/ ConfirmAbort(t)
      PROVE  AbstractStep
  BY <1>3, StepOnlyMoves DEF OpenScreen, Retry, ConfirmAbort, store
<1>4. CASE \/ AskToAbort \/ DismissAlert \/ ConfirmFailure \/ Configure
           \/ HandleAborted \/ HandleCreationFailed \/ Launch \/ ReadState \/ Crash
  BY <1>4, StepOnlyMoves
  DEF AskToAbort, DismissAlert, ConfirmFailure, Configure, HandleAborted,
      HandleCreationFailed, Launch, ReadState, Crash, store
<1>5. CASE \E v \in Shown : ShowState(v)
  BY <1>5, StepOnlyMoves DEF ShowState, store
<1>6. CASE PrepareForCreation /\ Next
  <2>1. db' = DraftRow /\ db.state \notin {"draft", "readyToUse"} /\ UNCHANGED chain /\ MinedSame
    BY <1>6, PrepareForCreationKeeps DEF PrepareForCreation, world, MinedSame
  <2> QED BY <2>1, StepGivesUp
<1>7. CASE Outside
  BY <1>7, OutsideStep DEF Outside
<1>8. CASE \E t \in Thread : NetworkError(t) \/ FatalError(t)
  BY <1>8, CallStep
<1> QED BY <1>1, <1>2, <1>3, <1>4, <1>5, <1>6, <1>7, <1>8 DEF Next, User, Failure

\* The stored wallet goes through the abstract creation of a safe: no step of
\* any handler, error or restart skips a state, changes an address under way or
\* leaves readyToUse (proceed(), cancel() and resume() of the wallet states).
THEOREM WalletRefinesCreation == ASSUME CalmUser PROVE Spec => ImplementsSafeCreation
<1>1. Init => Abstract!Init
  <2> SUFFICES ASSUME Init PROVE Abstract!Init
    OBVIOUS
  <2>1. {a \in Addr : chain[a] >= MinAmount} = {}
    BY ConstantsAssumption DEF Init
  <2>2. {a \in Addr : relay[a] = "mined"} = {}
    BY DEF Init
  <2> QED BY <2>1, <2>2 DEF Init, Abstract!Init, DraftRow
<1>2. CalmInv /\ [Next]_vars => [Abstract!Next]_(Abstract!absVars)
  BY AbstractSteps DEF AbstractStep
<1> QED BY <1>1, <1>2, CalmAlways, PTL DEF Spec, ImplementsSafeCreation, Abstract!Spec

---------------------------------------------------------------------------
(* Without errors nothing is stopped, and nothing traps *)

NoErrors == CalmUser /\ MaxErrors = 0

\* One thread moves, and nobody is told to stop.
LEMMA SteadyMoves ==
  ASSUME CalmUser, CalmInv, SteadyInv, NEW t \in Thread, NEW x, th' = [th EXCEPT ![t] = x],
         RepeaterOK(x), stopping' \subseteq stopping, pending'["DeploymentAborted"] = 0
  PROVE  SteadyInv'
<1>1. \A u \in Thread : th'[u] = IF u = t THEN x ELSE th[u]
  BY CalmFacts
<1>2. \A u \in Thread : RepeaterOK(th[u])'
  BY <1>1 DEF SteadyInv, RepeaterOK
<1> QED BY <1>2 DEF SteadyInv

LEMMA IdleSteady == RepeaterOK(IdleThread)
BY DEF RepeaterOK, IdleThread, Turn

LEMMA SteadyEnds ==
  ASSUME CalmUser, CalmInv, SteadyInv, NEW t \in Thread, Finish(t),
         pending' = pending \/ \E e \in Event \ {"DeploymentAborted"} :
                                 pending' = [pending EXCEPT ![e] = @ + 1]
  PROVE  SteadyInv'
<1>1. th' = [th EXCEPT ![t] = IdleThread] /\ stopping' \subseteq stopping
  BY DEF Finish
<1>2. "DeploymentAborted" \in Event
  BY DEF Event
<1>3. pending'["DeploymentAborted"] = 0
  BY <1>2, CalmFacts DEF SteadyInv
<1> QED BY <1>1, <1>3, IdleSteady, SteadyMoves

LEMMA SteadyDown == ASSUME Down PROVE SteadyInv'
<1>1. /\ \A t \in Thread : th'[t] = IdleThread
      /\ stopping' = {} /\ pending'["DeploymentAborted"] = 0
  BY DEF Down, Event
<1>2. \A t \in Thread : RepeaterOK(th[t])'
  BY <1>1 DEF RepeaterOK, IdleThread, Turn
<1> QED BY <1>1, <1>2 DEF SteadyInv

LEMMA SteadySame ==
  ASSUME SteadyInv, UNCHANGED <<th, pending, stopping>>
  PROVE  SteadyInv'
BY DEF SteadyInv, RepeaterOK

\* The event of a state is not the event of an abort.
LEMMA EventOfType ==
  ASSUME NEW s \in WState, s # "draft"
  PROVE  EventOf(s) \in Event \ {"DeploymentAborted"}
<1>1. CASE s = "readyToUse"
  BY <1>1 DEF EventOf, Event
<1>2. CASE s # "readyToUse"
  BY <1>2, ResumeEventType DEF EventOf, InProgress, WorkEvent
<1> QED BY <1>1, <1>2

LEMMA ProceedSteady ==
  ASSUME CalmUser, CalmInv, SteadyInv, NEW t \in Thread, NEW r \in Row,
         r.state # "readyToUse", ProceedWith(r), Finish(t)
  PROVE  SteadyInv'
<1>1. pending' = pending \/ pending' = [pending EXCEPT ![EventOf(db'.state)] = @ + 1]
  BY ProceedFacts
<1>2. db'.state \in WState /\ db'.state # "draft"
  BY ProceedFacts, NextStateType, CalmFacts DEF Row
<1>3. EventOf(db'.state) \in Event \ {"DeploymentAborted"}
  BY <1>2, EventOfType
<1> QED BY <1>1, <1>3, SteadyEnds

LEMMA GotoSteady ==
  ASSUME CalmUser, CalmInv, SteadyInv, NEW t \in Thread, NEW l \in PC, Goto(t, l),
         UNCHANGED <<pending, stopping>>,
         l \in {"poll", "store", "loop"} => th[t].rep = "running",
         l # "wake",
         l \in Turn => th[t].pc \in Turn
  PROVE  SteadyInv'
<1> DEFINE x == [th[t] EXCEPT !.pc = l]
<1>1. th' = [th EXCEPT ![t] = x]
  BY DEF Goto
<1>2. x.pc = l /\ x.rep = th[t].rep /\ x.job = th[t].job /\ x.w = th[t].w
  BY CopyAt DEF ThreadState
<1> HIDE DEF x
<1>3. RepeaterOK(x)
  BY <1>2 DEF SteadyInv, RepeaterOK
<1> QED BY <1>1, <1>3, SteadyMoves DEF SteadyInv

LEMMA RepeaterSteady ==
  ASSUME CalmUser, CalmInv, SteadyInv, NEW t \in Thread, th[t].pc \in Turn,
         NEW l \in PC, NEW s \in {"stopped", "running", "waiting"},
         th' = [th EXCEPT ![t] = [th[t] EXCEPT !.pc = l, !.rep = s]],
         stopping' \subseteq stopping, pending' = pending,
         l \in {"poll", "store", "loop"} => s = "running", l = "wake" => s = "waiting"
  PROVE  SteadyInv'
<1> DEFINE x == [th[t] EXCEPT !.pc = l, !.rep = s]
<1>1. x.pc = l /\ x.rep = s /\ x.job = th[t].job /\ x.w = th[t].w
  BY RepeaterFields
<1>2. th' = [th EXCEPT ![t] = x]
  OBVIOUS
<1> HIDE DEF x
<1>3. RepeaterOK(x)
  BY <1>1 DEF SteadyInv, RepeaterOK
<1> QED BY <1>2, <1>3, SteadyMoves DEF SteadyInv

LEMMA WorkSteady ==
  ASSUME NoErrors, CalmInv, SteadyInv, NEW t \in Thread, Work(t)
  PROVE  SteadyInv'
<1>c. CalmUser
  BY DEF NoErrors
<1>r. RepeaterOK(th[t]) /\ th[t] \in ThreadState
  BY <1>c, CopyAt DEF SteadyInv
<1>1. CASE Unsubscribe(t) \/ Subscribe(t)
  <2>1. /\ Goto(t, "subscribe") \/ Goto(t, "read")
        /\ UNCHANGED <<pending, stopping>>
    BY <1>1 DEF Unsubscribe, Subscribe, loops
  <2> QED BY <1>c, <2>1, GotoSteady DEF PC, Turn
<1>2. CASE ReadWallet(t)
  <2> DEFINE x == [th[t] EXCEPT !.pc = "resume", !.w = db]
  <2>1. th' = [th EXCEPT ![t] = x] /\ UNCHANGED <<pending, stopping>>
    BY <1>2 DEF ReadWallet, loops
  <2>2. x.pc = "resume"
    BY <1>r DEF ThreadState
  <2> HIDE DEF x
  <2>3. RepeaterOK(x)
    BY <2>2 DEF RepeaterOK, Turn
  <2> QED BY <1>c, <2>1, <2>3, SteadyMoves DEF SteadyInv
<1>3. CASE Resume(t)
  <2>1. th[t].w \in Row /\ Finish(t)
    BY <1>c, <1>3, CopyAt DEF Resume
  <2>2. CASE th[t].w.state = "draft" /\ ProceedWith(th[t].w)
    BY <1>c, <2>1, <2>2, ProceedSteady
  <2>3. CASE InProgress(th[t].w.state) /\ Publish(ResumeEvent[th[t].w.state])
    <3>1. ResumeEvent[th[t].w.state] \in Event \ {"DeploymentAborted"}
      BY <2>1, <2>3, ResumeEventType DEF Row, WorkEvent
    <3>2. pending' = pending \/ pending' = [pending EXCEPT ![ResumeEvent[th[t].w.state]] = @ + 1]
      BY <2>3 DEF Publish
    <3> QED BY <1>c, <2>1, <3>1, <3>2, SteadyEnds
  <2>4. CASE UNCHANGED pending
    BY <1>c, <2>1, <2>4, SteadyEnds
  <2> QED BY <1>3, <2>2, <2>3, <2>4 DEF Resume
<1>4. ASSUME NEW e \in Event, Begin(t, e)
      PROVE  SteadyInv'
  <2> DEFINE p == FirstStep(e)
             j == FirstJob(e, db)
             x == [IdleThread EXCEPT !.pc = p, !.job = j, !.w = db]
  <2>1. /\ e \in WorkEvent /\ pending[e] > 0 /\ pending' = [pending EXCEPT ![e] = @ - 1]
        /\ th' = [th EXCEPT ![t] = x] /\ stopping' = stopping
    BY <1>4 DEF Begin, WorkEvent, loops
  <2>2. db.state # "draft" /\ e = EventOf(db.state)
    BY <2>1 DEF CalmInv, CopyInv, PendingOK
  <2>3. p \in {"request", "startCreation", "notify", "add"} /\ (j = "receipt" => db.hash # None)
    BY <1>c, <2>1, <2>2, FirstStepFacts
  <2> HIDE DEF p, j
  <2>4. x.pc = p /\ x.job = j /\ x.w = db
    BY IdleThreadType DEF ThreadState
  <2> HIDE DEF x
  <2>5. RepeaterOK(x)
    BY <2>3, <2>4 DEF RepeaterOK, Turn
  <2>6. pending'["DeploymentAborted"] = 0
    BY <1>c, <2>1, CalmFacts DEF SteadyInv, WorkEvent, Event
  <2> QED BY <1>c, <2>1, <2>5, <2>6, SteadyMoves
<1>5. ASSUME NEW a \in Addr, Request(t, a)
      PROVE  SteadyInv'
  <2>1. CASE Down
    BY <2>1, SteadyDown
  <2>2. CASE /\ th' = [th EXCEPT ![t] = [th[t] EXCEPT !.pc = "proceed", !.w.address = a]]
             /\ UNCHANGED <<pending, loops>>
    <3> DEFINE x == [th[t] EXCEPT !.pc = "proceed", !.w.address = a]
    <3>1. x.pc = "proceed"
      BY <1>r DEF ThreadState
    <3>2. th' = [th EXCEPT ![t] = x]
      BY <2>2
    <3> HIDE DEF x
    <3>3. RepeaterOK(x)
      BY <3>1 DEF RepeaterOK, Turn
    <3> QED BY <1>c, <2>2, <3>2, <3>3, SteadyMoves DEF SteadyInv, loops
  <2> QED BY <1>5, <2>1, <2>2 DEF Request
<1>6. CASE Proceed(t)
  <2>1. th[t].w \in Row /\ ProceedWith(th[t].w) /\ Finish(t) /\ Proceeds(th[t].w, db)
    BY <1>c, <1>6, CopyAt DEF Proceed, At, CopyOK
  <2>2. th[t].w.state # "readyToUse"
    BY <2>1 DEF Proceeds
  <2> QED BY <1>c, <2>1, <2>2, ProceedSteady
<1>7. CASE StartCreation(t)
  BY <1>c, <1>7, GotoSteady DEF StartCreation, loops, PC, Turn
<1>8. CASE NotifyCreated(t)
  BY <1>c, <1>8, SteadyEnds DEF NotifyCreated
<1>9. CASE AddRepeater(t)
  <2>1. /\ th[t].pc \in Turn /\ UNCHANGED <<pending, stopping>>
        /\ th' = [th EXCEPT ![t] = [th[t] EXCEPT !.pc = "enter", !.rep = "stopped"]]
    BY <1>9 DEF AddRepeater, At, Turn
  <2> QED BY <1>c, <2>1, RepeaterSteady DEF PC
<1>10. CASE RunRepeater(t)
  <2>1. /\ th[t].pc \in Turn /\ UNCHANGED <<pending, stopping>>
        /\ th' = [th EXCEPT ![t] = [th[t] EXCEPT !.pc = "poll", !.rep = "running"]]
    BY <1>10 DEF RunRepeater, At, Turn, loops
  <2> QED BY <1>c, <2>1, RepeaterSteady DEF PC
<1>11. CASE EndOfTurn(t)
  <2>1. th[t].rep # "stopped" /\ th[t].pc \in Turn
    BY <1>r, <1>11 DEF EndOfTurn, At, RepeaterOK, Turn
  <2>2. /\ th' = [th EXCEPT ![t] = [th[t] EXCEPT !.pc = "wake", !.rep = "waiting"]]
        /\ UNCHANGED <<pending, stopping>>
    BY <1>11, <2>1 DEF EndOfTurn, loops
  <2> QED BY <1>c, <2>1, <2>2, RepeaterSteady DEF PC
<1>12. CASE Wake(t)
  <2>1. th[t].rep # "stopped" /\ th[t].pc \in Turn
    BY <1>r, <1>12 DEF Wake, At, RepeaterOK, Turn
  <2>2. Goto(t, "run") /\ UNCHANGED <<pending, stopping>>
    BY <1>12, <2>1 DEF Wake, loops
  <2> QED BY <1>c, <2>1, <2>2, GotoSteady DEF PC
<1>13. CASE PollBalance(t)
  <2> DEFINE b == chain[th[t].w.address]
             x == [th[t] EXCEPT !.pc = "store", !.bal = b]
  <2>1. /\ th[t].pc = "poll" /\ th' = [th EXCEPT ![t] = x] /\ UNCHANGED <<pending, stopping>>
    BY <1>13 DEF PollBalance, At, loops
  <2> HIDE DEF b
  <2>2. x.pc = "store" /\ x.rep = th[t].rep /\ x.job = th[t].job /\ x.w = th[t].w
    BY <1>r DEF ThreadState
  <2> HIDE DEF x
  <2>3. RepeaterOK(x)
    BY <1>r, <2>1, <2>2 DEF RepeaterOK, Turn
  <2> QED BY <1>c, <2>1, <2>3, SteadyMoves DEF SteadyInv
<1>14. CASE StoreBalance(t)
  <2>1. th[t].pc = "store" /\ th[t].pc \in Turn /\ UNCHANGED <<pending, stopping>>
    BY <1>14 DEF StoreBalance, At, Turn
  <2>2. CASE th' = [th EXCEPT ![t] = [th[t] EXCEPT !.pc = "proceed", !.rep = "stopped"]]
    BY <1>c, <2>1, <2>2, RepeaterSteady DEF PC
  <2>3. CASE Goto(t, "loop")
    <3>1. th[t].rep = "running"
      BY <1>r, <2>1 DEF RepeaterOK
    <3> QED BY <1>c, <2>1, <2>3, <3>1, GotoSteady DEF PC
  <2> QED BY <1>14, <2>2, <2>3 DEF StoreBalance
<1>15. CASE PollHash(t)
  <2>1. th[t].pc = "poll" /\ th[t].pc \in Turn /\ th[t].rep = "running" /\ th[t].job = "hash"
        /\ th[t].w.address # None /\ th[t].w \in Row
    BY <1>c, <1>r, <1>15, CopyAt DEF PollHash, At, Turn, RepeaterOK
  <2>2. CASE Goto(t, "loop") /\ UNCHANGED <<pending, loops>>
    BY <1>c, <2>1, <2>2, GotoSteady DEF PC, loops
  <2>3. CASE Down
    BY <2>3, SteadyDown
  <2>4. CASE /\ AfterRepeater(t, [th[t].w EXCEPT !.hash = th[t].w.address])
             /\ UNCHANGED pending
    <3> DEFINE r == [th[t].w EXCEPT !.hash = th[t].w.address]
               x == [IdleThread EXCEPT !.pc = "add", !.job = "receipt", !.w = r]
    <3>1. th' = [th EXCEPT ![t] = x] /\ stopping' \subseteq stopping
      BY <2>1, <2>4 DEF AfterRepeater
    <3>2. r.hash # None
      BY <2>1 DEF Row
    <3> HIDE DEF r
    <3>3. x.pc = "add" /\ x.w = r
      BY DEF IdleThread
    <3> HIDE DEF x
    <3>4. RepeaterOK(x)
      BY <3>2, <3>3 DEF RepeaterOK
    <3> QED BY <1>c, <2>4, <3>1, <3>4, SteadyMoves DEF SteadyInv
  <2> QED BY <1>15, <2>2, <2>3, <2>4 DEF PollHash
<1>16. CASE PollReceipt(t)
  <2>1. /\ th[t].pc = "poll" /\ th[t].pc \in Turn /\ th[t].rep = "running"
        /\ th[t].job = "receipt" /\ th[t].w \in Row
    BY <1>c, <1>r, <1>16, CopyAt DEF PollReceipt, At, Turn, RepeaterOK
  <2>2. th[t].w = db /\ JobState["receipt"] = db.state
    BY <1>c, <2>1, CopyAt DEF CopyOK
  <2>3. th[t].w.state = "finalizingDeployment"
    BY <2>2 DEF JobState, Job
  <2>4. CASE Goto(t, "loop") /\ UNCHANGED <<pending, loops>>
    BY <1>c, <2>1, <2>4, GotoSteady DEF PC, loops
  <2>5. CASE ProceedWith(th[t].w) /\ Finish(t)
    BY <1>c, <2>1, <2>3, <2>5, ProceedSteady
  <2>6. CASE CancelWith(th[t].w) /\ Finish(t)
    <3>1. Publish("WalletCreationFailed")
      BY <2>3, <2>6 DEF CancelWith, Cancellable
    <3>2. /\ "WalletCreationFailed" \in Event \ {"DeploymentAborted"}
          /\ pending' = pending \/ pending' = [pending EXCEPT !["WalletCreationFailed"] = @ + 1]
      BY <3>1 DEF Publish, Event
    <3> QED BY <1>c, <2>6, <3>2, SteadyEnds
  <2> QED BY <1>16, <2>4, <2>5, <2>6 DEF PollReceipt
<1>17. ~AbortCancel(t) /\ ~AbortSave(t) /\ ~StopRepeater(t)
  BY <1>c, NoAbort DEF StopRepeater, SteadyInv
<1>18. CASE Trap(t)
  BY <1>18, SteadyDown DEF Trap
<1> QED
  BY <1>1, <1>2, <1>3, <1>4, <1>5, <1>6, <1>7, <1>8, <1>9, <1>10, <1>11, <1>12, <1>13,
     <1>14, <1>15, <1>16, <1>17, <1>18 DEF Work

LEMMA SteadyStep ==
  ASSUME NoErrors, CalmInv, SteadyInv, [Next]_vars
  PROVE  SteadyInv'
<1>c. CalmUser
  BY DEF NoErrors
<1>1. CASE UNCHANGED vars
  BY <1>1, SteadySame DEF vars, loops
<1>2. CASE \E t \in Thread : Work(t)
  BY <1>2, WorkSteady
<1>3. ASSUME NEW t \in Thread, OpenScreen(t) \/ Retry(t)
      PROVE  SteadyInv'
  <2>1. Goto(t, "unsubscribe") /\ UNCHANGED <<pending, stopping>>
    BY <1>3 DEF OpenScreen, Retry, loops
  <2> QED BY <1>c, <2>1, GotoSteady DEF PC, Turn
<1>4. \A t \in Thread : ~ConfirmAbort(t)
  BY <1>c, NoAbort
<1>5. CASE \/ AskToAbort \/ DismissAlert \/ ConfirmFailure \/ Configure
           \/ PrepareForCreation \/ Launch \/ ReadState
  BY <1>5, SteadySame
  DEF AskToAbort, DismissAlert, ConfirmFailure, Configure, PrepareForCreation, Launch,
      ReadState, loops
<1>6. CASE \E v \in Shown : ShowState(v)
  BY <1>6, SteadySame DEF ShowState, loops
<1>7. CASE HandleCreationFailed \/ Crash
  BY <1>7, SteadyDown DEF HandleCreationFailed, Crash
<1>8. ~HandleAborted
  BY DEF HandleAborted, SteadyInv
<1>9. CASE Outside
  BY <1>9, SteadySame DEF Outside, Deposit, RelaySubmits, Mined, loops
<1>10. \A t \in Thread : ~NetworkError(t) /\ ~FatalError(t)
  <2>1. ~(budget.errors > 0)
    BY <1>c, CalmFacts DEF NoErrors, TypeOK, BoundsOK
  <2> QED BY <2>1 DEF NetworkError, FatalError
<1> QED
  BY <1>1, <1>2, <1>3, <1>4, <1>5, <1>6, <1>7, <1>8, <1>9, <1>10 DEF Next, User, Failure

\* No handler unwraps an address or a hash that its copy lacks, whatever crashes
\* and restarts there are, as long as no call throws: a wait that nobody stops
\* ends with what it waited for (waitForCreationTransaction).
THEOREM NothingTraps == ASSUME NoErrors PROVE Spec => []NoTrap
<1>1. CalmUser
  BY DEF NoErrors
<1>2. Init => SteadyInv
  <2> SUFFICES ASSUME Init PROVE SteadyInv
    OBVIOUS
  <2>1. \A t \in Thread : RepeaterOK(th[t])
    BY IdleSteady DEF Init
  <2> QED BY <2>1 DEF Init, SteadyInv, Event
<1>3. CalmInv /\ SteadyInv /\ [Next]_vars => SteadyInv'
  BY SteadyStep
<1>4. CalmInv /\ SteadyInv => NoTrap
  <2> SUFFICES ASSUME CalmInv, SteadyInv, NEW t \in Thread, Traps(t) PROVE FALSE
    BY DEF NoTrap
  <2>1. RepeaterOK(th[t]) /\ CopyOK(th[t])
    BY <1>1, CopyAt DEF SteadyInv
  <2>2. CASE th[t].pc = "startCreation" /\ th[t].w.address = None
    <3>1. th[t].w = db /\ db.state = "creationStarted"
      BY <2>1, <2>2 DEF CopyOK
    <3> QED BY <1>1, <2>2, <3>1, DbAddress
  <2>3. CASE th[t].pc = "poll"
    <3>1. th[t].w = db /\ th[t].job \in Job \ {"none"} /\ JobState[th[t].job] = db.state
      BY <1>1, <2>1, <2>3, CopyAt DEF CopyOK, Turn
    <3>2. db.state \notin {"draft", "deploying"}
      BY <3>1 DEF JobState, Job
    <3>3. db.address # None
      BY <1>1, <3>2, DbAddress
    <3> QED BY <2>1, <2>3, <3>1, <3>3 DEF Traps, At, RepeaterOK, Turn
  <2> QED BY <2>2, <2>3 DEF Traps, At
<1> QED BY <1>1, <1>2, <1>3, <1>4, CalmAlways, PTL DEF Spec
=============================================================================
