------------------------ MODULE SynchronisationProofs ------------------------
(***************************************************************************)
(* Proofs about Synchronisation, for any number of threads of the queue    *)
(* and of closures that wait on it.                                        *)
(***************************************************************************)
EXTENDS Synchronisation, FiniteSetTheorems, TLAPS

(* A thread that is on the way into a loop, that is between a test of       *)
(* isStopped and the assignment that follows it, or whose loop goes on.     *)
Active(t) ==
  \/ th[t].at \in {"assign", "read", "guard", "running", "waiting"}
  \/ th[t].at \in Loop /\ state[th[t].r] # "stopped"

(* Where the one live repeater is, when nothing was hurried: on the queue,  *)
(* in a closure that has not assigned it, or in syncLoopRepeater.           *)
LoopInv ==
  ~hurried =>
    /\ queued <= 1
    /\ \A t \in Thread : th[t].r \in {NoRepeater, t}
    /\ queued = 1 =>
         slot = NoRepeater /\ main = Idle /\ \A t \in Thread : ~Active(t)
    /\ \A t \in Thread : th[t].at = "assign" => slot = NoRepeater /\ main = Idle
    /\ \A t, u \in Thread : Active(t) /\ Active(u) => t = u
    /\ \A t \in Thread : Active(t) /\ th[t].at # "assign" =>
         slot = t /\ main.at # "clear" /\ (main.at = "stop" => main.r = t)

(* A repeater that was just created is not known to anybody else.           *)
FreshInv ==
  \A t \in Thread : th[t].at = "assign" =>
    slot # t /\ main.r # t /\ \A u \in Thread : th[u].r # t

(* A repeater that was stopped during a pass is not stopped a second time,  *)
(* and if it runs again another thread has started it.                      *)
ToldInv ==
  \A t \in told :
    /\ th[t].at \in Loop
    /\ slot = th[t].r => main.at = "clear"
    /\ main.at = "stop" => main.r # th[t].r
    /\ \/ state[th[t].r] = "stopped" /\ th[t].at \notin {"running", "waiting"}
       \/ /\ state[th[t].r] # "stopped"
          /\ \E u \in Thread \ {t} : th[u].r = th[t].r /\ th[u].at \in Loop

-----------------------------------------------------------------------------
(* What the parts of a step do *)

\* A thread that goes to another place keeps its repeater; the others stay.
LEMMA GotoFacts ==
  ASSUME TypeOK, NEW t \in Thread, NEW place \in Place, Goto(t, place)
  PROVE  /\ th' \in [Thread -> [at : Place, r : Thread \cup {NoRepeater}]]
         /\ th'[t].at = place /\ th'[t].r = th[t].r
         /\ \A u \in Thread \ {t} : th'[u] = th[u]
BY DEF TypeOK, Goto

\* A thread that returns is idle and works for nobody; the others stay.
LEMMA ReturnFacts ==
  ASSUME TypeOK, NEW t \in Thread, Return(t)
  PROVE  /\ th' \in [Thread -> [at : Place, r : Thread \cup {NoRepeater}]]
         /\ th'[t].at = "idle" /\ th'[t].r = NoRepeater
         /\ \A u \in Thread \ {t} : th'[u] = th[u]
         /\ told' = told \ {t}
BY DEF TypeOK, Return, Idle, Place

\* The places inside a loop and around it.
LEMMA Places ==
  /\ Loop \subseteq Place /\ Pass \subseteq Loop
  /\ Gate \subseteq Pass /\ Update \subseteq Pass
  /\ {"running", "waiting", "end", "sleep", "transactions?"} \subseteq Loop
  /\ {"idle", "assign", "read", "guard"} \cap Loop = {}
  /\ {"idle", "assign", "read", "guard"} \subseteq Place
  /\ {"running", "waiting", "sleep"} \cap Pass = {}
  /\ {"transactions", "accounts", "replace"} \cap Gate = {}
  /\ \A u \in Update : AfterUpdate[u] \in Loop \ {"running", "waiting"}
BY DEF Place, Loop, Pass, Gate, Update, AfterUpdate

-----------------------------------------------------------------------------
(* Types *)

LEMMA TypeInit == Init => TypeOK
<1> SUFFICES ASSUME Init PROVE TypeOK
  OBVIOUS
<1>1. unlocked \in BOOLEAN /\ hurried \in BOOLEAN
  BY Zenon DEF Init
<1>2. th \in [Thread -> [at : Place, r : Thread \cup {NoRepeater}]]
  BY Places DEF Init, Idle
<1>3. \A t \in Thread : th[t].at \in Loop \cup {"guard"} <=> th[t].r # NoRepeater
  BY Places DEF Init, Idle
<1>4. QED
  BY <1>1, <1>2, <1>3, SynchronisationAssumption DEF Init, TypeOK, Idle

\* The two Boolean variables stay Boolean.
LEMMA FlagsStep ==
  ASSUME TypeOK, Next
  PROVE  unlocked' \in BOOLEAN /\ hurried' \in BOOLEAN
<1>0. unlocked \in BOOLEAN /\ hurried \in BOOLEAN
  BY DEF TypeOK
<1>1. unlocked' \in {unlocked, TRUE, FALSE}
  BY Zenon DEF Next, BecomeActive, ResignActive, EnterBackground, LockDevice, MainStep,
     StopRepeater, ClearSlot, ThreadStep, TakeClosure, AssignSlot, ReadSlot,
     GuardStart, SetRunning, PassGate, ServiceGate, EndUpdate, EndOfPass,
     SetWaiting, Wake, Trap, Relaunch, Launched, CallSyncOnce, SyncOnce
<1>2. hurried' \in {hurried, hurried \/ ~Undisturbed, FALSE}
  BY Zenon DEF Next, BecomeActive, ResignActive, EnterBackground, LockDevice, MainStep,
     StopRepeater, ClearSlot, ThreadStep, TakeClosure, AssignSlot, ReadSlot,
     GuardStart, SetRunning, PassGate, ServiceGate, EndUpdate, EndOfPass,
     SetWaiting, Wake, Trap, Relaunch, Launched, CallSyncOnce, SyncOnce, Changes
<1>3. QED
  BY <1>0, <1>1, <1>2, Zenon

\* Which places a thread's step leads to.
LEMMA ThreadPlaces ==
  ASSUME TypeOK, NEW t \in Thread
  PROVE  /\ PassGate(t) => \E p \in Pass \cup {"end"} : Goto(t, p)
         /\ ServiceGate(t) => \E p \in Pass \cup {"end"} : Goto(t, p)
         /\ \A failed \in BOOLEAN :
              EndUpdate(t, failed) => \E p \in Pass \cup {"end"} : Goto(t, p)
<1>1. ASSUME PassGate(t) PROVE \E p \in Pass \cup {"end"} : Goto(t, p)
  BY <1>1 DEF PassGate, Gate, Pass, Update
<1>2. ASSUME ServiceGate(t) PROVE \E p \in Pass \cup {"end"} : Goto(t, p)
  BY <1>2 DEF ServiceGate, Pass, Update
<1>3. ASSUME NEW failed \in BOOLEAN, EndUpdate(t, failed)
      PROVE  \E p \in Pass \cup {"end"} : Goto(t, p)
  BY <1>3 DEF EndUpdate, Pass, Update, Gate, AfterUpdate
<1>4. QED
  BY <1>1, <1>2, <1>3

\* Every step keeps the types.
LEMMA TypeStep ==
  ASSUME TypeOK, Next
  PROVE  TypeOK'
<1> USE FlagsStep, Places, SynchronisationAssumption
<1>1. ASSUME BecomeActive PROVE TypeOK'
  BY <1>1 DEF BecomeActive, TypeOK
<1>2. ASSUME ResignActive PROVE TypeOK'
  BY <1>2 DEF ResignActive, TypeOK
<1>3. ASSUME EnterBackground PROVE TypeOK'
  BY <1>3 DEF EnterBackground, TypeOK, Idle
<1>4. ASSUME LockDevice PROVE TypeOK'
  BY <1>4 DEF LockDevice, TypeOK
<1>5. ASSUME StopRepeater PROVE TypeOK'
  BY <1>5 DEF StopRepeater, StateAfterStop, TypeOK
<1>6. ASSUME ClearSlot PROVE TypeOK'
  BY <1>6 DEF ClearSlot, SlotAfterStop, TypeOK, Idle
<1>7. ASSUME NEW t \in Thread, ThreadStep(t) PROVE TypeOK'
  <2>1. CASE TakeClosure(t)
    BY <2>1, GotoFacts DEF TakeClosure, TypeOK, Idle
  <2>2. CASE AssignSlot(t)
    BY <2>2, GotoFacts DEF AssignSlot, TypeOK
  <2>3. CASE ReadSlot(t)
    BY <2>3 DEF ReadSlot, TypeOK
  <2>4. CASE GuardStart(t)
    BY <2>4, GotoFacts, ReturnFacts DEF GuardStart, TypeOK
  <2>5. CASE SetRunning(t)
    BY <2>5, GotoFacts DEF SetRunning, TypeOK
  <2>6. ASSUME NEW p \in Pass \cup {"end"}, Goto(t, p), th[t].at \in Pass,
               UNCHANGED <<app, unlocked, main, slot, queued, state, told, once, hurried>>
        PROVE  TypeOK'
    BY <2>6, GotoFacts DEF TypeOK
  <2>7. CASE PassGate(t)
    BY <2>7, <2>6, ThreadPlaces DEF PassGate
  <2>8. CASE ServiceGate(t)
    BY <2>8, <2>6, ThreadPlaces DEF ServiceGate, Pass
  <2>9. CASE \E failed \in BOOLEAN : EndUpdate(t, failed)
    BY <2>9, <2>6, ThreadPlaces DEF EndUpdate
  <2>10. CASE EndOfPass(t)
    BY <2>10, GotoFacts, ReturnFacts DEF EndOfPass, TypeOK
  <2>11. CASE SetWaiting(t)
    BY <2>11, GotoFacts DEF SetWaiting, TypeOK
  <2>12. CASE Wake(t)
    BY <2>12, GotoFacts, ReturnFacts DEF Wake, TypeOK
  <2>13. QED
    BY <1>7, <2>1, <2>2, <2>3, <2>4, <2>5, <2>7, <2>8, <2>9, <2>10, <2>11, <2>12
    DEF ThreadStep
<1>8. ASSUME NEW a \in {"dead", "inactive"}, Launched(a) PROVE TypeOK'
  <2>1. th' \in [Thread -> [at : Place, r : Thread \cup {NoRepeater}]]
    BY <1>8 DEF Launched, Idle
  <2>2. \A t \in Thread : th'[t].at = "idle" /\ th'[t].r = NoRepeater
    BY <1>8 DEF Launched, Idle
  <2>3. QED
    BY <1>8, <2>1, <2>2 DEF Launched, TypeOK, Idle
<1>9. ASSUME CallSyncOnce PROVE TypeOK'
  BY <1>9 DEF CallSyncOnce, TypeOK
<1>10. ASSUME SyncOnce PROVE TypeOK'
  BY <1>10 DEF SyncOnce, TypeOK
<1>11. QED
  BY <1>1, <1>2, <1>3, <1>4, <1>5, <1>6, <1>7, <1>8, <1>9, <1>10
  DEF Next, MainStep, Trap, Relaunch

\* The loop's variable, the repeaters and the threads keep their types, and a
\* thread has a repeater exactly while it is inside Repeater.start().
THEOREM SynchronisationTypeCorrect == Spec => []TypeOK
<1>1. TypeOK /\ [Next]_vars => TypeOK'
  <2>1. TypeOK /\ UNCHANGED vars => TypeOK'
    BY DEF TypeOK, vars
  <2>2. QED
    BY <2>1, TypeStep
<1>2. QED
  BY <1>1, TypeInit, PTL DEF Spec

-----------------------------------------------------------------------------
(* One loop *)

\* A step of a thread that is already inside a loop, or about to enter one,
\* leaves the other repeaters alone.
LEMMA LoopThread ==
  ASSUME TypeOK, TypeOK', LoopInv, NEW t \in Thread,
         Active(t) \/ Active(t)' => Active(t) /\ th[t].at # "assign",
         th'[t].r \in {NoRepeater, t},
         \A u \in Thread \ {t} : th'[u] = th[u],
         th'[t].at # "assign",
         ~hurried => \A u \in Thread \ {t} : state'[u] = state[u],
         UNCHANGED <<main, slot, queued, hurried>>
  PROVE  LoopInv'
<1> SUFFICES ASSUME ~hurried PROVE LoopInv'
  BY DEF LoopInv
<1>1. \A u \in Thread \ {t} : Active(u)' <=> Active(u)
  BY SynchronisationAssumption, Places DEF LoopInv, Active, TypeOK
<1>2. \A u \in Thread : Active(u)' => Active(u)
  BY <1>1
<1>3. \A u \in Thread : th'[u].at = "assign" => th[u].at = "assign"
  OBVIOUS
<1>4. QED
  BY <1>1, <1>2, <1>3 DEF LoopInv, TypeOK

\* Every step keeps the one live repeater where it belongs.
LEMMA LoopStep ==
  ASSUME TypeOK, TypeOK', LoopInv, Next
  PROVE  LoopInv'
<1> USE Places, SynchronisationAssumption
<1>1. ASSUME BecomeActive PROVE LoopInv'
  <2> SUFFICES ASSUME ~hurried' PROVE LoopInv'
    BY DEF LoopInv
  <2>1. ~hurried /\ queued = 0 /\ \A t \in Thread : th[t].at # "assign"
    BY <1>1 DEF BecomeActive, Changes, Undisturbed, TypeOK
  <2>2. \A t \in Thread : Active(t)' <=> Active(t)
    BY <1>1 DEF BecomeActive, Active
  <2>3. CASE slot = NoRepeater
    <3>1. \A t \in Thread : ~Active(t)
      BY <2>1, <2>3 DEF LoopInv
    <3>2. QED
      BY <1>1, <2>1, <2>2, <2>3, <3>1 DEF BecomeActive, Starts, LoopInv
  <2>4. CASE slot # NoRepeater
    BY <1>1, <2>1, <2>2, <2>4 DEF BecomeActive, Starts, LoopInv
  <2>5. QED
    BY <2>3, <2>4
<1>2. ASSUME ResignActive PROVE LoopInv'
  BY <1>2 DEF ResignActive, LoopInv, Active
<1>3. ASSUME EnterBackground PROVE LoopInv'
  BY <1>3 DEF EnterBackground, Changes, Undisturbed, Idle, LoopInv, Active, TypeOK
<1>4. ASSUME LockDevice PROVE LoopInv'
  BY <1>4 DEF LockDevice, LoopInv, Active
<1>5. ASSUME StopRepeater PROVE LoopInv'
  <2> SUFFICES ASSUME ~hurried' PROVE LoopInv'
    BY DEF LoopInv
  <2>1. ~hurried /\ Undisturbed
    BY <1>5 DEF StopRepeater, Changes, TypeOK
  <2>2. \A t \in Thread : ~Active(t)'
    BY <1>5, <2>1 DEF StopRepeater, StateAfterStop, Undisturbed, LoopInv, Active, TypeOK
  <2>3. QED
    BY <1>5, <2>1, <2>2 DEF StopRepeater, Undisturbed, LoopInv, TypeOK
<1>6. ASSUME ClearSlot PROVE LoopInv'
  BY <1>6 DEF ClearSlot, SlotAfterStop, Idle, LoopInv, Active, TypeOK
<1>7. ASSUME NEW t \in Thread, ThreadStep(t) PROVE LoopInv'
  <2>1. CASE TakeClosure(t)
    BY <2>1, GotoFacts DEF TakeClosure, Idle, LoopInv, Active, TypeOK
  <2>2. CASE AssignSlot(t)
    BY <2>2, GotoFacts DEF AssignSlot, Idle, LoopInv, Active, TypeOK
  <2>3. CASE ReadSlot(t)
    BY <2>3 DEF ReadSlot, LoopInv, Active, TypeOK
  <2>4. CASE GuardStart(t)
    BY <2>4, GotoFacts, ReturnFacts, LoopThread DEF GuardStart, LoopInv, Active, TypeOK
  <2>5. CASE SetRunning(t)
    BY <2>5, GotoFacts, LoopThread DEF SetRunning, LoopInv, Active, TypeOK
  <2>6. ASSUME NEW p \in Pass \cup {"end"}, Goto(t, p), th[t].at \in Pass,
               UNCHANGED <<main, slot, queued, state, hurried>>
        PROVE  LoopInv'
    BY <2>6, GotoFacts, LoopThread DEF LoopInv, Active, TypeOK
  <2>7. CASE PassGate(t)
    BY <2>7, <2>6, ThreadPlaces DEF PassGate
  <2>8. CASE ServiceGate(t)
    BY <2>8, <2>6, ThreadPlaces DEF ServiceGate, Pass
  <2>9. CASE \E failed \in BOOLEAN : EndUpdate(t, failed)
    BY <2>9, <2>6, ThreadPlaces DEF EndUpdate
  <2>10. CASE EndOfPass(t)
    BY <2>10, GotoFacts, ReturnFacts, LoopThread DEF EndOfPass, LoopInv, Active, TypeOK
  <2>11. CASE SetWaiting(t)
    BY <2>11, GotoFacts, LoopThread DEF SetWaiting, LoopInv, Active, TypeOK
  <2>12. CASE Wake(t)
    BY <2>12, GotoFacts, ReturnFacts, LoopThread DEF Wake, LoopInv, Active, TypeOK
  <2>13. QED
    BY <1>7, <2>1, <2>2, <2>3, <2>4, <2>5, <2>7, <2>8, <2>9, <2>10, <2>11, <2>12
    DEF ThreadStep
<1>8. ASSUME NEW a \in {"dead", "inactive"}, Launched(a) PROVE LoopInv'
  <2>1. \A t \in Thread : th'[t].at = "idle" /\ th'[t].r = NoRepeater
    BY <1>8 DEF Launched, Idle
  <2>2. QED
    BY <1>8, <2>1 DEF Launched, LoopInv, Active
<1>9. ASSUME CallSyncOnce PROVE LoopInv'
  BY <1>9 DEF CallSyncOnce, LoopInv, Active
<1>10. ASSUME SyncOnce PROVE LoopInv'
  BY <1>10 DEF SyncOnce, LoopInv, Active
<1>11. QED
  BY <1>1, <1>2, <1>3, <1>4, <1>5, <1>6, <1>7, <1>8, <1>9, <1>10
  DEF Next, MainStep, Trap, Relaunch

\* At most one loop goes on, for any number of threads and queued closures, as
\* long as no start or stop fell between two statements of a start or a loop
\* (startSyncLoop(), stopSyncLoop(), Repeater.start()).
THEOREM LoopsStayOne == Spec => []OneLoop
<1>1. Init => TypeOK /\ LoopInv
  <2> SUFFICES ASSUME Init PROVE LoopInv
    BY TypeInit
  <2>1. \A t \in Thread : th[t].at = "idle" /\ th[t].r = NoRepeater
    BY DEF Init, Idle
  <2>2. QED
    BY <2>1, Places DEF Init, LoopInv, Active
<1>2. TypeOK /\ LoopInv /\ [Next]_vars => (TypeOK /\ LoopInv)'
  <2>1. TypeOK /\ LoopInv /\ UNCHANGED vars => (TypeOK /\ LoopInv)'
    BY DEF TypeOK, LoopInv, Active, vars
  <2>2. QED
    BY <2>1, TypeStep, LoopStep
<1>3. TypeOK /\ LoopInv => OneLoop
  <2> SUFFICES ASSUME TypeOK, LoopInv, ~hurried PROVE Cardinality(Looping) <= 1
    BY DEF OneLoop
  <2>1. \A t, u \in Looping : t = u
    BY DEF Looping, LoopInv, Active
  <2>2. Looping = {} \/ \E t \in Looping : Looping = {t}
    BY <2>1
  <2>3. QED
    BY <2>2, FS_EmptySet, FS_Singleton
<1>4. QED
  BY <1>1, <1>2, <1>3, PTL DEF Spec

-----------------------------------------------------------------------------
(* A stopped pass *)

\* A repeater that is being created is known to nobody.
LEMMA FreshStep ==
  ASSUME TypeOK, TypeOK', FreshInv, Next
  PROVE  FreshInv'
<1> USE Places, SynchronisationAssumption
<1>1. ASSUME UNCHANGED <<main, slot, th>> PROVE FreshInv'
  BY <1>1 DEF FreshInv
<1>2. ASSUME EnterBackground PROVE FreshInv'
  BY <1>2 DEF EnterBackground, FreshInv, Idle
<1>3. ASSUME StopRepeater PROVE FreshInv'
  BY <1>3 DEF StopRepeater, FreshInv, TypeOK
<1>4. ASSUME ClearSlot PROVE FreshInv'
  BY <1>4 DEF ClearSlot, SlotAfterStop, FreshInv, Idle
<1>5. ASSUME NEW t \in Thread, ThreadStep(t) PROVE FreshInv'
  <2>1. CASE TakeClosure(t)
    BY <2>1, GotoFacts DEF TakeClosure, Idle, FreshInv, TypeOK
  <2>2. CASE AssignSlot(t)
    BY <2>2, GotoFacts DEF AssignSlot, FreshInv, TypeOK
  <2>3. CASE ReadSlot(t)
    BY <2>3 DEF ReadSlot, FreshInv, TypeOK
  <2>4. ASSUME UNCHANGED <<main, slot>>, th'[t].at # "assign",
               th'[t].r \in {th[t].r, NoRepeater},
               \A u \in Thread \ {t} : th'[u] = th[u]
        PROVE  FreshInv'
    BY <2>4 DEF FreshInv
  <2>5. CASE GuardStart(t)
    BY <2>5, <2>4, GotoFacts, ReturnFacts DEF GuardStart
  <2>6. CASE SetRunning(t)
    BY <2>6, <2>4, GotoFacts DEF SetRunning
  <2>7. CASE PassGate(t)
    <3>1. PICK p \in Pass \cup {"end"} : Goto(t, p)
      BY <2>7, ThreadPlaces
    <3>2. QED
      BY <2>7, <3>1, <2>4, GotoFacts DEF PassGate
  <2>8. CASE ServiceGate(t)
    BY <2>8, <2>4, ThreadPlaces, GotoFacts DEF ServiceGate
  <2>9. CASE \E failed \in BOOLEAN : EndUpdate(t, failed)
    BY <2>9, <2>4, ThreadPlaces, GotoFacts DEF EndUpdate
  <2>10. CASE EndOfPass(t)
    BY <2>10, <2>4, GotoFacts, ReturnFacts DEF EndOfPass
  <2>11. CASE SetWaiting(t)
    BY <2>11, <2>4, GotoFacts DEF SetWaiting
  <2>12. CASE Wake(t)
    BY <2>12, <2>4, GotoFacts, ReturnFacts DEF Wake
  <2>13. QED
    BY <1>5, <2>1, <2>2, <2>3, <2>5, <2>6, <2>7, <2>8, <2>9, <2>10, <2>11, <2>12
    DEF ThreadStep
<1>6. ASSUME NEW a \in {"dead", "inactive"}, Launched(a) PROVE FreshInv'
  <2>1. \A t \in Thread : th'[t].at = "idle"
    BY <1>6 DEF Launched, Idle
  <2>2. QED
    BY <2>1 DEF FreshInv
<1>7. CASE BecomeActive
  BY <1>7, <1>1 DEF BecomeActive
<1>8. CASE ResignActive
  BY <1>8, <1>1 DEF ResignActive
<1>9. CASE LockDevice
  BY <1>9, <1>1 DEF LockDevice
<1>10. CASE CallSyncOnce
  BY <1>10, <1>1 DEF CallSyncOnce
<1>11. CASE SyncOnce
  BY <1>11, <1>1 DEF SyncOnce
<1>12. QED
  BY <1>2, <1>3, <1>4, <1>5, <1>6, <1>7, <1>8, <1>9, <1>10, <1>11
  DEF Next, MainStep, Trap, Relaunch

\* A step of one thread: what keeps ToldInv for all of them.
LEMMA ToldThread ==
  ASSUME TypeOK, TypeOK', ToldInv, NEW t \in Thread,
         UNCHANGED <<main, slot>>,
         \A u \in Thread \ {t} : th'[u] = th[u],
         \/ /\ th[t].at \in Loop /\ th'[t].at \in Loop /\ th'[t].r = th[t].r
            /\ told' = told
            /\ \/ /\ state' = state
                  /\ state[th[t].r] # "stopped" \/ th'[t].at \notin {"running", "waiting"}
               \/ /\ th[t].at \in {"running", "waiting"}
                  /\ \E s \in {"running", "waiting"} :
                        state' = [state EXCEPT ![th[t].r] = s]
         \/ /\ th[t].at \in Loop /\ state[th[t].r] = "stopped"
            /\ th'[t].r = NoRepeater /\ told' = told \ {t} /\ state' = state
         \/ th[t].at \notin Loop /\ told' \in {told, told \ {t}} /\ state' = state
  PROVE  ToldInv'
<1> USE SynchronisationAssumption
<1> SUFFICES ASSUME NEW v \in told'
             PROVE  /\ th'[v].at \in Loop
                    /\ slot' = th'[v].r => main'.at = "clear"
                    /\ main'.at = "stop" => main'.r # th'[v].r
                    /\ \/ state'[th'[v].r] = "stopped" /\ th'[v].at \notin {"running", "waiting"}
                       \/ /\ state'[th'[v].r] # "stopped"
                          /\ \E u \in Thread \ {v} : th'[u].r = th'[v].r /\ th'[u].at \in Loop
  BY DEF ToldInv
<1>0. v \in told /\ v \in Thread
  BY DEF TypeOK
<1>1. CASE /\ th[t].at \in Loop /\ th'[t].at \in Loop /\ th'[t].r = th[t].r
           /\ told' = told
           /\ state' = state
           /\ state[th[t].r] # "stopped" \/ th'[t].at \notin {"running", "waiting"}
  BY <1>0, <1>1 DEF ToldInv, TypeOK
<1>2. CASE /\ th[t].at \in Loop /\ th'[t].at \in Loop /\ th'[t].r = th[t].r
           /\ told' = told
           /\ th[t].at \in {"running", "waiting"}
           /\ \E s \in {"running", "waiting"} : state' = [state EXCEPT ![th[t].r] = s]
  <2>1. PICK s \in {"running", "waiting"} : state' = [state EXCEPT ![th[t].r] = s]
    BY <1>2
  <2>2. th[t].r \in Thread /\ th[v].r \in Thread
    BY <1>0, <1>2 DEF ToldInv, TypeOK
  <2>3. state'[th[t].r] # "stopped"
        /\ \A r \in Thread : r # th[t].r => state'[r] = state[r]
    BY <2>1, <2>2 DEF TypeOK
  <2>4. th'[v].r = th[v].r /\ th'[v].at \in Loop
    BY <1>0, <1>2 DEF ToldInv, TypeOK
  <2>5. CASE th[v].r # th[t].r
    <3>1. v # t /\ th'[v] = th[v] /\ state'[th[v].r] = state[th[v].r]
      BY <1>0, <2>2, <2>3, <2>5
    <3>2. \A u \in Thread : th'[u].r = th[u].r /\ (th[u].at \in Loop => th'[u].at \in Loop)
      BY <1>2
    <3>3. QED
      BY <1>0, <3>1, <3>2 DEF ToldInv
  <2>6. CASE th[v].r = th[t].r /\ v # t
    BY <1>0, <1>2, <2>2, <2>3, <2>4, <2>6 DEF ToldInv, TypeOK
  <2>7. CASE v = t
    <3>1. PICK u \in Thread \ {t} : th[u].r = th[t].r /\ th[u].at \in Loop
      BY <1>0, <1>2, <2>7 DEF ToldInv
    <3>2. th'[u] = th[u]
      BY <3>1
    <3>3. QED
      BY <1>0, <1>2, <2>2, <2>3, <2>4, <2>7, <3>1, <3>2 DEF ToldInv
  <2>8. QED
    BY <2>5, <2>6, <2>7
<1>3. CASE /\ th[t].at \in Loop /\ state[th[t].r] = "stopped"
           /\ th'[t].r = NoRepeater /\ told' = told \ {t} /\ state' = state
  BY <1>0, <1>3 DEF ToldInv, TypeOK
<1>4. CASE th[t].at \notin Loop /\ told' \in {told, told \ {t}} /\ state' = state
  BY <1>0, <1>4 DEF ToldInv, TypeOK
<1>5. QED
  BY <1>1, <1>2, <1>3, <1>4

\* A repeater that was stopped during a pass runs again only for another thread.
LEMMA ToldStep ==
  ASSUME TypeOK, TypeOK', FreshInv, ToldInv, Next
  PROVE  ToldInv'
<1> USE Places, SynchronisationAssumption
<1>1. ASSUME UNCHANGED <<main, slot, state, th, told>> PROVE ToldInv'
  BY <1>1 DEF ToldInv
<1>2. ASSUME EnterBackground PROVE ToldInv'
  BY <1>2 DEF EnterBackground, ToldInv, Idle, TypeOK
<1>3. ASSUME StopRepeater PROVE ToldInv'
  BY <1>3 DEF StopRepeater, StateAfterStop, FreshInv, ToldInv, TypeOK
<1>4. ASSUME ClearSlot PROVE ToldInv'
  BY <1>4 DEF ClearSlot, SlotAfterStop, ToldInv, Idle, TypeOK
<1>5. ASSUME NEW t \in Thread, ThreadStep(t) PROVE ToldInv'
  <2>1. CASE TakeClosure(t)
    BY <2>1, GotoFacts DEF TakeClosure, Idle, ToldInv, TypeOK
  <2>2. CASE AssignSlot(t)
    BY <2>2, GotoFacts DEF AssignSlot, FreshInv, ToldInv, TypeOK
  <2>3. CASE ReadSlot(t)
    BY <2>3, ToldThread DEF ReadSlot, TypeOK
  <2>4. CASE GuardStart(t)
    BY <2>4, GotoFacts, ReturnFacts, ToldThread DEF GuardStart
  <2>5. CASE SetRunning(t)
    <3>1. \E s \in {"running", "waiting"} : state' = [state EXCEPT ![th[t].r] = s]
      BY <2>5 DEF SetRunning
    <3>2. /\ th'[t].at \in Loop /\ th'[t].r = th[t].r
          /\ \A u \in Thread \ {t} : th'[u] = th[u]
      BY <2>5, GotoFacts DEF SetRunning
    <3>3. /\ th[t].at = "running" /\ told' = told
          /\ UNCHANGED <<main, slot>>
      BY <2>5 DEF SetRunning
    <3>4. QED
      BY <3>1, <3>2, <3>3, ToldThread
  <2>6. ASSUME NEW p \in Pass \cup {"end"}, Goto(t, p), th[t].at \in Pass,
               UNCHANGED <<main, slot, state, told>>
        PROVE  ToldInv'
    BY <2>6, GotoFacts, ToldThread
  <2>7. CASE PassGate(t)
    BY <2>7, <2>6, ThreadPlaces DEF PassGate
  <2>8. CASE ServiceGate(t)
    BY <2>8, <2>6, ThreadPlaces DEF ServiceGate, Pass
  <2>9. CASE \E failed \in BOOLEAN : EndUpdate(t, failed)
    BY <2>9, <2>6, ThreadPlaces DEF EndUpdate
  <2>10. CASE EndOfPass(t)
    BY <2>10, GotoFacts, ReturnFacts, ToldThread DEF EndOfPass
  <2>11. CASE SetWaiting(t)
    <3>1. \E s \in {"running", "waiting"} : state' = [state EXCEPT ![th[t].r] = s]
      BY <2>11 DEF SetWaiting
    <3>2. /\ th'[t].at \in Loop /\ th'[t].r = th[t].r
          /\ \A u \in Thread \ {t} : th'[u] = th[u]
      BY <2>11, GotoFacts DEF SetWaiting
    <3>3. /\ th[t].at = "waiting" /\ told' = told
          /\ UNCHANGED <<main, slot>>
      BY <2>11 DEF SetWaiting
    <3>4. QED
      BY <3>1, <3>2, <3>3, ToldThread
  <2>12. CASE Wake(t)
    BY <2>12, GotoFacts, ReturnFacts, ToldThread DEF Wake
  <2>13. QED
    BY <1>5, <2>1, <2>2, <2>3, <2>4, <2>5, <2>7, <2>8, <2>9, <2>10, <2>11, <2>12
    DEF ThreadStep
<1>6. ASSUME NEW a \in {"dead", "inactive"}, Launched(a) PROVE ToldInv'
  BY <1>6 DEF Launched, ToldInv
<1>7. CASE BecomeActive
  BY <1>7, <1>1 DEF BecomeActive
<1>8. CASE ResignActive
  BY <1>8, <1>1 DEF ResignActive
<1>9. CASE LockDevice
  BY <1>9, <1>1 DEF LockDevice
<1>10. CASE CallSyncOnce
  BY <1>10, <1>1 DEF CallSyncOnce
<1>11. CASE SyncOnce
  BY <1>11, <1>1 DEF SyncOnce
<1>12. QED
  BY <1>2, <1>3, <1>4, <1>5, <1>6, <1>7, <1>8, <1>9, <1>10, <1>11
  DEF Next, MainStep, Trap, Relaunch

\* "If inbetween of these updates the synchronisation is stopped, then all
\* further actions are skipped", for any number of threads: the only thread of
\* a repeater that was stopped during a pass begins no update.
THEOREM StoppedPassEnds == Spec => StopSkipsRest
<1> DEFINE Inv == TypeOK /\ FreshInv /\ ToldInv
<1>1. Init => Inv
  <2> SUFFICES ASSUME Init PROVE FreshInv /\ ToldInv
    BY TypeInit
  <2>1. \A t \in Thread : th[t].at = "idle"
    BY DEF Init, Idle
  <2>2. QED
    BY <2>1 DEF Init, FreshInv, ToldInv
<1>2. Inv /\ [Next]_vars => Inv'
  <2>1. Inv /\ UNCHANGED vars => Inv'
    BY DEF TypeOK, FreshInv, ToldInv, vars
  <2>2. QED
    BY <2>1, TypeStep, FreshStep, ToldStep
<1>3. Inv /\ [Next]_vars =>
        [\A t \in told :
           (th[t].at \in Gate /\ \A u \in Thread \ {t} : th[u].r # th[t].r)
             => th'[t].at \notin {"transactions", "accounts", "replace"}]_vars
  <2> SUFFICES ASSUME Inv, Next, NEW t \in told, th[t].at \in Gate,
                      \A u \in Thread \ {t} : th[u].r # th[t].r
               PROVE  th'[t].at \notin {"transactions", "accounts", "replace"}
    OBVIOUS
  <2>0. t \in Thread /\ state[th[t].r] = "stopped"
    BY DEF ToldInv, TypeOK
  <2>1. ASSUME NEW u \in Thread, ThreadStep(u), u # t PROVE th'[t] = th[t]
    BY <2>0, <2>1 DEF ThreadStep, TakeClosure, AssignSlot, ReadSlot, GuardStart, SetRunning,
       PassGate, ServiceGate, EndUpdate, EndOfPass, SetWaiting, Wake, Goto, Return, TypeOK
  <2>2. ASSUME ThreadStep(t) PROVE th'[t].at = "end"
    BY <2>0, <2>2, GotoFacts, Places DEF ThreadStep, TakeClosure, AssignSlot, ReadSlot,
       GuardStart, SetRunning, PassGate, Skips, ServiceGate, EndUpdate, EndOfPass,
       SetWaiting, Wake, Idle, Gate, Update
  <2>3. ASSUME NEW a \in {"dead", "inactive"}, Launched(a) PROVE th'[t].at = "idle"
    BY <2>0, <2>3 DEF Launched, Idle
  <2>4. th' = th \/ th'[t] = th[t] \/ th'[t].at \in {"end", "idle"}
    BY <2>1, <2>2, <2>3 DEF Next, BecomeActive, ResignActive, EnterBackground, LockDevice,
       MainStep, StopRepeater, ClearSlot, Trap, Relaunch, CallSyncOnce, SyncOnce
  <2>5. QED
    BY <2>4, Places
<1>4. QED
  BY <1>1, <1>2, <1>3, PTL DEF Spec, StopSkipsRest
=============================================================================
