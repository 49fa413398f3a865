--------------------------- MODULE Synchronisation ---------------------------
(***************************************************************************)
(* The synchronisation loop: SynchronisationService, the Repeater it runs  *)
(* on, and the calls AppDelegate makes when the app changes between the    *)
(* foreground and the background. Nothing here takes a lock: the main      *)
(* thread starts and stops the loop by reading and writing one variable,   *)
(* syncLoopRepeater, that the loop's own thread assigns.                   *)
(***************************************************************************)
EXTENDS Naturals, FiniteSets

CONSTANTS
  Thread,       \* threads of the global queue that can run a loop
  MaxQueued     \* closures of startSyncLoop() that may wait on the queue

(* A closure of startSyncLoop() creates one Repeater, which has the name of *)
(* the thread that creates it.                                              *)
NoRepeater == "none"

ASSUME SynchronisationAssumption ==
  /\ IsFiniteSet(Thread)
  /\ NoRepeater \notin Thread
  /\ MaxQueued \in Nat \ {0}

VARIABLES
  app,        \* "active", "inactive", "background", "dead"
  unlocked,   \* UIApplication.isProtectedDataAvailable
  main,       \* the main thread, inside stopSyncLoop() or idle
  slot,       \* syncLoopRepeater
  queued,     \* closures of startSyncLoop() that have not begun
  state,      \* Repeater.state of every repeater
  th,         \* where each thread is, and the repeater it works for
  told,       \* history: threads whose repeater was stopped during a pass
  once,       \* the thread of syncOnce()
  hurried     \* history: in this process the app changed state while somebody
              \* was between two statements that the change separates

vars == <<app, unlocked, main, slot, queued, state, th, told, once, hurried>>

(* A pass is the closure given to the repeater: three updates, each behind  *)
(* a test of isStopped; the third one does the work of three services.      *)
Gate == {"transactions?", "accounts?", "post?"}
Update == {"transactions", "accounts", "replace", "connect", "disconnect"}
AfterUpdate ==
  [u \in Update |-> CASE u = "transactions" -> "accounts?"
                      [] u = "accounts" -> "post?"
                      [] u = "replace" -> "connect?"
                      [] u = "connect" -> "disconnect?"
                      [] u = "disconnect" -> "end"]

(* The places of a thread: "assign" creates the repeater, "read" unwraps    *)
(* syncLoopRepeater, "guard" to "sleep" are the lines of Repeater.start().  *)
Pass == Gate \cup Update \cup {"connect?", "disconnect?"}
Loop == Pass \cup {"running", "end", "waiting", "sleep"}
Place == Loop \cup {"idle", "assign", "read", "guard"}

TypeOK ==
  /\ app \in {"active", "inactive", "background", "dead"}
  /\ unlocked \in BOOLEAN
  /\ main \in [at : {"idle", "stop", "clear"}, r : Thread \cup {NoRepeater}]
  /\ slot \in Thread \cup {NoRepeater}
  /\ queued \in 0 .. MaxQueued
  /\ state \in [Thread -> {"stopped", "running", "waiting"}]
  /\ th \in [Thread -> [at : Place, r : Thread \cup {NoRepeater}]]
  /\ \A t \in Thread : th[t].at \in Loop \cup {"guard"} <=> th[t].r # NoRepeater
  /\ told \subseteq Thread
  /\ once \in {"idle", "list?", "list", "slot?", "running?", "accounts?",
               "accounts"}
  /\ hurried \in BOOLEAN

Idle == [at |-> "idle", r |-> NoRepeater]

(* didFinishLaunching queues a single sync; the loop starts when the app    *)
(* becomes active.                                                          *)
Launched(a) ==
  /\ app' = a
  /\ unlocked' = TRUE
  /\ main' = Idle
  /\ slot' = NoRepeater
  /\ queued' = 0
  /\ state' = [t \in Thread |-> "stopped"]
  /\ th' = [t \in Thread |-> Idle]
  /\ told' = {}
  /\ once' = IF a = "dead" THEN "idle" ELSE "list?"
  /\ hurried' = FALSE

Init ==
  /\ app = "inactive"
  /\ unlocked = TRUE
  /\ main = Idle
  /\ slot = NoRepeater
  /\ queued = 0
  /\ state = [t \in Thread |-> "stopped"]
  /\ th = [t \in Thread |-> Idle]
  /\ told = {}
  /\ once = "list?"
  /\ hurried = FALSE

-----------------------------------------------------------------------------
(* The app changes state, on the main thread.                               *)

Undisturbed ==
  /\ queued = 0
  /\ \A t \in Thread : th[t].at \notin {"assign", "read", "guard", "running", "waiting"}

Changes == hurried' = (hurried \/ ~Undisturbed)

(* Faulty variant: startSyncLoop() does not look at syncLoopRepeater. *)
StartsAlways == TRUE

Starts == slot = NoRepeater

(* applicationDidBecomeActive: startSyncLoop() tests syncLoopRepeater and   *)
(* queues the closure that will assign it.                                  *)
BecomeActive ==
  /\ app \in {"inactive", "background"}
  /\ main = Idle
  /\ Changes
  /\ Starts => queued < MaxQueued
  /\ app' = "active"
  /\ unlocked' = TRUE
  /\ queued' = queued + (IF Starts THEN 1 ELSE 0)
  /\ UNCHANGED <<main, slot, state, th, told, once>>

(* A banner, a call or the app switcher: no method of the delegate runs.    *)
ResignActive ==
  /\ app = "active"
  /\ main = Idle
  /\ app' = "inactive"
  /\ UNCHANGED <<unlocked, main, slot, queued, state, th, told, once, hurried>>

(* applicationDidEnterBackground: stopSyncLoop() reads syncLoopRepeater.    *)
EnterBackground ==
  /\ app = "inactive"
  /\ main = Idle
  /\ Changes
  /\ app' = "background"
  /\ main' = IF slot = NoRepeater THEN Idle ELSE [at |-> "stop", r |-> slot]
  /\ UNCHANGED <<unlocked, slot, queued, state, th, told, once>>

(* The device is locked while the app is not on the screen.                 *)
LockDevice ==
  /\ app = "background"
  /\ unlocked
  /\ unlocked' = FALSE
  /\ UNCHANGED <<app, main, slot, queued, state, th, told, once, hurried>>

(* Faulty variant: the repeater is forgotten without being stopped. *)
StateKept == state

StateAfterStop == [state EXCEPT ![main.r] = "stopped"]

(* repeater.stop(). *)
StopRepeater ==
  /\ main.at = "stop"
  /\ Changes
  /\ state' = StateAfterStop
  /\ told' = told \cup {t \in Thread : th[t].r = main.r /\ th[t].at \in Pass}
  /\ main' = [main EXCEPT !.at = "clear"]
  /\ UNCHANGED <<app, unlocked, slot, queued, th, once>>

(* Faulty variant: the stopped repeater is not forgotten. *)
SlotStays == slot

SlotAfterStop == NoRepeater

(* syncLoopRepeater = nil. *)
ClearSlot ==
  /\ main.at = "clear"
  /\ slot' = SlotAfterStop
  /\ main' = Idle
  /\ UNCHANGED <<app, unlocked, queued, state, th, told, once, hurried>>

-----------------------------------------------------------------------------
(* The closure of startSyncLoop() and Repeater.start().                     *)

Goto(t, place) == th' = [th EXCEPT ![t].at = place]

(* A thread of the queue takes a closure. Its repeater gets the thread's    *)
(* name, so a thread whose last repeater is still known somewhere waits.    *)
TakeClosure(t) ==
  /\ app # "dead"
  /\ queued > 0
  /\ th[t] = Idle
  /\ slot # t /\ main.r # t
  /\ \A u \in Thread : th[u].r # t
  /\ queued' = queued - 1
  /\ state' = [state EXCEPT ![t] = "stopped"]
  /\ Goto(t, "assign")
  /\ UNCHANGED <<app, unlocked, main, slot, told, once, hurried>>

AssignSlot(t) ==
  /\ th[t].at = "assign"
  /\ slot' = t
  /\ Goto(t, "read")
  /\ UNCHANGED <<app, unlocked, main, queued, state, told, once, hurried>>

(* Faulty variant: an optional call, which does not look at the variable. *)
ReadSlotUnchecked(t) ==
  /\ th[t].at = "read"
  /\ th' = [th EXCEPT ![t] = [at |-> "guard", r |-> slot]]
  /\ UNCHANGED <<app, unlocked, main, slot, queued, state, told, once, hurried>>

(* syncLoopRepeater! is whatever the variable holds now.                    *)
ReadSlot(t) ==
  /\ th[t].at = "read"
  /\ slot # NoRepeater
  /\ th' = [th EXCEPT ![t] = [at |-> "guard", r |-> slot]]
  /\ UNCHANGED <<app, unlocked, main, slot, queued, state, told, once, hurried>>

Trap ==
  /\ \/ slot = NoRepeater /\ \E t \in Thread : th[t].at = "read"
     \/ slot = NoRepeater /\ once = "running?"
  /\ Launched("dead")

Relaunch ==
  /\ app = "dead"
  /\ Launched("inactive")

Return(t) ==
  /\ th' = [th EXCEPT ![t] = Idle]
  /\ told' = told \ {t}

(* guard isStopped else { return } *)
GuardStart(t) ==
  /\ th[t].at = "guard"
  /\ IF state[th[t].r] = "stopped"
     THEN Goto(t, "running") /\ UNCHANGED told
     ELSE Return(t)
  /\ UNCHANGED <<app, unlocked, main, slot, queued, state, once, hurried>>

(* state = .running: a stop() since the last test is overwritten.           *)
SetRunning(t) ==
  /\ th[t].at = "running"
  /\ state' = [state EXCEPT ![th[t].r] = "running"]
  /\ Goto(t, "transactions?")
  /\ UNCHANGED <<app, unlocked, main, slot, queued, told, once, hurried>>

(* Faulty variant: the pass goes on after a stop. *)
SkipsNothing(t) == FALSE

Skips(t) == state[th[t].r] = "stopped"

(* A test of isStopped, and of hasAccessToFilesystem, before an update.     *)
PassGate(t) ==
  /\ th[t].at \in Gate
  /\ Goto(t, CASE Skips(t) -> "end"
               [] ~Skips(t) /\ th[t].at = "transactions?" ->
                    IF unlocked THEN "transactions" ELSE "accounts?"
               [] ~Skips(t) /\ th[t].at = "accounts?" ->
                    IF unlocked THEN "accounts" ELSE "post?"
               [] ~Skips(t) /\ th[t].at = "post?" ->
                    IF unlocked THEN "replace" ELSE "end")
  /\ UNCHANGED <<app, unlocked, main, slot, queued, state, told, once, hurried>>

(* Between the services of postProcessTransactions() only the access to the *)
(* file system is tested.                                                   *)
ServiceGate(t) ==
  /\ th[t].at \in {"connect?", "disconnect?"}
  /\ Goto(t, CASE ~unlocked -> "end"
               [] unlocked /\ th[t].at = "connect?" -> "connect"
               [] unlocked /\ th[t].at = "disconnect?" -> "disconnect")
  /\ UNCHANGED <<app, unlocked, main, slot, queued, state, told, once, hurried>>

(* An update ends. An error is logged; in postProcessTransactions() it      *)
(* skips the services that follow.                                          *)
EndUpdate(t, failed) ==
  /\ th[t].at \in Update
  /\ Goto(t, IF failed /\ th[t].at \in {"replace", "connect"}
             THEN "end" ELSE AfterUpdate[th[t].at])
  /\ UNCHANGED <<app, unlocked, main, slot, queued, state, told, once, hurried>>

(* if isStopped { return } *)
EndOfPass(t) ==
  /\ th[t].at = "end"
  /\ IF state[th[t].r] = "stopped"
     THEN Return(t)
     ELSE Goto(t, "waiting") /\ UNCHANGED told
  /\ UNCHANGED <<app, unlocked, main, slot, queued, state, once, hurried>>

(* state = .waiting: again a stop() since the test is overwritten.          *)
SetWaiting(t) ==
  /\ th[t].at = "waiting"
  /\ state' = [state EXCEPT ![th[t].r] = "waiting"]
  /\ Goto(t, "sleep")
  /\ UNCHANGED <<app, unlocked, main, slot, queued, told, once, hurried>>

(* while !isStopped, after the delay. *)
Wake(t) ==
  /\ th[t].at = "sleep"
  /\ IF state[th[t].r] = "stopped"
     THEN Return(t)
     ELSE Goto(t, "running") /\ UNCHANGED told
  /\ UNCHANGED <<app, unlocked, main, slot, queued, state, once, hurried>>

-----------------------------------------------------------------------------
(* syncOnce(): at launch, and when a deployment or a recovery has ended.    *)

CallSyncOnce ==
  /\ app \notin {"dead"}
  /\ once = "idle"
  /\ once' = "list?"
  /\ UNCHANGED <<app, unlocked, main, slot, queued, state, th, told, hurried>>

SyncOnce ==
  /\ \/ once = "list?" /\ once' = IF unlocked THEN "list" ELSE "slot?"
     \/ once = "list" /\ once' = "slot?"
     \/ once = "slot?" /\ once' = IF slot = NoRepeater THEN "accounts?"
                                  ELSE "running?"
     \/ /\ once = "running?"
        /\ slot # NoRepeater
        /\ once' = IF state[slot] = "running" THEN "idle" ELSE "accounts?"
     \/ once = "accounts?" /\ once' = IF unlocked THEN "accounts" ELSE "idle"
     \/ once = "accounts" /\ once' = "idle"
  /\ UNCHANGED <<app, unlocked, main, slot, queued, state, th, told, hurried>>

-----------------------------------------------------------------------------
MainStep == StopRepeater \/ ClearSlot

ThreadStep(t) ==
  \/ TakeClosure(t)
  \/ AssignSlot(t)
  \/ ReadSlot(t)
  \/ GuardStart(t)
  \/ SetRunning(t)
  \/ PassGate(t)
  \/ ServiceGate(t)
  \/ \E failed \in BOOLEAN : EndUpdate(t, failed)
  \/ EndOfPass(t)
  \/ SetWaiting(t)
  \/ Wake(t)

Next ==
  \/ BecomeActive
  \/ ResignActive
  \/ EnterBackground
  \/ LockDevice
  \/ MainStep
  \/ \E t \in Thread : ThreadStep(t)
  \/ Trap
  \/ Relaunch
  \/ CallSyncOnce
  \/ SyncOnce

Spec == Init /\ [][Next]_vars

(* A thread that can go on does, into a trap too, and the queue gives a     *)
(* closure to some thread. Nothing is assumed of the user, of syncOnce() or *)
(* of the device.                                                           *)
FairSpec ==
  /\ Spec
  /\ WF_vars(MainStep)
  /\ WF_vars(Trap)
  /\ \A t \in Thread : WF_vars(ThreadStep(t))

-----------------------------------------------------------------------------
(* Properties. *)

(* Threads that will begin another pass unless somebody stops them.         *)
Looping == {t \in Thread : th[t].at \in Loop /\ state[th[t].r] # "stopped"}

(* However often the app goes to and fro, at most one loop goes on, as long *)
(* as no start or stop fell between two statements of a start or a loop     *)
(* (the guard of startSyncLoop(), syncLoopRepeater, Repeater.state).        *)
OneLoop == ~hurried => Cardinality(Looping) <= 1

(* startSyncLoop() "starts synchronisation loop": one, in any case.         *)
OneLoopAlways == Cardinality(Looping) <= 1

(* "If inbetween of these updates the synchronisation is stopped, then all  *)
(* further actions are skipped": a thread whose repeater was stopped during *)
(* a pass begins none of the three updates, as long as no other thread has  *)
(* been handed the same repeater.                                           *)
StopSkipsRest ==
  [][\A t \in told :
        (th[t].at \in Gate /\ \A u \in Thread \ {t} : th[u].r # th[t].r)
          => th'[t].at \notin {"transactions", "accounts", "replace"}]_vars

(* Whatever the order of starts, stops and assignments, an app that stays   *)
(* in the foreground polls its transactions again and again.                *)
ForegroundSyncs ==
  <>[](app = "active")
     => []<>(\E t \in Thread : th[t].at = "transactions")

(* Under the same condition an app that stays in the background ends up     *)
(* doing nothing: stopSyncLoop() is obeyed wherever the loop is.            *)
BackgroundIsQuiet ==
  <>[](app = "background" /\ ~hurried) => <>[](\A t \in Thread : th[t].at \notin Loop)

(* stopSyncLoop() "stops a synchronisation loop, if it is running in        *)
(* background": in any case.                                                *)
StopIsFinal ==
  <>[](app = "background") => <>[](\A t \in Thread : th[t].at \notin Loop)

(* The forced unwraps of startSyncLoop() and syncOnce() assert that the     *)
(* variable still holds a repeater.                                         *)
SlotIsThere == app # "dead"
=============================================================================
