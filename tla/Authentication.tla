--------------------------- MODULE Authentication ---------------------------
(***************************************************************************)
(* The lock of the app: the gatekeeper and the user row in the             *)
(* IdentityAccess database, IdentityService that changes them, and the     *)
(* four places that ask who is there: the unlock screen the app starts     *)
(* and returns with, the unlock modal before a submission, the "change     *)
(* password" flow, and the registration.                                   *)
(*                                                                         *)
(* All of it runs on the main thread.  A call that waits for the biometric *)
(* prompt blocks that thread, so other handlers run before or after it;    *)
(* what can come in between is time and the end of the process.  The two   *)
(* saves of a successful check are two steps, since the process can end    *)
(* between them.                                                           *)
(*                                                                         *)
(* Time is counted in ticks and kept as ages.  An age stops at Horizon,    *)
(* where every comparison with a duration of the policy has settled.       *)
(***************************************************************************)
EXTENDS Integers

CONSTANTS Passwords,          \* what can be typed into a password field
          NoPassword,         \* "no user is registered"
          SessionDuration,    \* AuthenticationPolicy, in ticks
          MaxFailedAttempts,
          BlockDuration,
          MaxFailures,        \* bound: failed checks in a row
          MaxCrashes          \* bound: how often the process ends

ASSUME PolicyAssumption ==
    /\ SessionDuration \in Nat \ {0}
    /\ MaxFailedAttempts \in Nat \ {0}
    /\ BlockDuration \in Nat
    /\ MaxFailures \in Nat
    /\ MaxCrashes \in Nat
    /\ NoPassword \notin Passwords

VARIABLES user,        \* the user row: password, is the gatekeeper's session attached
          gatekeeper,  \* the gatekeeper row
          app,         \* down, foreground, background
          root,        \* the window's root: the unlock screen or the content
          view,        \* the three views with a password field
          newPassword, \* the screen for the new password is on top of "verify"
          call,        \* the check the main thread is in
          out,         \* what the last step reported: a submission or nothing
          crashes,
          verified,    \* history: age of the last check, if it succeeded
          owed,        \* history: a check is due before content may be shown
          fails,       \* history: failed checks since the last success
          wrong,       \* history: how many of them were passwords
          lastFail,    \* history: age of the last failed one
          gap          \* history: time between the last two, once fails > max

rows == <<user, gatekeeper>>
screens == <<app, root, view, newPassword>>
history == <<verified, owed, fails, wrong, lastFail, gap>>
vars == <<rows, screens, call, out, crashes, history>>

Never == -1
Horizon == 1 + (IF SessionDuration > BlockDuration THEN SessionDuration ELSE BlockDuration)
Age == 0 .. Horizon
Older(age) == IF age \in {Never, Horizon} THEN age ELSE age + 1

UnlockViews == {"lock", "submit"}
Views == UnlockViews \cup {"verify"}
Closed == [up |-> "closed", enabled |-> TRUE, timers |-> {}]
Idle == [step |-> "idle", at |-> "none", since |-> 0, gap |-> Never]

Registered == user.password /= NoPassword

\* Faulty variant: one attempt too many.
BlockedLate(g) ==
    /\ g.denied /= Never
    /\ g.failed > MaxFailedAttempts
    /\ g.denied < BlockDuration

\* Gatekeeper.isAccessPossible, negated.
Blocked(g) ==
    /\ g.denied /= Never
    /\ g.failed >= MaxFailedAttempts
    /\ g.denied < BlockDuration

\* Session.isActiveAt: both ends of the period belong to it.
IsActive(session) == session /= Never /\ session <= SessionDuration

\* IdentityService.isUserAuthenticated with Gatekeeper.hasAccess: the user row
\* names the gatekeeper's session, and that session is active.
Authenticated == Registered /\ user.attached /\ IsActive(gatekeeper.session)

\* startCountdownIfNeeded: every call starts a timer of its own.
CountedDown(v, g) ==
    IF Blocked(g) THEN [v EXCEPT !.enabled = FALSE, !.timers = @ \cup {BlockDuration}] ELSE v

\* viewDidLoad of a view; "verify" has nothing to do once it appears.
Opened(up) == CountedDown([Closed EXCEPT !.up = up], gatekeeper)

Awake == app = "foreground" /\ call = Idle
ContentOnTop == Awake /\ root = "content" /\ view["submit"].up = "closed"

\* The view the user is looking at.
Present(at) ==
    /\ Awake
    /\ view[at].up /= "closed"
    /\ CASE at = "lock"   -> root = "unlock"
         [] at = "submit" -> root = "content"
         [] at = "verify" -> ContentOnTop /\ ~newPassword

InputOpen(at) ==
    /\ Present(at)
    /\ view[at].up = "shown"
    /\ view[at].enabled \/ at = "verify"   \* its Next button is never disabled

-----------------------------------------------------------------------------
\* Outcomes of a check.  'age' is how long ago its time was read.

\* Gatekeeper.allowAccess and the first save: a new session, which the user
\* row does not name yet.
AllowAccess(age) ==
    /\ gatekeeper' = [session |-> age, failed |-> 0, denied |-> Never]
    /\ user' = [user EXCEPT !.attached = FALSE]
    /\ verified' = 0
    /\ owed' = FALSE
    /\ fails' = 0
    /\ wrong' = 0
    /\ lastFail' = Never
    /\ gap' = Never

\* Faulty variant: the session of an earlier check survives.
DenyAccessKeepsSession(age, sinceLast) ==
    /\ gatekeeper.failed < MaxFailures
    /\ gatekeeper' = [gatekeeper EXCEPT !.failed = @ + 1, !.denied = age]
    /\ verified' = Never
    /\ fails' = fails + 1
    /\ lastFail' = age
    /\ gap' = IF fails >= MaxFailedAttempts THEN sinceLast ELSE Never
    /\ UNCHANGED <<user, owed>>

\* Gatekeeper.denyAccess and its save.
DenyAccess(age, sinceLast) ==
    /\ gatekeeper.failed < MaxFailures
    /\ gatekeeper' = [session |-> Never, failed |-> gatekeeper.failed + 1, denied |-> age]
    /\ verified' = Never
    /\ fails' = fails + 1
    /\ lastFail' = age
    /\ gap' = IF fails >= MaxFailedAttempts THEN sinceLast ELSE Never
    /\ UNCHANGED <<user, owed>>

Attaching(at) == [Idle EXCEPT !.step = "attach", !.at = at]

-----------------------------------------------------------------------------
Init ==
    /\ user = [password |-> NoPassword, attached |-> FALSE]
    /\ gatekeeper = [session |-> Never, failed |-> 0, denied |-> Never]
    /\ app = "down"
    /\ root = "content"
    /\ view = [v \in Views |-> Closed]
    /\ newPassword = FALSE
    /\ call = Idle
    /\ out = "none"
    /\ crashes = 0
    /\ verified = Never
    /\ owed = FALSE
    /\ fails = 0
    /\ wrong = 0
    /\ lastFail = Never
    /\ gap = Never

\* MainFlowCoordinator.setUp: a registered user starts behind the unlock screen.
Launch ==
    /\ app = "down"
    /\ app' = "foreground"
    /\ root' = IF Registered THEN "unlock" ELSE "content"
    /\ view' = [view EXCEPT !["lock"] = IF Registered THEN Opened("loaded") ELSE Closed]
    /\ owed' = Registered
    /\ out' = "none"
    /\ UNCHANGED <<rows, newPassword, call, crashes, verified, fails, wrong, lastFail, gap>>

\* appEnteredBackground dismisses alerts only.
EnterBackground ==
    /\ Awake
    /\ app' = "background"
    /\ out' = "none"
    /\ UNCHANGED <<rows, root, view, newPassword, call, crashes, history>>

\* Faulty variant: a session that has run out still counts.
ShouldLockWithoutSession ==
    root /= "unlock" /\ Registered /\ ~(user.attached /\ gatekeeper.session /= Never)

\* shouldLockWhenAppActive, and the unlock screen is not up already.
ShouldLock == root /= "unlock" /\ Registered /\ ~Authenticated

\* appEntersForeground.  A check is owed when none has succeeded within a session's time.
EnterForeground ==
    /\ app = "background"
    /\ app' = "foreground"
    /\ IF ShouldLock
         THEN /\ root' = "unlock"
              /\ view' = [view EXCEPT !["lock"] = Opened("loaded")]
         ELSE UNCHANGED <<root, view>>
    /\ owed' = (owed \/ (Registered /\ (verified = Never \/ verified > SessionDuration)))
    /\ out' = "none"
    /\ UNCHANGED <<rows, newPassword, call, crashes, verified, fails, wrong, lastFail, gap>>

\* The process ends: what is on screen and the call are lost, the rows stay.
Crash ==
    /\ app /= "down"
    /\ crashes < MaxCrashes
    /\ crashes' = crashes + 1
    /\ app' = "down"
    /\ root' = "content"
    /\ view' = [v \in Views |-> Closed]
    /\ newPassword' = FALSE
    /\ call' = Idle
    /\ out' = "none"
    /\ UNCHANGED <<rows, history>>

-----------------------------------------------------------------------------
\* authenticate(.password), called when the field returns.

RefusePassword(at) ==
    /\ InputOpen(at)
    /\ Blocked(gatekeeper)
    /\ view' = [view EXCEPT ![at] = CountedDown(@, gatekeeper)]
    /\ out' = "none"
    /\ UNCHANGED <<rows, app, root, newPassword, call, crashes, history>>

AcceptPassword(at) ==
    /\ InputOpen(at)
    /\ ~Blocked(gatekeeper)
    /\ AllowAccess(0)
    /\ call' = Attaching(at)
    /\ out' = "none"
    /\ UNCHANGED <<screens, crashes>>

RejectPassword(at) ==
    /\ InputOpen(at)
    /\ ~Blocked(gatekeeper)
    /\ DenyAccess(0, lastFail)
    /\ wrong' = wrong + 1
    /\ view' = [view EXCEPT ![at] = CountedDown(@, gatekeeper')]
    /\ out' = "none"
    /\ UNCHANGED <<app, root, newPassword, call, crashes>>

EnterPassword(at, password) ==
    \/ RefusePassword(at)
    \/ password = user.password /\ AcceptPassword(at)
    \/ password /= user.password /\ RejectPassword(at)

\* viewDidAppear with access blocked or biometry not available.
Appear(at) ==
    /\ Present(at)
    /\ view[at].up = "loaded"
    /\ view' = [view EXCEPT ![at].up = "shown"]
    /\ out' = "none"
    /\ UNCHANGED <<rows, app, root, newPassword, call, crashes, history>>

\* auhtenticateWithBiometry, from viewDidAppear or the button: the time is
\* read, then the main thread waits for the prompt.
BeginBiometry(at) ==
    /\ Present(at)
    /\ view[at].up = "loaded" \/ view[at].enabled
    /\ ~Blocked(gatekeeper)
    /\ gatekeeper.failed < MaxFailures
    /\ view' = [view EXCEPT ![at].up = "shown"]
    /\ call' = [step |-> "prompt", at |-> at, since |-> 0, gap |-> lastFail]
    /\ out' = "none"
    /\ UNCHANGED <<rows, app, root, newPassword, crashes, history>>

AcceptBiometry ==
    /\ call.step = "prompt"
    /\ AllowAccess(call.since)
    /\ call' = Attaching(call.at)
    /\ out' = "none"
    /\ UNCHANGED <<screens, crashes>>

\* A prompt that is cancelled counts as a failed check; no countdown starts.
RejectBiometry ==
    /\ call.step = "prompt"
    /\ DenyAccess(call.since, call.gap)
    /\ call' = Idle
    /\ out' = "none"
    /\ UNCHANGED <<screens, crashes, wrong>>

\* The views that the caller of a successful check takes down.
Dismissed(at) ==
    CASE at \in UnlockViews -> {at}
      [] at = "change"     -> {"verify"}
      [] OTHER             -> {}

\* User.attachSession with the second save, and what the caller does on success.
Attach ==
    /\ call.step = "attach"
    /\ user' = [user EXCEPT !.attached = TRUE]
    /\ call' = Idle
    /\ root' = IF call.at = "lock" THEN "content" ELSE root
    /\ view' = [v \in Views |-> IF v \in Dismissed(call.at) THEN Closed ELSE view[v]]
    /\ newPassword' = CASE call.at = "verify" -> TRUE
                        [] call.at = "change" -> FALSE
                        [] OTHER -> newPassword
    /\ out' = IF call.at = "submit" THEN "submitted" ELSE "none"
    /\ UNCHANGED <<gatekeeper, app, crashes, history>>

-----------------------------------------------------------------------------
\* IdentityService.registerUser and updatePrimaryUserPassword: the new user
\* object carries no session.  The caller signs in with the new password next.
SavePassword(flow, password) ==
    /\ user' = [password |-> password, attached |-> FALSE]
    /\ call' = [Idle EXCEPT !.step = "signIn", !.at = flow]
    /\ out' = "none"
    /\ UNCHANGED <<gatekeeper, screens, crashes, history>>

Register(password) == ContentOnTop /\ ~Registered /\ SavePassword("register", password)

SetNewPassword(password) == ContentOnTop /\ newPassword /\ SavePassword("change", password)

\* Authenticator: the result of this check is dropped.
SignIn ==
    /\ call.step = "signIn"
    /\ out' = "none"
    /\ IF Blocked(gatekeeper)
         THEN /\ call' = Idle
              /\ view' = [view EXCEPT !["verify"] = Closed]
              /\ newPassword' = FALSE
              /\ UNCHANGED <<rows, history>>
         ELSE /\ AllowAccess(0)
              /\ call' = Attaching(call.at)
              /\ UNCHANGED <<view, newPassword>>
    /\ UNCHANGED <<app, root, crashes>>

OpenChangePassword ==
    /\ ContentOnTop
    /\ Registered
    /\ view["verify"].up = "closed"
    /\ view' = [view EXCEPT !["verify"] = Opened("shown")]
    /\ out' = "none"
    /\ UNCHANGED <<rows, app, root, newPassword, call, crashes, history>>

\* Back: from the new password to "verify", from there out of the flow.
LeaveChangePassword ==
    /\ ContentOnTop
    /\ view["verify"].up /= "closed"
    /\ newPassword' = FALSE
    /\ view' = IF newPassword THEN view ELSE [view EXCEPT !["verify"] = Closed]
    /\ out' = "none"
    /\ UNCHANGED <<rows, app, root, call, crashes, history>>

\* Faulty variant: being past the lock is taken for being authenticated.
SubmitUnasked ==
    /\ ContentOnTop
    /\ Registered
    /\ out' = "submitted"
    /\ UNCHANGED <<rows, screens, call, crashes, history>>

\* TransactionSubmissionHandler.submitTransaction.
Submit ==
    /\ ContentOnTop
    /\ Registered
    /\ IF Authenticated
         THEN out' = "submitted" /\ UNCHANGED view
         ELSE out' = "none" /\ view' = [view EXCEPT !["submit"] = Opened("loaded")]
    /\ UNCHANGED <<rows, app, root, newPassword, call, crashes, history>>

Cancel ==
    /\ Present("submit")
    /\ view["submit"].up = "shown"
    /\ view' = [view EXCEPT !["submit"] = Closed]
    /\ out' = "none"
    /\ UNCHANGED <<rows, app, root, newPassword, call, crashes, history>>

-----------------------------------------------------------------------------
\* Faulty variants: a timer that is not invalidated at zero, and one
\* whose end does not open the field.
CountedForever(v) ==
    [v EXCEPT !.timers = {t - 1 : t \in v.timers}, !.enabled = @ \/ 1 \in v.timers]
CountedInVain(v) ==
    [v EXCEPT !.timers = {t - 1 : t \in v.timers \ {1}}]

\* SystemClockService.countdown: one tick of every timer; the last one opens the field.
Counted(v) ==
    [v EXCEPT !.timers = {t - 1 : t \in v.timers \ {1}},
              !.enabled = @ \/ 1 \in v.timers]

\* Time passes, though not between the two saves of a check.  Timers fire on
\* the main run loop of an app in the foreground.
Tick ==
    /\ call.step /= "attach"
    /\ gatekeeper' = [gatekeeper EXCEPT !.session = Older(@), !.denied = Older(@)]
    /\ call' = IF call.step = "prompt" THEN [call EXCEPT !.since = Older(@)] ELSE call
    /\ view' = IF Awake THEN [v \in Views |-> Counted(view[v])] ELSE view
    /\ verified' = Older(verified)
    /\ lastFail' = Older(lastFail)
    /\ out' = "none"
    /\ UNCHANGED <<user, app, root, newPassword, crashes, owed, fails, wrong, gap>>

-----------------------------------------------------------------------------
Next ==
    \/ Launch \/ EnterBackground \/ EnterForeground \/ Crash
    \/ \E at \in Views, password \in Passwords : EnterPassword(at, password)
    \/ \E at \in UnlockViews : Appear(at) \/ BeginBiometry(at)
    \/ AcceptBiometry \/ RejectBiometry \/ Attach
    \/ \E password \in Passwords : Register(password) \/ SetNewPassword(password)
    \/ SignIn \/ OpenChangePassword \/ LeaveChangePassword
    \/ Submit \/ Cancel
    \/ Tick

Spec == Init /\ [][Next]_vars

\* The system delivers its callbacks, the prompt is answered, the clock runs,
\* and the user comes back and keeps typing the right password.
Fairness ==
    /\ WF_vars(Launch) /\ WF_vars(EnterForeground)
    /\ SF_vars(Appear("lock"))
    /\ WF_vars(AcceptBiometry \/ RejectBiometry) /\ WF_vars(Attach) /\ WF_vars(SignIn)
    /\ SF_vars(Awake /\ Tick)
    /\ SF_vars(AcceptPassword("lock"))

FairSpec == Spec /\ Fairness

-----------------------------------------------------------------------------
UserRow == [password : Passwords \cup {NoPassword}, attached : BOOLEAN]
GatekeeperRow ==
    [session : Age \cup {Never}, failed : 0 .. MaxFailures, denied : Age \cup {Never}]
CallState ==
    [step : {"idle", "prompt", "attach", "signIn"},
     at : Views \cup {"none", "register", "change"},
     since : Age, gap : Age \cup {Never}]
ViewState ==
    [up : {"closed", "loaded", "shown"}, enabled : BOOLEAN, timers : SUBSET (1 .. BlockDuration)]

\* Type invariant: rows, screens, call and history stay in their domains.
TypeOK ==
    /\ user \in UserRow
    /\ gatekeeper \in GatekeeperRow
    /\ app \in {"down", "foreground", "background"}
    /\ root \in {"unlock", "content"}
    /\ view \in [Views -> ViewState]
    /\ newPassword \in BOOLEAN
    /\ call \in CallState
    /\ out \in {"none", "submitted"}
    /\ crashes \in 0 .. MaxCrashes
    /\ verified \in Age \cup {Never}
    /\ owed \in BOOLEAN
    /\ fails \in 0 .. MaxFailures
    /\ wrong \in 0 .. MaxFailures
    /\ lastFail \in Age \cup {Never}
    /\ gap \in Age \cup {Never}

Fresh == verified /= Never /\ verified <= SessionDuration

\* isUserAuthenticated is true only if the last check of the user's identity
\* succeeded and is no older than a session: through a failed check on another
\* screen, a crash between the two saves, a change of the password, and a
\* prompt that stayed up for longer than a session.
AuthenticatedIsFresh == Authenticated => Fresh

\* A submission goes through only with a fresh check behind it, whether
\* submitTransaction found a session or its modal asked for one.
SubmittedIsFresh == out = "submitted" => Fresh

\* Content is never on screen while a check is owed: after a start with a
\* registered user, and after a return to the foreground later than a
\* session, the content comes back only through a check that succeeded.
ContentIsCleared == app = "foreground" /\ root = "content" => ~owed

\* Once the maximum of failed checks is reached, the next one begins no
\* sooner than a block period after the last: also over a restart of the app,
\* over several screens with fields and countdowns of their own, and with
\* checks that take the time the prompt is up.
FailuresAreSpaced == gap /= Never => gap >= BlockDuration

\* A user who is locked out and keeps typing the right password gets in:
\* block periods, countdowns that only run in the foreground, wrong attempts
\* and cancelled prompts in between delay this and cannot prevent it.
LockOpens == root = "unlock" ~> root = "content" /\ app = "foreground"

\* "True if authentication is blocked due to too many wrong password attempts."
BlockedByPasswords == Blocked(gatekeeper) => wrong >= MaxFailedAttempts

=============================================================================
