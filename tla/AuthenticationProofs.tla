------------------------ MODULE AuthenticationProofs ------------------------
(***************************************************************************)
(* Proofs about Authentication, for every policy and every bound.          *)
(***************************************************************************)
EXTENDS Authentication, TLAPS

-----------------------------------------------------------------------------
(* What the helpers return *)

\* Horizon lies past both durations of the policy.
LEMMA HorizonIsPast ==
  /\ Horizon \in Nat
  /\ Horizon > SessionDuration
  /\ Horizon > BlockDuration
BY PolicyAssumption DEF Horizon

\* An age that grows stays an age, and a moment that never was stays so.
LEMMA OlderType ==
  ASSUME NEW age \in Age \cup {Never}
  PROVE  /\ Older(age) \in Age \cup {Never}
         /\ Older(age) = Never <=> age = Never
         /\ age \in Age => Older(age) \in Age
BY HorizonIsPast DEF Older, Age, Never

\* Of two moments, the older one stays the older one.
LEMMA OlderMonotone ==
  ASSUME NEW a \in Age, NEW b \in Age, a <= b
  PROVE  Older(a) <= Older(b)
BY HorizonIsPast DEF Older, Age, Never

\* A blocked gatekeeper blocks for at least a tick, so a countdown has a
\* value a timer can hold.
LEMMA CountedDownType ==
  ASSUME NEW v \in ViewState,
         NEW g \in GatekeeperRow
  PROVE  CountedDown(v, g) \in ViewState
<1>1. CASE Blocked(g)
  <2>1. BlockDuration \in 1 .. BlockDuration
    BY <1>1, PolicyAssumption, HorizonIsPast DEF Blocked, GatekeeperRow, Age, Never
  <2>2. v.timers \cup {BlockDuration} \in SUBSET (1 .. BlockDuration)
    BY <2>1 DEF ViewState
  <2>3. [v EXCEPT !.enabled = FALSE, !.timers = @ \cup {BlockDuration}] \in ViewState
    BY <2>2 DEF ViewState
  <2>4. QED
    BY <1>1, <2>3 DEF CountedDown
<1>2. CASE ~Blocked(g)
  BY <1>2 DEF CountedDown
<1>3. QED
  BY <1>1, <1>2

\* A closed view is a view.
LEMMA ClosedType == Closed \in ViewState
BY DEF Closed, ViewState

\* A view that loads is a view.
LEMMA OpenedType ==
  ASSUME TypeOK, NEW up \in {"loaded", "shown"}
  PROVE  Opened(up) \in ViewState
<1>1. [Closed EXCEPT !.up = up] \in ViewState
  BY DEF Closed, ViewState
<1>2. QED
  BY <1>1, CountedDownType DEF Opened, TypeOK

\* A tick leaves the timers of a view in their range.
LEMMA CountedType ==
  ASSUME NEW v \in ViewState
  PROVE  Counted(v) \in ViewState
<1>1. {t - 1 : t \in v.timers \ {1}} \in SUBSET (1 .. BlockDuration)
  BY PolicyAssumption DEF ViewState
<1>2. (v.enabled \/ 1 \in v.timers) \in BOOLEAN
  OBVIOUS
<1>3. QED
  BY <1>1, <1>2 DEF Counted, ViewState

\* An idle thread is in no call.
LEMMA IdleType ==
  Idle \in CallState
BY HorizonIsPast DEF Idle, Age, CallState

\* A user row with a session attached or not is a user row.
LEMMA UserType ==
  ASSUME TypeOK, NEW b \in BOOLEAN
  PROVE  [user EXCEPT !.attached = b] \in UserRow
BY DEF TypeOK, UserRow

\* A successful check writes well-typed rows and history.
LEMMA AllowAccessType ==
  ASSUME TypeOK, NEW age \in Age, AllowAccess(age)
  PROVE  /\ gatekeeper' \in GatekeeperRow
         /\ user' \in UserRow
         /\ owed' \in BOOLEAN
         /\ verified' \in Age \cup {Never}
         /\ fails' \in 0 .. MaxFailures
         /\ wrong' \in 0 .. MaxFailures
         /\ lastFail' \in Age \cup {Never}
         /\ gap' \in Age \cup {Never}
<1>1. user' \in UserRow
  BY UserType DEF AllowAccess
<1>2. owed' \in BOOLEAN
  BY Zenon DEF AllowAccess
<1>3. QED
  BY <1>1, <1>2, PolicyAssumption, HorizonIsPast DEF AllowAccess, Age, Never, GatekeeperRow

\* The call that is left after a successful check.
LEMMA AttachingType ==
  ASSUME NEW at \in Views \cup {"none", "register", "change"}
  PROVE  /\ Attaching(at) \in CallState
         /\ Attaching(at).step = "attach"
BY IdleType DEF Attaching, CallState

-----------------------------------------------------------------------------
(* Steps of a check *)

\* The history agrees with the gatekeeper's row about the failed checks.
FailInv ==
  /\ fails = gatekeeper.failed
  /\ wrong <= fails
  /\ lastFail = gatekeeper.denied
  /\ fails > 0 => lastFail /= Never

\* A gatekeeper with an active session saw a success no later than the
\* session began, and an attached session was only just opened.
SessionInv ==
  /\ gatekeeper.session /= Never => verified /= Never /\ verified <= gatekeeper.session
  /\ call.step = "attach" => verified = 0 /\ ~owed

\* The main thread is in a call only while the app is in the foreground, and
\* content is cleared also while the app is in the background.
ScreenInv ==
  /\ app /= "foreground" => call = Idle
  /\ app /= "down" /\ root = "content" => ~owed

\* A prompt that is up was opened when the block period was over.
SpacingInv ==
  /\ call.step = "prompt" /\ fails >= MaxFailedAttempts => call.gap >= BlockDuration
  /\ FailuresAreSpaced

\* The inductive invariant.
IInv == TypeOK /\ FailInv /\ SessionInv /\ ScreenInv /\ SpacingInv /\ SubmittedIsFresh

\* A failed check writes well-typed rows and history.
LEMMA DenyAccessType ==
  ASSUME TypeOK, FailInv, NEW age \in Age, NEW since \in Age \cup {Never},
         DenyAccess(age, since)
  PROVE  /\ gatekeeper' \in GatekeeperRow
         /\ user' \in UserRow
         /\ owed' \in BOOLEAN
         /\ verified' \in Age \cup {Never}
         /\ fails' \in 0 .. MaxFailures
         /\ wrong + 1 \in 0 .. MaxFailures
         /\ lastFail' \in Age \cup {Never}
         /\ gap' \in Age \cup {Never}
<1>1. user' \in UserRow
  BY DEF DenyAccess, TypeOK
<1>2. owed' \in BOOLEAN
  BY Zenon DEF DenyAccess, TypeOK
<1>3. QED
  BY <1>1, <1>2, PolicyAssumption DEF DenyAccess, TypeOK, FailInv, Never, GatekeeperRow

-----------------------------------------------------------------------------
(* Every step keeps the invariant *)

\* Types.
LEMMA TypeStep ==
  ASSUME TypeOK, FailInv, [Next]_vars
  PROVE  TypeOK'
<1>1. CASE Launch
  <2>1. view' \in [Views -> ViewState]
    BY <1>1, OpenedType, ClosedType
    DEF Launch, TypeOK
  <2>2. owed' \in BOOLEAN
    BY <1>1, Zenon
    DEF Launch, Registered
  <2>3. QED
    BY <1>1, <2>1, <2>2
    DEF Launch, TypeOK, rows, screens, history
<1>2. CASE EnterBackground
  BY <1>2
  DEF EnterBackground, TypeOK, rows, screens, history
<1>3. CASE EnterForeground
  <2>1. view' \in [Views -> ViewState]
    BY <1>3, OpenedType
    DEF EnterForeground, TypeOK
  <2>2. root' \in {"unlock", "content"}
    BY <1>3
    DEF EnterForeground, TypeOK
  <2>3. owed' \in BOOLEAN
    BY <1>3, Zenon
    DEF EnterForeground
  <2>4. QED
    BY <1>3, <2>1, <2>2, <2>3
    DEF EnterForeground, TypeOK, rows, screens, history
<1>4. CASE Crash
  <2>1. view' \in [Views -> ViewState]
    BY <1>4, ClosedType
    DEF Crash
  <2>2. call' \in CallState
    BY <1>4, IdleType
    DEF Crash
  <2>3. newPassword' \in BOOLEAN
    BY <1>4, Zenon
    DEF Crash
  <2>4. QED
    BY <1>4, <2>1, <2>2, <2>3, PolicyAssumption
    DEF Crash, TypeOK, rows, screens, history
<1>5. ASSUME NEW at \in Views, RefusePassword(at)
       PROVE  TypeOK'
  <2>1. view' \in [Views -> ViewState]
    BY <1>5, CountedDownType
    DEF RefusePassword, TypeOK
  <2>2. QED
    BY <1>5, <2>1
    DEF RefusePassword, TypeOK, rows, screens, history
<1>6. ASSUME NEW at \in Views, AcceptPassword(at)
       PROVE  TypeOK'
  <2>1. 0 \in Age
    BY <1>6, HorizonIsPast
    DEF AcceptPassword, Age
  <2>2. call' \in CallState
    BY <1>6, AttachingType
    DEF AcceptPassword
  <2>3. QED
    BY <1>6, <2>1, <2>2, AllowAccessType
    DEF AcceptPassword, TypeOK, rows, screens, history
<1>7. ASSUME NEW at \in Views, RejectPassword(at)
       PROVE  TypeOK'
  <2>1. 0 \in Age
    BY <1>7, HorizonIsPast
    DEF RejectPassword, Age
  <2>2. gatekeeper' \in GatekeeperRow
    BY <1>7, <2>1, DenyAccessType
    DEF RejectPassword, TypeOK
  <2>3. view' \in [Views -> ViewState]
    BY <1>7, <2>2, CountedDownType
    DEF RejectPassword, TypeOK
  <2>4. QED
    BY <1>7, <2>1, <2>2, <2>3, DenyAccessType
    DEF RejectPassword, TypeOK, rows, screens, history
<1>8. ASSUME NEW at \in UnlockViews, Appear(at)
       PROVE  TypeOK'
  <2>1. view' \in [Views -> ViewState]
    BY <1>8
    DEF Appear, TypeOK, ViewState
  <2>2. QED
    BY <1>8, <2>1
    DEF Appear, TypeOK, rows, screens, history
<1>9. ASSUME NEW at \in UnlockViews, BeginBiometry(at)
       PROVE  TypeOK'
  <2>1. view' \in [Views -> ViewState]
    BY <1>9
    DEF BeginBiometry, TypeOK, ViewState
  <2>2. call' \in CallState
    BY <1>9, HorizonIsPast
    DEF BeginBiometry, TypeOK, CallState, UnlockViews, Views, Age
  <2>3. QED
    BY <1>9, <2>1, <2>2
    DEF BeginBiometry, TypeOK, rows, screens, history
<1>10. CASE AcceptBiometry
  <2>1. call.since \in Age
    BY <1>10
    DEF AcceptBiometry, TypeOK, CallState
  <2>2. call' \in CallState
    BY <1>10, AttachingType
    DEF AcceptBiometry, TypeOK, CallState
  <2>3. QED
    BY <1>10, <2>1, <2>2, AllowAccessType
    DEF AcceptBiometry, TypeOK, rows, screens, history
<1>11. CASE RejectBiometry
  <2>1. call.since \in Age /\ call.gap \in Age \cup {Never}
    BY <1>11
    DEF RejectBiometry, TypeOK, CallState
  <2>2. call' \in CallState
    BY <1>11, IdleType
    DEF RejectBiometry
  <2>3. UNCHANGED wrong
    BY <1>11
    DEF RejectBiometry
  <2>4. QED
    BY <1>11, <2>1, <2>2, <2>3, DenyAccessType
    DEF RejectBiometry, TypeOK, rows, screens, history
<1>12. CASE Attach
  <2>1. user' \in UserRow
    BY <1>12, UserType
    DEF Attach
  <2>2. view' \in [Views -> ViewState]
    BY <1>12, ClosedType
    DEF Attach, TypeOK
  <2>3. call' \in CallState
    BY <1>12, IdleType
    DEF Attach
  <2>4. out' \in {"none", "submitted"}
    BY <1>12
    DEF Attach
  <2>5. root' \in {"unlock", "content"}
    BY <1>12
    DEF Attach, TypeOK
  <2>6. newPassword' \in BOOLEAN
    BY <1>12, Zenon
    DEF Attach, TypeOK
  <2>7. QED
    BY <1>12, <2>1, <2>2, <2>3, <2>4, <2>5, <2>6
    DEF Attach, TypeOK, rows, screens, history
<1>13. ASSUME NEW password \in Passwords, Register(password)
        PROVE  TypeOK'
  <2>1. user' \in UserRow
    BY <1>13
    DEF Register, SavePassword, UserRow
  <2>2. call' \in CallState
    BY <1>13, IdleType
    DEF Register, SavePassword, CallState
  <2>3. QED
    BY <1>13, <2>1, <2>2
    DEF Register, SavePassword, TypeOK, rows, screens, history
<1>14. ASSUME NEW password \in Passwords, SetNewPassword(password)
        PROVE  TypeOK'
  <2>1. user' \in UserRow
    BY <1>14
    DEF SetNewPassword, SavePassword, UserRow
  <2>2. call' \in CallState
    BY <1>14, IdleType
    DEF SetNewPassword, SavePassword, CallState
  <2>3. QED
    BY <1>14, <2>1, <2>2
    DEF SetNewPassword, SavePassword, TypeOK, rows, screens, history
<1>15. CASE SignIn
  <2>1. CASE Blocked(gatekeeper)
    <3>1. view' \in [Views -> ViewState]
      BY <1>15, <2>1, ClosedType DEF SignIn, TypeOK
    <3>2. call' \in CallState
      BY <1>15, <2>1, IdleType DEF SignIn
    <3>3. newPassword' \in BOOLEAN
      BY <1>15, <2>1, Zenon DEF SignIn
    <3>4. QED
      BY <1>15, <2>1, <3>1, <3>2, <3>3 DEF SignIn, TypeOK, rows, history
  <2>2. CASE ~Blocked(gatekeeper)
    <3>1. 0 \in Age
      BY HorizonIsPast DEF Age
    <3>2. call.at \in Views \cup {"none", "register", "change"}
      BY DEF TypeOK, CallState
    <3>3. call' \in CallState
      BY <1>15, <2>2, <3>2, AttachingType DEF SignIn
    <3>4. AllowAccess(0)
      BY <1>15, <2>2 DEF SignIn
    <3>5. QED
      BY <1>15, <2>2, <3>1, <3>3, <3>4, AllowAccessType DEF SignIn, TypeOK
  <2>3. QED
    BY <2>1, <2>2
<1>16. CASE OpenChangePassword
  <2>1. view' \in [Views -> ViewState]
    BY <1>16, OpenedType
    DEF OpenChangePassword, TypeOK
  <2>2. QED
    BY <1>16, <2>1
    DEF OpenChangePassword, TypeOK, rows, screens, history
<1>17. CASE LeaveChangePassword
  <2>1. view' \in [Views -> ViewState]
    BY <1>17, ClosedType
    DEF LeaveChangePassword, TypeOK
  <2>2. newPassword' \in BOOLEAN
    BY <1>17, Zenon
    DEF LeaveChangePassword
  <2>3. QED
    BY <1>17, <2>1, <2>2
    DEF LeaveChangePassword, TypeOK, rows, screens, history
<1>18. CASE Submit
  <2>1. view' \in [Views -> ViewState]
    BY <1>18, OpenedType
    DEF Submit, TypeOK
  <2>2. QED
    BY <1>18, <2>1
    DEF Submit, TypeOK, rows, screens, history
<1>19. CASE Cancel
  <2>1. view' \in [Views -> ViewState]
    BY <1>19, ClosedType
    DEF Cancel, TypeOK
  <2>2. QED
    BY <1>19, <2>1
    DEF Cancel, TypeOK, rows, screens, history
<1>20. CASE Tick
  <2>1. gatekeeper' \in GatekeeperRow
    BY <1>20, OlderType
    DEF Tick, TypeOK, GatekeeperRow
  <2>2. call' \in CallState
    BY <1>20, OlderType
    DEF Tick, TypeOK, CallState
  <2>3. view' \in [Views -> ViewState]
    BY <1>20, CountedType
    DEF Tick, TypeOK
  <2>4. verified' \in Age \cup {Never} /\ lastFail' \in Age \cup {Never}
    BY <1>20, OlderType
    DEF Tick, TypeOK
  <2>5. QED
    BY <1>20, <2>1, <2>2, <2>3, <2>4
    DEF Tick, TypeOK, rows, screens, history
<1>21. CASE UNCHANGED vars
  BY <1>21
  DEF TypeOK, rows, screens, history, vars
<1>22. QED
  BY <1>1, <1>2, <1>3, <1>4, <1>5, <1>6, <1>7, <1>8, <1>9, <1>10, <1>11,
        <1>12, <1>13, <1>14, <1>15, <1>16, <1>17, <1>18, <1>19, <1>20, <1>21
  DEF Next, EnterPassword

\* Failed checks: the rows are saved in the step that counts them.
LEMMA FailStep ==
  ASSUME TypeOK, FailInv, [Next]_vars
  PROVE  FailInv'
<1>1. CASE Launch
  BY <1>1
  DEF Launch, FailInv, rows, history
<1>2. CASE EnterBackground
  BY <1>2
  DEF EnterBackground, FailInv, rows, history
<1>3. CASE EnterForeground
  BY <1>3
  DEF EnterForeground, FailInv, rows, history
<1>4. CASE Crash
  BY <1>4
  DEF Crash, FailInv, rows, history
<1>5. ASSUME NEW at \in Views, RefusePassword(at)
       PROVE  FailInv'
  BY <1>5
  DEF RefusePassword, FailInv, rows, history
<1>6. ASSUME NEW at \in Views, AcceptPassword(at)
       PROVE  FailInv'
  BY <1>6
  DEF AcceptPassword, AllowAccess, FailInv
<1>7. ASSUME NEW at \in Views, RejectPassword(at)
       PROVE  FailInv'
  BY <1>7, PolicyAssumption
  DEF RejectPassword, DenyAccess, FailInv, TypeOK, GatekeeperRow, CallState,
        Age, Never
<1>8. ASSUME NEW at \in UnlockViews, Appear(at)
       PROVE  FailInv'
  BY <1>8
  DEF Appear, FailInv, rows, history
<1>9. ASSUME NEW at \in UnlockViews, BeginBiometry(at)
       PROVE  FailInv'
  BY <1>9
  DEF BeginBiometry, FailInv, rows, history
<1>10. CASE AcceptBiometry
  BY <1>10
  DEF AcceptBiometry, AllowAccess, FailInv
<1>11. CASE RejectBiometry
  BY <1>11, PolicyAssumption
  DEF RejectBiometry, DenyAccess, FailInv, TypeOK, GatekeeperRow, CallState,
        Age, Never
<1>12. CASE Attach
  BY <1>12
  DEF Attach, FailInv, history
<1>13. ASSUME NEW password \in Passwords, Register(password)
        PROVE  FailInv'
  BY <1>13
  DEF Register, SavePassword, FailInv, history
<1>14. ASSUME NEW password \in Passwords, SetNewPassword(password)
        PROVE  FailInv'
  BY <1>14
  DEF SetNewPassword, SavePassword, FailInv, history
<1>15. CASE SignIn
  BY <1>15
  DEF SignIn, AllowAccess, FailInv, rows, history
<1>16. CASE OpenChangePassword
  BY <1>16
  DEF OpenChangePassword, FailInv, rows, history
<1>17. CASE LeaveChangePassword
  BY <1>17
  DEF LeaveChangePassword, FailInv, rows, history
<1>18. CASE Submit
  BY <1>18
  DEF Submit, FailInv, rows, history
<1>19. CASE Cancel
  BY <1>19
  DEF Cancel, FailInv, rows, history
<1>20. CASE Tick
  BY <1>20, OlderType
  DEF Tick, FailInv, TypeOK, GatekeeperRow
<1>21. CASE UNCHANGED vars
  BY <1>21
  DEF FailInv, rows, history, vars
<1>22. QED
  BY <1>1, <1>2, <1>3, <1>4, <1>5, <1>6, <1>7, <1>8, <1>9, <1>10, <1>11,
        <1>12, <1>13, <1>14, <1>15, <1>16, <1>17, <1>18, <1>19, <1>20, <1>21
  DEF Next, EnterPassword

\* Sessions: time passes for a session and for the check behind it alike, a
\* failed check ends both, and nothing comes between the two saves of a success.
LEMMA SessionStep ==
  ASSUME TypeOK, SessionInv, ScreenInv, [Next]_vars
  PROVE  SessionInv'
<1>1. CASE Launch
  BY <1>1
  DEF Launch, SessionInv, ScreenInv, Idle, rows, history
<1>2. CASE EnterBackground
  BY <1>2
  DEF EnterBackground, SessionInv, rows, history
<1>3. CASE EnterForeground
  BY <1>3
  DEF EnterForeground, SessionInv, ScreenInv, Idle, rows, history
<1>4. CASE Crash
  BY <1>4
  DEF Crash, SessionInv, ScreenInv, Idle, rows, history
<1>5. ASSUME NEW at \in Views, RefusePassword(at)
       PROVE  SessionInv'
  BY <1>5
  DEF RefusePassword, SessionInv, rows, history
<1>6. ASSUME NEW at \in Views, AcceptPassword(at)
       PROVE  SessionInv'
  BY <1>6, HorizonIsPast
  DEF AcceptPassword, AllowAccess, SessionInv
<1>7. ASSUME NEW at \in Views, RejectPassword(at)
       PROVE  SessionInv'
  BY <1>7
  DEF RejectPassword, InputOpen, Present, Awake, Idle, DenyAccess, SessionInv
<1>8. ASSUME NEW at \in UnlockViews, Appear(at)
       PROVE  SessionInv'
  BY <1>8
  DEF Appear, SessionInv, rows, history
<1>9. ASSUME NEW at \in UnlockViews, BeginBiometry(at)
       PROVE  SessionInv'
  BY <1>9
  DEF BeginBiometry, SessionInv, rows, history
<1>10. CASE AcceptBiometry
  BY <1>10, HorizonIsPast
  DEF AcceptBiometry, AllowAccess, SessionInv, TypeOK, CallState, Age, Never
<1>11. CASE RejectBiometry
  BY <1>11
  DEF RejectBiometry, DenyAccess, SessionInv, Idle
<1>12. CASE Attach
  BY <1>12
  DEF Attach, SessionInv, history, Idle
<1>13. ASSUME NEW password \in Passwords, Register(password)
        PROVE  SessionInv'
  <2>1. call'.step = "signIn"
    BY <1>13, IdleType DEF Register, SavePassword, CallState
  <2>2. QED
    BY <1>13, <2>1 DEF Register, SavePassword, SessionInv, history
<1>14. ASSUME NEW password \in Passwords, SetNewPassword(password)
        PROVE  SessionInv'
  <2>1. call'.step = "signIn"
    BY <1>14, IdleType DEF SetNewPassword, SavePassword, CallState
  <2>2. QED
    BY <1>14, <2>1 DEF SetNewPassword, SavePassword, SessionInv, history
<1>15. CASE SignIn
  <2>1. CASE Blocked(gatekeeper)
    BY <1>15, <2>1 DEF SignIn, SessionInv, Idle, rows, history
  <2>2. CASE ~Blocked(gatekeeper)
    BY <1>15, <2>2 DEF SignIn, AllowAccess, SessionInv, Never
  <2>3. QED
    BY <2>1, <2>2
<1>16. CASE OpenChangePassword
  BY <1>16
  DEF OpenChangePassword, SessionInv, rows, history
<1>17. CASE LeaveChangePassword
  BY <1>17
  DEF LeaveChangePassword, SessionInv, rows, history
<1>18. CASE Submit
  BY <1>18
  DEF Submit, SessionInv, rows, history
<1>19. CASE Cancel
  BY <1>19
  DEF Cancel, SessionInv, rows, history
<1>20. CASE Tick
  <2>1. gatekeeper.session \in Age \cup {Never} /\ verified \in Age \cup {Never}
    BY DEF TypeOK, GatekeeperRow
  <2>2. gatekeeper'.session = Older(gatekeeper.session) /\ verified' = Older(verified)
    BY <1>20 DEF Tick, TypeOK, GatekeeperRow
  <2>3. ASSUME gatekeeper'.session /= Never
        PROVE  verified' /= Never /\ verified' <= gatekeeper'.session
    <3>1. gatekeeper.session /= Never
      BY <2>1, <2>2, <2>3, OlderType
    <3>2. verified /= Never /\ verified <= gatekeeper.session
      BY <3>1 DEF SessionInv
    <3>3. QED
      BY <2>1, <2>2, <3>1, <3>2, OlderType, OlderMonotone
  <2>4. call'.step /= "attach"
    BY <1>20 DEF Tick, TypeOK, CallState
  <2>5. QED
    BY <2>3, <2>4 DEF SessionInv
<1>21. CASE UNCHANGED vars
  BY <1>21
  DEF SessionInv, rows, history, vars
<1>22. QED
  BY <1>1, <1>2, <1>3, <1>4, <1>5, <1>6, <1>7, <1>8, <1>9, <1>10, <1>11,
        <1>12, <1>13, <1>14, <1>15, <1>16, <1>17, <1>18, <1>19, <1>20, <1>21
  DEF Next, EnterPassword

\* Screens: the content comes up with a session that is fresh, or by a check
\* that has just cleared what was owed.
LEMMA ScreenStep ==
  ASSUME TypeOK, SessionInv, ScreenInv, [Next]_vars
  PROVE  ScreenInv'
<1>1. CASE Launch
  BY <1>1
  DEF Launch, ScreenInv, Registered
<1>2. CASE EnterBackground
  BY <1>2
  DEF EnterBackground, Awake, ScreenInv, history
<1>3. CASE EnterForeground
  <2>1. CASE ShouldLock
    BY <1>3, <2>1 DEF EnterForeground, ScreenInv
  <2>2. CASE ~ShouldLock
    <3>1. root' = root
      BY <1>3, <2>2 DEF EnterForeground
    <3>2. ASSUME root = "content"
          PROVE  ~owed'
      <4>1. ~owed
        BY <1>3, <3>2 DEF EnterForeground, ScreenInv
      <4>2. ~Registered \/ Authenticated
        BY <2>2, <3>2 DEF ShouldLock
      <4>3. ASSUME Authenticated
            PROVE  ~(verified = Never \/ verified > SessionDuration)
        BY <4>3, PolicyAssumption
        DEF Authenticated, IsActive, SessionInv, TypeOK, GatekeeperRow, Age, Never
      <4>4. QED
        BY <1>3, <4>1, <4>2, <4>3 DEF EnterForeground
    <3>3. QED
      BY <1>3, <3>1, <3>2 DEF EnterForeground, ScreenInv
  <2>3. QED
    BY <2>1, <2>2
<1>4. CASE Crash
  BY <1>4
  DEF Crash, ScreenInv
<1>5. ASSUME NEW at \in Views, RefusePassword(at)
       PROVE  ScreenInv'
  BY <1>5
  DEF RefusePassword, InputOpen, Present, Awake, ScreenInv, history
<1>6. ASSUME NEW at \in Views, AcceptPassword(at)
       PROVE  ScreenInv'
  BY <1>6
  DEF AcceptPassword, InputOpen, Present, Awake, AllowAccess, ScreenInv,
        screens
<1>7. ASSUME NEW at \in Views, RejectPassword(at)
       PROVE  ScreenInv'
  BY <1>7
  DEF RejectPassword, InputOpen, Present, Awake, DenyAccess, ScreenInv
<1>8. ASSUME NEW at \in UnlockViews, Appear(at)
       PROVE  ScreenInv'
  BY <1>8
  DEF Appear, Present, Awake, ScreenInv, history
<1>9. ASSUME NEW at \in UnlockViews, BeginBiometry(at)
       PROVE  ScreenInv'
  BY <1>9
  DEF BeginBiometry, Present, Awake, ScreenInv, history
<1>10. CASE AcceptBiometry
  BY <1>10
  DEF AcceptBiometry, AllowAccess, ScreenInv, Idle, screens
<1>11. CASE RejectBiometry
  BY <1>11
  DEF RejectBiometry, DenyAccess, ScreenInv, Idle, screens
<1>12. CASE Attach
  BY <1>12
  DEF Attach, ScreenInv, SessionInv, Idle, history
<1>13. ASSUME NEW password \in Passwords, Register(password)
        PROVE  ScreenInv'
  BY <1>13
  DEF Register, SavePassword, ContentOnTop, Awake, ScreenInv, screens, history
<1>14. ASSUME NEW password \in Passwords, SetNewPassword(password)
        PROVE  ScreenInv'
  BY <1>14
  DEF SetNewPassword, SavePassword, ContentOnTop, Awake, ScreenInv, screens,
        history
<1>15. CASE SignIn
  BY <1>15
  DEF SignIn, AllowAccess, ScreenInv, Idle, history
<1>16. CASE OpenChangePassword
  BY <1>16
  DEF OpenChangePassword, ContentOnTop, Awake, ScreenInv, history
<1>17. CASE LeaveChangePassword
  BY <1>17
  DEF LeaveChangePassword, ContentOnTop, Awake, ScreenInv, history
<1>18. CASE Submit
  BY <1>18
  DEF Submit, ContentOnTop, Awake, ScreenInv, history
<1>19. CASE Cancel
  BY <1>19
  DEF Cancel, Present, Awake, ScreenInv, history
<1>20. CASE Tick
  BY <1>20
  DEF Tick, ScreenInv, Idle
<1>21. CASE UNCHANGED vars
  BY <1>21
  DEF ScreenInv, screens, history, vars
<1>22. QED
  BY <1>1, <1>2, <1>3, <1>4, <1>5, <1>6, <1>7, <1>8, <1>9, <1>10, <1>11,
        <1>12, <1>13, <1>14, <1>15, <1>16, <1>17, <1>18, <1>19, <1>20, <1>21
  DEF Next, EnterPassword

\* Spacing: a check that may begin with the maximum reached begins after the
\* block, and while its prompt is up no other check can fail.
LEMMA SpacingStep ==
  ASSUME TypeOK, FailInv, SpacingInv, [Next]_vars
  PROVE  SpacingInv'
<1>1. CASE Launch
  BY <1>1
  DEF Launch, SpacingInv, FailuresAreSpaced, rows, history
<1>2. CASE EnterBackground
  BY <1>2
  DEF EnterBackground, SpacingInv, FailuresAreSpaced, rows, history
<1>3. CASE EnterForeground
  BY <1>3
  DEF EnterForeground, SpacingInv, FailuresAreSpaced, rows, history
<1>4. CASE Crash
  BY <1>4
  DEF Crash, SpacingInv, FailuresAreSpaced, Idle, history
<1>5. ASSUME NEW at \in Views, RefusePassword(at)
       PROVE  SpacingInv'
  BY <1>5
  DEF RefusePassword, SpacingInv, FailuresAreSpaced, rows, history
<1>6. ASSUME NEW at \in Views, AcceptPassword(at)
       PROVE  SpacingInv'
  BY <1>6, AttachingType
  DEF AcceptPassword, AllowAccess, SpacingInv, FailuresAreSpaced, TypeOK,
        CallState, InputOpen, Present
<1>7. ASSUME NEW at \in Views, RejectPassword(at)
       PROVE  SpacingInv'
  <2>1. ~Blocked(gatekeeper)
    BY <1>7 DEF RejectPassword
  <2>2. fails >= MaxFailedAttempts => lastFail >= BlockDuration
    BY <2>1, PolicyAssumption
    DEF Blocked, FailInv, TypeOK, GatekeeperRow, Age, Never
  <2>3. call'.step = "idle"
    BY <1>7 DEF RejectPassword, InputOpen, Present, Awake, Idle
  <2>4. QED
    BY <1>7, <2>2, <2>3 DEF RejectPassword, DenyAccess, SpacingInv, FailuresAreSpaced
<1>8. ASSUME NEW at \in UnlockViews, Appear(at)
       PROVE  SpacingInv'
  BY <1>8
  DEF Appear, SpacingInv, FailuresAreSpaced, rows, history
<1>9. ASSUME NEW at \in UnlockViews, BeginBiometry(at)
       PROVE  SpacingInv'
  <2>1. ~Blocked(gatekeeper)
    BY <1>9 DEF BeginBiometry
  <2>2. fails >= MaxFailedAttempts => lastFail >= BlockDuration
    BY <2>1, PolicyAssumption
    DEF Blocked, FailInv, TypeOK, GatekeeperRow, Age, Never
  <2>3. QED
    BY <1>9, <2>2 DEF BeginBiometry, SpacingInv, FailuresAreSpaced, history
<1>10. CASE AcceptBiometry
  BY <1>10, AttachingType
  DEF AcceptBiometry, AllowAccess, SpacingInv, FailuresAreSpaced, TypeOK,
        CallState
<1>11. CASE RejectBiometry
  BY <1>11
  DEF RejectBiometry, DenyAccess, SpacingInv, FailuresAreSpaced, Idle
<1>12. CASE Attach
  BY <1>12
  DEF Attach, SpacingInv, FailuresAreSpaced, Idle, history
<1>13. ASSUME NEW password \in Passwords, Register(password)
        PROVE  SpacingInv'
  <2>1. call'.step = "signIn"
    BY <1>13, IdleType DEF Register, SavePassword, CallState
  <2>2. QED
    BY <1>13, <2>1 DEF Register, SavePassword, SpacingInv, FailuresAreSpaced, history
<1>14. ASSUME NEW password \in Passwords, SetNewPassword(password)
        PROVE  SpacingInv'
  <2>1. call'.step = "signIn"
    BY <1>14, IdleType DEF SetNewPassword, SavePassword, CallState
  <2>2. QED
    BY <1>14, <2>1 DEF SetNewPassword, SavePassword, SpacingInv, FailuresAreSpaced, history
<1>15. CASE SignIn
  <2>1. CASE Blocked(gatekeeper)
    BY <1>15, <2>1 DEF SignIn, SpacingInv, FailuresAreSpaced, Idle, history
  <2>2. CASE ~Blocked(gatekeeper)
    <3>1. call'.step = "attach"
      BY <1>15, <2>2, AttachingType DEF SignIn, TypeOK, CallState
    <3>2. QED
      BY <1>15, <2>2, <3>1 DEF SignIn, AllowAccess, SpacingInv, FailuresAreSpaced
  <2>3. QED
    BY <2>1, <2>2
<1>16. CASE OpenChangePassword
  BY <1>16
  DEF OpenChangePassword, SpacingInv, FailuresAreSpaced, rows, history
<1>17. CASE LeaveChangePassword
  BY <1>17
  DEF LeaveChangePassword, SpacingInv, FailuresAreSpaced, rows, history
<1>18. CASE Submit
  BY <1>18
  DEF Submit, SpacingInv, FailuresAreSpaced, rows, history
<1>19. CASE Cancel
  BY <1>19
  DEF Cancel, SpacingInv, FailuresAreSpaced, rows, history
<1>20. CASE Tick
  <2>1. call'.step = call.step /\ call'.gap = call.gap
    BY <1>20 DEF Tick, TypeOK, CallState
  <2>2. QED
    BY <1>20, <2>1 DEF Tick, SpacingInv, FailuresAreSpaced
<1>21. CASE UNCHANGED vars
  BY <1>21
  DEF SpacingInv, FailuresAreSpaced, rows, history, vars
<1>22. QED
  BY <1>1, <1>2, <1>3, <1>4, <1>5, <1>6, <1>7, <1>8, <1>9, <1>10, <1>11,
        <1>12, <1>13, <1>14, <1>15, <1>16, <1>17, <1>18, <1>19, <1>20, <1>21
  DEF Next, EnterPassword

\* Submissions: one that finds a session, or whose modal has just opened one.
LEMMA SubmittedStep ==
  ASSUME TypeOK, SessionInv, SubmittedIsFresh, [Next]_vars
  PROVE  SubmittedIsFresh'
<1>1. CASE Launch
  BY <1>1
  DEF Launch, SubmittedIsFresh
<1>2. CASE EnterBackground
  BY <1>2
  DEF EnterBackground, SubmittedIsFresh
<1>3. CASE EnterForeground
  BY <1>3
  DEF EnterForeground, SubmittedIsFresh
<1>4. CASE Crash
  BY <1>4
  DEF Crash, SubmittedIsFresh
<1>5. ASSUME NEW at \in Views, RefusePassword(at)
       PROVE  SubmittedIsFresh'
  BY <1>5
  DEF RefusePassword, SubmittedIsFresh
<1>6. ASSUME NEW at \in Views, AcceptPassword(at)
       PROVE  SubmittedIsFresh'
  BY <1>6
  DEF AcceptPassword, SubmittedIsFresh
<1>7. ASSUME NEW at \in Views, RejectPassword(at)
       PROVE  SubmittedIsFresh'
  BY <1>7
  DEF RejectPassword, SubmittedIsFresh
<1>8. ASSUME NEW at \in UnlockViews, Appear(at)
       PROVE  SubmittedIsFresh'
  BY <1>8
  DEF Appear, SubmittedIsFresh
<1>9. ASSUME NEW at \in UnlockViews, BeginBiometry(at)
       PROVE  SubmittedIsFresh'
  BY <1>9
  DEF BeginBiometry, SubmittedIsFresh
<1>10. CASE AcceptBiometry
  BY <1>10
  DEF AcceptBiometry, SubmittedIsFresh
<1>11. CASE RejectBiometry
  BY <1>11
  DEF RejectBiometry, SubmittedIsFresh
<1>12. CASE Attach
  BY <1>12, PolicyAssumption
  DEF Attach, SessionInv, SubmittedIsFresh, Fresh, Never, history
<1>13. ASSUME NEW password \in Passwords, Register(password)
        PROVE  SubmittedIsFresh'
  BY <1>13
  DEF Register, SavePassword, SubmittedIsFresh
<1>14. ASSUME NEW password \in Passwords, SetNewPassword(password)
        PROVE  SubmittedIsFresh'
  BY <1>14
  DEF SetNewPassword, SavePassword, SubmittedIsFresh
<1>15. CASE SignIn
  BY <1>15
  DEF SignIn, SubmittedIsFresh
<1>16. CASE OpenChangePassword
  BY <1>16
  DEF OpenChangePassword, SubmittedIsFresh
<1>17. CASE LeaveChangePassword
  BY <1>17
  DEF LeaveChangePassword, SubmittedIsFresh
<1>18. CASE Submit
  <2>1. ASSUME Authenticated
        PROVE  Fresh
    BY <2>1, PolicyAssumption
    DEF Authenticated, IsActive, SessionInv, Fresh, TypeOK, GatekeeperRow, Age, Never
  <2>2. QED
    BY <1>18, <2>1 DEF Submit, SubmittedIsFresh, Fresh, history
<1>19. CASE Cancel
  BY <1>19
  DEF Cancel, SubmittedIsFresh
<1>20. CASE Tick
  BY <1>20
  DEF Tick, SubmittedIsFresh
<1>21. CASE UNCHANGED vars
  BY <1>21
  DEF SubmittedIsFresh, Fresh, history, vars
<1>22. QED
  BY <1>1, <1>2, <1>3, <1>4, <1>5, <1>6, <1>7, <1>8, <1>9, <1>10, <1>11,
        <1>12, <1>13, <1>14, <1>15, <1>16, <1>17, <1>18, <1>19, <1>20, <1>21
  DEF Next, EnterPassword

-----------------------------------------------------------------------------
(* Theorems *)

\* The invariant holds of the database and the app as installed.
LEMMA InvInit == Init => IInv
<1>1. ASSUME Init
      PROVE  TypeOK
  <2>1. view \in [Views -> ViewState]
    BY <1>1, ClosedType DEF Init
  <2>2. call \in CallState
    BY <1>1, IdleType DEF Init
  <2>3. owed \in BOOLEAN /\ newPassword \in BOOLEAN
    BY <1>1, Zenon DEF Init
  <2>4. user \in UserRow
    BY <1>1 DEF Init, UserRow
  <2>5. gatekeeper \in GatekeeperRow
    BY <1>1, PolicyAssumption DEF Init, GatekeeperRow
  <2>6. QED
    BY <1>1, <2>1, <2>2, <2>3, <2>4, <2>5, PolicyAssumption DEF Init, TypeOK
<1>2. ASSUME Init
      PROVE  FailInv /\ SessionInv /\ ScreenInv /\ SpacingInv /\ SubmittedIsFresh
  BY <1>2
  DEF Init, FailInv, SessionInv, ScreenInv, SpacingInv, FailuresAreSpaced,
      SubmittedIsFresh, Idle
<1>3. QED
  BY <1>1, <1>2 DEF IInv

\* The invariant holds throughout.
THEOREM Invariance == Spec => []IInv
<1>1. IInv /\ [Next]_vars => IInv'
  BY TypeStep, FailStep, SessionStep, ScreenStep, SpacingStep, SubmittedStep DEF IInv
<1>2. QED
  BY InvInit, <1>1, PTL DEF Spec

\* Type correctness, for every policy and every bound.
THEOREM AuthenticationTypeCorrect == Spec => []TypeOK
<1>1. IInv => TypeOK
  BY DEF IInv
<1>2. QED
  BY <1>1, Invariance, PTL

\* isUserAuthenticated is true only with a check behind it that succeeded, was
\* the last one, and is no older than a session, for every policy.
THEOREM SessionsAreFresh == Spec => []AuthenticatedIsFresh
<1>1. IInv => AuthenticatedIsFresh
  BY PolicyAssumption
  DEF IInv, SessionInv, AuthenticatedIsFresh, Authenticated, IsActive, Fresh, TypeOK,
      GatekeeperRow, Age, Never
<1>2. QED
  BY <1>1, Invariance, PTL

\* submitTransaction reports success only with a fresh check behind it.
THEOREM SubmissionsAreFresh == Spec => []SubmittedIsFresh
<1>1. IInv => SubmittedIsFresh
  BY DEF IInv
<1>2. QED
  BY <1>1, Invariance, PTL

\* Content is on screen only when no check is owed.
THEOREM ContentStaysCleared == Spec => []ContentIsCleared
<1>1. IInv => ContentIsCleared
  BY DEF IInv, ScreenInv, ContentIsCleared
<1>2. QED
  BY <1>1, Invariance, PTL

\* Failed checks beyond the maximum are a block period apart, for every
\* maximum and every block period.
THEOREM FailuresStaySpaced == Spec => []FailuresAreSpaced
<1>1. IInv => FailuresAreSpaced
  BY DEF IInv, SpacingInv
<1>2. QED
  BY <1>1, Invariance, PTL

=============================================================================
