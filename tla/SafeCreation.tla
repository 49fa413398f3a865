---------------------------- MODULE SafeCreation ----------------------------
(***************************************************************************)
(* What the creation of a safe promises, whoever carries it out: a draft   *)
(* is given one address, keeps it until it is either created on the chain  *)
(* or given up, is not created before it is paid for, and is ready only    *)
(* once its creation transaction is mined.  WalletDeployment implements    *)
(* this specification as long as the user neither aborts nor taps Refresh  *)
(* twice.                                                                  *)
(***************************************************************************)
EXTENDS Integers

CONSTANTS Addr, None

VARIABLES
  phase,    \* the wallet's state
  address,  \* the address it was given
  paid,     \* addresses that hold the required amount
  mined     \* addresses whose safe exists on the chain

absVars == <<phase, address, paid, mined>>

Phase == {"draft", "deploying", "waitingForFirstDeposit", "notEnoughFunds",
          "creationStarted", "finalizingDeployment", "readyToUse"}

Init ==
  /\ phase = "draft"
  /\ address = None
  /\ paid = {}
  /\ mined = {}

Move(from, to) == phase = from /\ phase' = to

Start == Move("draft", "deploying") /\ UNCHANGED <<address, paid, mined>>

Assign(a) ==
  /\ Move("deploying", "waitingForFirstDeposit")
  /\ address' = a
  /\ UNCHANGED <<paid, mined>>

PayInPart ==
  Move("waitingForFirstDeposit", "notEnoughFunds")
  /\ UNCHANGED <<address, paid, mined>>

PayInFull ==
  /\ \/ Move("waitingForFirstDeposit", "creationStarted")
     \/ Move("notEnoughFunds", "creationStarted")
  /\ address \in paid
  /\ UNCHANGED <<address, paid, mined>>

RequestCreation ==
  Move("creationStarted", "finalizingDeployment")
  /\ UNCHANGED <<address, paid, mined>>

Complete ==
  /\ Move("finalizingDeployment", "readyToUse")
  /\ address \in mined
  /\ UNCHANGED <<address, paid, mined>>

\* A deployment can be given up until it is complete.
GiveUp ==
  /\ phase \notin {"draft", "readyToUse"}
  /\ phase' = "draft"
  /\ address' = None
  /\ UNCHANGED <<paid, mined>>

Payment(a) == paid' = paid \cup {a} /\ UNCHANGED <<phase, address, mined>>

Mining(a) ==
  /\ a \in paid
  /\ mined' = mined \cup {a}
  /\ UNCHANGED <<phase, address, paid>>

Next ==
  \/ Start \/ PayInPart \/ PayInFull \/ RequestCreation \/ Complete \/ GiveUp
  \/ \E a \in Addr : Assign(a) \/ Payment(a) \/ Mining(a)

Spec == Init /\ [][Next]_absVars
=============================================================================
