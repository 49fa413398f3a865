---------------------- MODULE PhraseReplacementProofs ----------------------
(***************************************************************************)
(* Proofs about PhraseReplacement, for any number of phrases, visits of    *)
(* the flow, status updates, failures and kills.                           *)
(***************************************************************************)
EXTENDS PhraseReplacement, TLAPS

Txs == [status : {"none", "draft", "signing", "pending", "success", "failed"},
        old : Phrase \cup {NoPhrase}, new : Phrase \cup {NoPhrase}, nonce : Nat]
Chains == [phrase : Phrase, sent : Nat, queue : Seq(Visit),
           receipt : [Visit -> {"none", "success", "failed"}]]
Screens == [screen : {"menu", "intro", "save", "confirm", "review"}, id : 0 .. MaxFlows,
            phrase : Phrase \cup {NoPhrase}, ready : BOOLEAN,
            busy : {"no", "update", "submit"}]
Jobs == [estimate : SUBSET Visit, update : Seq(Wallet), cancel : SUBSET Phrase,
         remove : SUBSET Phrase, subs : SUBSET Visit, notice : [Visit -> Nat]]
Apps == [trap : {"no", "unowned", "unknown", "spent", "killed"}, ends : Nat,
         flows : 0 .. MaxFlows, used : SUBSET Phrase, fees : 0 .. MaxFees,
         others : Nat, fails : Nat, kills : Nat]

\* The whole state; TypeOK says less of it.
Typed ==
  /\ wallet \in Wallet /\ txs \in [Visit -> Txs] /\ keys \subseteq Phrase
  /\ chain \in Chains /\ ui \in Screens /\ job \in Jobs
  /\ held \in [Visit -> Seq(Wallet)] /\ app \in Apps

\* A phrase is shown from its generation to the end of the review; the update
\* runs on the screen before it and the submission on the review.
ScreenInv ==
  /\ ui.screen \in {"save", "confirm", "review"} <=> ui.phrase # NoPhrase
  /\ IF ui.screen = "menu" THEN ui.id = 0 ELSE ui.id \in Visit
  /\ ui.busy = "update" => ui.screen = "confirm" /\ job.update # <<>>
  /\ ui.busy = "submit" => ui.screen = "review"
  /\ app.ends = 0 => Alive

\* A subscription and what it is told of have a wallet object.
HeldInv ==
  \A i \in Visit : i \in job.subs \/ job.notice[i] > 0 => held[i] # <<>>

\* What the app, the transactions and the Safe know was generated by the app.
UsedInv ==
  /\ First \in app.used /\ chain.phrase \in app.used
  /\ keys \subseteq app.used \ {First}
  /\ ui.phrase \in app.used \cup {NoPhrase}
  /\ \A i \in Visit : txs[i].new \in app.used \cup {NoPhrase}

\* A visit uses one nonce at most.
NonceInv ==
  /\ ui.screen \in {"save", "confirm", "review"} => ui.ready
  /\ ui.ready => ui.id \notin job.estimate
  /\ ui.screen = "menu" => ~ui.ready
  /\ \A i \in job.estimate : i <= app.flows
  /\ ui.id <= app.flows
  /\ chain.sent <= app.flows
  /\ (ui.screen \in {"intro", "save", "confirm"}
        \/ (ui.screen = "review" /\ txs[ui.id].nonce = chain.sent))
       => chain.sent < app.flows
  /\ \A i \in Visit : txs[i].nonce <= app.flows

IInv ==
  /\ Typed /\ ScreenInv /\ HeldInv /\ UsedInv /\ NonceInv
  /\ KeyIsTemporary /\ UnknownIsTemporary

-----------------------------------------------------------------------------
(* The parts of a step *)

LEMMA Facts ==
  /\ NoPhrase \notin Phrase /\ First \in Phrase
  /\ MaxFlows \in Nat /\ MaxFees \in Nat /\ Visit \subseteq Nat \ {0}
  /\ \A i \in Visit : i \in 0 .. MaxFlows
BY PhraseReplacementAssumption DEF Visit

LEMMA MenuFacts ==
  /\ Menu \in Screens /\ Menu.screen = "menu" /\ Menu.id = 0 /\ Menu.phrase = NoPhrase
  /\ Menu.ready = FALSE /\ Menu.busy = "no"
BY Facts DEF Menu, Screens

LEMMA NoJobFacts ==
  /\ NoJob \in Jobs /\ NoJob.estimate = {} /\ NoJob.subs = {}
  /\ \A i \in Visit : NoJob.notice[i] = 0
BY DEF NoJob, Jobs

\* The captured wallet without its unknown owners.
LEMMA WithoutUnknown ==
  ASSUME NEW s \in Seq(Wallet), s # <<>>
  PROVE  /\ s[1] \in Wallet
         /\ [s[1] EXCEPT !.unknown = {}] \in Wallet
         /\ [s[1] EXCEPT !.unknown = {}].unknown = {}
         /\ [s EXCEPT ![1].unknown = {}] \in Seq(Wallet)
         /\ [s EXCEPT ![1].unknown = {}] # <<>>
<1>1. s[1] \in Wallet /\ 1 \in 1 .. Len(s)
  OBVIOUS
<1>2. [s[1] EXCEPT !.unknown = {}] \in Wallet /\ [s[1] EXCEPT !.unknown = {}].unknown = {}
  BY <1>1 DEF Wallet
<1> DEFINE w == [s[1] EXCEPT !.unknown = {}]
<1>3. [s EXCEPT ![1].unknown = {}] = [s EXCEPT ![1] = w]
  OBVIOUS
<1> HIDE DEF w
<1>4. [s EXCEPT ![1] = w] \in Seq(Wallet) /\ Len([s EXCEPT ![1] = w]) = Len(s)
  BY <1>1, <1>2 DEF w
<1>5. Len(s) # 0
  OBVIOUS
<1>6. [s EXCEPT ![1] = w] # <<>>
  BY <1>4, <1>5
<1>7. QED
  BY <1>1, <1>2, <1>3, <1>4, <1>6

LEMMA TrapFacts ==
  ASSUME app \in Apps, NEW reason \in {"unowned", "unknown", "spent"}, Trap(reason)
  PROVE  /\ app' \in Apps /\ app'.ends # 0 /\ app'.used = app.used /\ app'.flows = app.flows
<1> DEFINE n == app.ends + 1
<1>1. n \in Nat /\ n # 0
  BY DEF Apps
<1>2. app' = [app EXCEPT !.trap = reason, !.ends = n]
  BY DEF Trap
<1> HIDE DEF n
<1>3. QED
  BY <1>1, <1>2 DEF Apps

LEMMA FailFacts ==
  ASSUME app \in Apps, Fail
  PROVE  /\ app' \in Apps /\ app'.ends = app.ends /\ app'.trap = app.trap
         /\ app'.used = app.used /\ app'.flows = app.flows
BY DEF Apps, Fail

LEMMA ToldFacts ==
  ASSUME job \in Jobs, job' = Told
  PROVE  /\ job' \in Jobs
         /\ job'.estimate = job.estimate /\ job'.update = job.update
         /\ job'.cancel = job.cancel /\ job'.remove = job.remove /\ job'.subs = job.subs
         /\ \A i \in Visit : job'.notice[i] > 0 => job.notice[i] > 0 \/ i \in job.subs
<1> DEFINE n == [i \in Visit |-> job.notice[i] + IF i \in job.subs THEN 1 ELSE 0]
<1>1. n \in [Visit -> Nat]
  BY DEF Jobs
<1>2. job' = [job EXCEPT !.notice = n]
  BY DEF Told
<1>3. \A i \in Visit : n[i] > 0 => job.notice[i] > 0 \/ i \in job.subs
  BY DEF Jobs
<1> HIDE DEF n
<1>4. QED
  BY <1>1, <1>2, <1>3 DEF Jobs

LEMMA LeftFacts ==
  ASSUME job \in Jobs, NEW p \in Phrase, job' = Left(p)
  PROVE  /\ job' \in Jobs
         /\ job'.estimate = job.estimate /\ job'.update = job.update
         /\ job'.cancel = job.cancel \cup {p} /\ job'.remove = job.remove
         /\ job'.subs = job.subs /\ job'.notice = job.notice
BY DEF Left, Jobs

LEMMA AcceptedFacts ==
  ASSUME chain \in Chains, NEW i \in Visit, Accepted(i)
  PROVE  /\ chain' \in Chains /\ chain'.phrase = chain.phrase
         /\ chain'.sent = chain.sent + 1 /\ txs[i].nonce = chain.sent
<1> DEFINE n == chain.sent + 1
           q == Append(chain.queue, i)
<1>1. n \in Nat /\ q \in Seq(Visit)
  BY DEF Chains
<1>2. chain' = [chain EXCEPT !.sent = n, !.queue = q] /\ txs[i].nonce = chain.sent
  BY DEF Accepted
<1>3. chain' \in Chains /\ chain'.phrase = chain.phrase /\ chain'.sent = n
  <2> HIDE DEF n, q
  <2>1. QED
    BY <1>1, <1>2 DEF Chains
<1>4. QED
  BY <1>2, <1>3

-----------------------------------------------------------------------------
(* The screens *)

LEMMA OpenStep ==
  ASSUME IInv, Open
  PROVE  IInv'
<1> DEFINE i == app.flows + 1
<1>1. /\ i \in Visit /\ ui.phrase = NoPhrase /\ app.flows < MaxFlows /\ ui.screen = "menu"
      /\ app.flows \in Nat /\ i = app.flows + 1
  BY Facts DEF Open, At, IInv, Typed, Apps, ScreenInv, Visit
<1>2. /\ app' = [app EXCEPT !.flows = i] /\ txs' = [txs EXCEPT ![i].status = "draft"]
      /\ ui' = [Menu EXCEPT !.screen = "intro", !.id = i]
      /\ job' = [job EXCEPT !.estimate = @ \cup {i}]
      /\ UNCHANGED <<wallet, keys, chain, held>>
  BY DEF Open
<1> HIDE DEF i
<1>3. /\ app' \in Apps /\ app'.flows = i /\ app'.used = app.used /\ app'.ends = app.ends
      /\ app'.trap = app.trap
  BY <1>1, <1>2, Facts DEF IInv, Typed, Apps
<1>4. /\ ui' \in Screens /\ ui'.screen = "intro" /\ ui'.id = i /\ ui'.phrase = NoPhrase
      /\ ui'.ready = FALSE /\ ui'.busy = "no"
  BY <1>1, <1>2, Facts, MenuFacts DEF Screens
<1>5. /\ job' \in Jobs /\ job'.estimate = job.estimate \cup {i} /\ job'.update = job.update
      /\ job'.cancel = job.cancel /\ job'.remove = job.remove /\ job'.subs = job.subs
      /\ job'.notice = job.notice
  BY <1>1, <1>2 DEF IInv, Typed, Jobs
<1>6. /\ txs' \in [Visit -> Txs]
      /\ \A j \in Visit : txs'[j].new = txs[j].new /\ txs'[j].nonce = txs[j].nonce
  BY <1>1, <1>2 DEF IInv, Typed, Txs
<1>7. Typed' /\ HeldInv' /\ UsedInv'
  BY <1>1, <1>2, <1>3, <1>4, <1>5, <1>6 DEF IInv, Typed, HeldInv, UsedInv
<1>8. ScreenInv' /\ KeyIsTemporary' /\ UnknownIsTemporary'
  BY <1>1, <1>2, <1>3, <1>4, <1>5 DEF IInv, Typed, ScreenInv, KeyIsTemporary, UnknownIsTemporary, Alive
<1>9. NonceInv'
  <2>1. chain.sent \in Nat /\ \A j \in Visit : txs[j].nonce \in Nat
    BY DEF IInv, Typed, Chains, Txs
  <2>2. job.estimate \subseteq Visit
    BY DEF IInv, Typed, Jobs
  <2>3. QED
    BY <1>1, <1>2, <1>3, <1>4, <1>5, <1>6, <2>1, <2>2, Facts DEF IInv, NonceInv
<1>10. QED
  BY <1>7, <1>8, <1>9 DEF IInv

LEMMA EstimateStep ==
  ASSUME IInv, NEW i \in Visit, EstimateEnds(i)
  PROVE  IInv'
<1>1. /\ i \in job.estimate /\ Alive /\ UNCHANGED <<wallet, keys, chain, held>>
      /\ job' = [job EXCEPT !.estimate = @ \ {i}]
  BY DEF EstimateEnds
<1>2. /\ job' \in Jobs /\ job'.estimate = job.estimate \ {i} /\ job'.update = job.update
      /\ job'.cancel = job.cancel /\ job'.remove = job.remove /\ job'.subs = job.subs
      /\ job'.notice = job.notice
  BY <1>1 DEF IInv, Typed, Jobs
<1>3. /\ ui \in Screens /\ app \in Apps /\ txs \in [Visit -> Txs] /\ chain \in Chains
      /\ chain.sent \in Nat /\ app.flows \in Nat /\ ui.id \in Nat
      /\ \A j \in Visit : txs[j].nonce \in Nat
      /\ job.estimate \subseteq Visit
  BY Facts DEF IInv, Typed, Chains, Apps, Screens, Txs, Jobs
<1>4. ASSUME txs' = [txs EXCEPT ![i].nonce = chain.sent]
      PROVE  /\ txs' \in [Visit -> Txs]
             /\ \A j \in Visit : txs'[j].new = txs[j].new
             /\ txs'[i].nonce = chain.sent
             /\ \A j \in Visit \ {i} : txs'[j] = txs[j]
  BY <1>3, <1>4 DEF Txs
<1>5. CASE ui.id # i
  <2>1. Trap("unowned") /\ UNCHANGED ui /\ txs' = [txs EXCEPT ![i].nonce = chain.sent]
    BY <1>5 DEF EstimateEnds
  <2>2. app' \in Apps /\ app'.ends # 0 /\ app'.used = app.used /\ app'.flows = app.flows
    BY <1>3, <2>1, TrapFacts
  <2>3. Typed' /\ ScreenInv' /\ HeldInv' /\ UsedInv'
    BY <1>1, <1>2, <1>4, <2>1, <2>2 DEF IInv, Typed, ScreenInv, HeldInv, UsedInv
  <2>4. NonceInv'
    BY <1>1, <1>2, <1>3, <1>4, <1>5, <2>1, <2>2, Facts DEF IInv, NonceInv, ScreenInv
  <2>5. QED
    BY <2>2, <2>3, <2>4 DEF IInv, KeyIsTemporary, UnknownIsTemporary
<1>6. CASE /\ ui.id = i /\ txs' = [txs EXCEPT ![i].nonce = chain.sent]
           /\ ui' = [ui EXCEPT !.ready = TRUE] /\ UNCHANGED app
  <2>1. /\ ui' \in Screens /\ ui'.screen = ui.screen /\ ui'.id = ui.id
        /\ ui'.phrase = ui.phrase /\ ui'.ready = TRUE /\ ui'.busy = ui.busy
    BY <1>3, <1>6 DEF Screens
  <2>2. Typed' /\ ScreenInv' /\ HeldInv' /\ UsedInv' /\ KeyIsTemporary' /\ UnknownIsTemporary'
    BY <1>1, <1>2, <1>4, <1>6, <2>1 DEF IInv, Typed, ScreenInv, HeldInv, UsedInv, Alive,
       KeyIsTemporary, UnknownIsTemporary
  <2>3. ui.screen = "intro"
    <3>1. ui.screen # "menu"
      BY <1>1, <1>6, Facts DEF IInv, NonceInv, ScreenInv
    <3>2. QED
      BY <1>1, <1>3, <1>6, <3>1 DEF IInv, NonceInv, Screens
  <2>4. NonceInv'
    BY <1>1, <1>2, <1>3, <1>4, <1>6, <2>1, <2>3, Facts DEF IInv, NonceInv
  <2>5. QED
    BY <2>2, <2>4 DEF IInv
<1>7. CASE ui.id = i /\ Fail /\ UNCHANGED <<txs, ui>>
  <2>1. /\ app' \in Apps /\ app'.ends = app.ends /\ app'.trap = app.trap
        /\ app'.used = app.used /\ app'.flows = app.flows
    BY <1>3, <1>7, FailFacts
  <2>2. Typed' /\ ScreenInv' /\ HeldInv' /\ UsedInv' /\ KeyIsTemporary' /\ UnknownIsTemporary'
    BY <1>1, <1>2, <1>7, <2>1 DEF IInv, Typed, ScreenInv, HeldInv, UsedInv, Alive,
       KeyIsTemporary, UnknownIsTemporary
  <2>3. NonceInv'
    BY <1>1, <1>2, <1>7, <2>1 DEF IInv, NonceInv
  <2>4. QED
    BY <2>2, <2>3 DEF IInv
<1>8. QED
  BY <1>5, <1>6, <1>7 DEF EstimateEnds

\* A step of the main thread that changes only the screen, in the visit.
LEMMA StaysStep ==
  ASSUME IInv, ui' \in Screens, UNCHANGED <<wallet, txs, keys, chain, held, app>>,
         ui.screen # "menu", ui'.screen # "menu", ui'.id = ui.id, ui'.ready = ui.ready,
         ui'.phrase = ui.phrase, ui.screen = "review" <=> ui'.screen = "review",
         ui.screen \in {"save", "confirm"} <=> ui'.screen \in {"save", "confirm"},
         ui'.busy = "submit" => ui'.screen = "review",
         \/ UNCHANGED job /\ ui'.busy # "update"
         \/ /\ ui'.busy = "update" /\ ui'.screen = "confirm" /\ job' \in Jobs
            /\ job'.update # <<>>
            /\ job'.estimate = job.estimate /\ job'.cancel = job.cancel
            /\ job'.remove = job.remove /\ job'.subs = job.subs /\ job'.notice = job.notice
  PROVE  IInv'
<1>1. Typed' /\ HeldInv' /\ UsedInv'
  BY DEF IInv, Typed, HeldInv, UsedInv
<1>2. ScreenInv'
  BY DEF IInv, Typed, Screens, ScreenInv, Alive
<1>3. KeyIsTemporary' /\ UnknownIsTemporary'
  BY DEF IInv, KeyIsTemporary, UnknownIsTemporary
<1>4. NonceInv'
  BY DEF IInv, Typed, Screens, NonceInv
<1>5. QED
  BY <1>1, <1>2, <1>3, <1>4 DEF IInv

LEMMA StartStep ==
  ASSUME IInv, Start
  PROVE  IInv'
<1>1. PICK p \in Phrase \ app.used :
         /\ keys' = keys \cup {p}
         /\ ui' = [ui EXCEPT !.screen = "save", !.phrase = p]
         /\ app' = [app EXCEPT !.used = @ \cup {p}]
  BY DEF Start
<1>2. /\ UNCHANGED <<wallet, txs, chain, job, held>> /\ ui.screen = "intro" /\ ui.ready
      /\ ui.busy = "no"
  BY DEF Start, At
<1>3. /\ ui' \in Screens /\ ui'.screen = "save" /\ ui'.id = ui.id /\ ui'.phrase = p
      /\ ui'.ready = ui.ready /\ ui'.busy = ui.busy
  BY <1>1 DEF IInv, Typed, Screens
<1>4. /\ app' \in Apps /\ app'.used = app.used \cup {p} /\ app'.flows = app.flows
      /\ app'.ends = app.ends /\ app'.trap = app.trap
  BY <1>1 DEF IInv, Typed, Apps
<1>5. Typed' /\ HeldInv'
  BY <1>1, <1>2, <1>3, <1>4 DEF IInv, Typed, HeldInv
<1>6. UsedInv'
  BY <1>1, <1>2, <1>3, <1>4 DEF IInv, UsedInv
<1>7. ui.phrase = NoPhrase /\ ui.id \in Visit
  BY <1>2 DEF IInv, ScreenInv
<1>8. ScreenInv' /\ NonceInv'
  BY <1>1, <1>2, <1>3, <1>4, <1>7, Facts DEF IInv, ScreenInv, NonceInv, Alive
<1>9. KeyIsTemporary' /\ UnknownIsTemporary'
  BY <1>1, <1>2, <1>3, <1>4, <1>7, Facts DEF IInv, Typed, KeyIsTemporary, UnknownIsTemporary
<1>10. QED
  BY <1>5, <1>6, <1>8, <1>9 DEF IInv

\* The flow is left: the screen is the menu, and the phrase it showed, if any, is
\* to be removed.
LEMMA LeavesStep ==
  ASSUME IInv, Typed', ui' = Menu, UNCHANGED <<wallet, keys, held, app>>,
         chain'.phrase = chain.phrase, chain'.sent <= app.flows,
         \A i \in Visit : txs'[i].new = txs[i].new /\ txs'[i].nonce = txs[i].nonce,
         \/ UNCHANGED job /\ ui.screen = "intro"
         \/ ui.phrase \in Phrase /\ job' = Left(ui.phrase)
  PROVE  IInv'
<1>1. /\ job'.estimate = job.estimate /\ job'.remove = job.remove /\ job'.subs = job.subs
      /\ job'.notice = job.notice
      /\ \/ job'.cancel = job.cancel /\ ui.screen = "intro"
         \/ job'.cancel = job.cancel \cup {ui.phrase}
  BY LeftFacts DEF IInv, Typed
<1>2. ScreenInv' /\ HeldInv' /\ UsedInv'
  BY <1>1, MenuFacts, Facts DEF IInv, Typed, ScreenInv, HeldInv, UsedInv, Alive
<1>3. KeyIsTemporary' /\ UnknownIsTemporary'
  BY <1>1, MenuFacts, Facts DEF IInv, Typed, ScreenInv, KeyIsTemporary, UnknownIsTemporary
<1>4. NonceInv'
  <2>1. app.flows \in Nat
    BY Facts DEF IInv, Typed, Apps
  <2>2. QED
    BY <1>1, <2>1, MenuFacts DEF IInv, NonceInv
<1>5. QED
  BY <1>2, <1>3, <1>4 DEF IInv

LEMMA BackStep ==
  ASSUME IInv, Back
  PROVE  IInv'
<1>0. /\ UNCHANGED <<wallet, txs, keys, chain, held, app>> /\ ui \in Screens /\ job \in Jobs
      /\ ui.busy = "no" /\ ui.screen # "menu"
  BY DEF Back, IInv, Typed, At
<1>1. CASE At("intro") /\ ui' = Menu /\ UNCHANGED job
  BY <1>0, <1>1, LeavesStep, MenuFacts DEF IInv, Typed, At, NonceInv
<1>2. CASE /\ At("save")
           /\ ui' = [ui EXCEPT !.screen = "intro", !.phrase = NoPhrase]
           /\ job' = [job EXCEPT !.remove = @ \cup {ui.phrase}]
  <2>1. ui.phrase \in Phrase /\ ui.screen = "save" /\ ui.id \in Visit
    BY <1>0, <1>2 DEF IInv, ScreenInv, At, Screens
  <2>2. /\ ui' \in Screens /\ ui'.screen = "intro" /\ ui'.id = ui.id /\ ui'.phrase = NoPhrase
        /\ ui'.ready = ui.ready /\ ui'.busy = ui.busy
    BY <1>0, <1>2 DEF Screens
  <2>3. /\ job' \in Jobs /\ job'.estimate = job.estimate /\ job'.update = job.update
        /\ job'.cancel = job.cancel /\ job'.remove = job.remove \cup {ui.phrase}
        /\ job'.subs = job.subs /\ job'.notice = job.notice
    BY <1>0, <1>2, <2>1 DEF Jobs
  <2>4. Typed' /\ HeldInv' /\ UsedInv' /\ ScreenInv'
    BY <1>0, <2>1, <2>2, <2>3 DEF IInv, Typed, HeldInv, UsedInv, ScreenInv, Alive
  <2>5. KeyIsTemporary' /\ UnknownIsTemporary'
    BY <1>0, <2>1, <2>2, <2>3 DEF IInv, KeyIsTemporary, UnknownIsTemporary
  <2>6. NonceInv'
    BY <1>0, <2>1, <2>2, <2>3 DEF IInv, NonceInv
  <2>7. QED
    BY <2>4, <2>5, <2>6 DEF IInv
<1>3. CASE At("confirm") /\ ui' = [ui EXCEPT !.screen = "save"] /\ UNCHANGED job
  <2>1. /\ ui' \in Screens /\ ui'.screen = "save" /\ ui'.id = ui.id /\ ui'.phrase = ui.phrase
        /\ ui'.ready = ui.ready /\ ui'.busy = ui.busy /\ ui.screen = "confirm"
    BY <1>0, <1>3 DEF Screens, At
  <2>2. QED
    BY <1>0, <1>3, <2>1, StaysStep
<1>4. CASE At("review") /\ ui' = Menu /\ job' = Left(ui.phrase)
  <2>1. ui.phrase \in Phrase
    BY <1>0, <1>4 DEF IInv, ScreenInv, At, Screens
  <2>2. Typed'
    BY <1>0, <1>4, <2>1, MenuFacts, LeftFacts DEF IInv, Typed
  <2>3. QED
    BY <1>0, <1>4, <2>1, <2>2, LeavesStep DEF IInv, NonceInv
<1>5. QED
  BY <1>1, <1>2, <1>3, <1>4 DEF Back

LEMMA ForwardStep ==
  ASSUME IInv, Continue \/ Confirm \/ Submit
  PROVE  IInv'
<1>0. /\ UNCHANGED <<wallet, txs, keys, chain, held, app>> /\ ui \in Screens /\ job \in Jobs
      /\ wallet \in Wallet /\ ui.busy = "no"
  BY DEF Continue, Confirm, Submit, IInv, Typed, At
<1>1. CASE Continue
  <2>1. /\ ui' \in Screens /\ ui'.screen = "confirm" /\ ui'.id = ui.id /\ ui'.phrase = ui.phrase
        /\ ui'.ready = ui.ready /\ ui'.busy = "no" /\ ui.screen = "save" /\ UNCHANGED job
    BY <1>0, <1>1 DEF Screens, At, Continue
  <2>2. QED
    BY <1>0, <2>1, StaysStep
<1>2. CASE Confirm
  <2>1. /\ ui' \in Screens /\ ui'.screen = "confirm" /\ ui'.id = ui.id /\ ui'.phrase = ui.phrase
        /\ ui'.ready = ui.ready /\ ui'.busy = "update" /\ ui.screen = "confirm"
    BY <1>0, <1>2 DEF Screens, At, Confirm
  <2>2. /\ job' \in Jobs /\ job'.estimate = job.estimate /\ job'.update # <<>>
        /\ job'.cancel = job.cancel /\ job'.remove = job.remove
        /\ job'.subs = job.subs /\ job'.notice = job.notice
    <3> DEFINE u == <<wallet>>
    <3>1. u \in Seq(Wallet) /\ u # <<>> /\ job' = [job EXCEPT !.update = u]
      BY <1>0, <1>2 DEF Confirm
    <3> HIDE DEF u
    <3>2. QED
      BY <1>0, <3>1 DEF Jobs
  <2>3. QED
    BY <1>0, <2>1, <2>2, StaysStep
<1>3. CASE Submit
  <2>1. /\ ui' \in Screens /\ ui'.screen = "review" /\ ui'.id = ui.id /\ ui'.phrase = ui.phrase
        /\ ui'.ready = ui.ready /\ ui'.busy = "submit" /\ ui.screen = "review" /\ UNCHANGED job
    BY <1>0, <1>3 DEF Screens, At, Submit
  <2>2. QED
    BY <1>0, <2>1, StaysStep
<1>4. QED
  BY <1>1, <1>2, <1>3

-----------------------------------------------------------------------------
(* The closures and the answers *)

LEMMA RemoveKeyStep ==
  ASSUME IInv, NEW p \in Phrase, RemoveKey(p)
  PROVE  IInv'
<1>1. /\ job' \in Jobs /\ job'.estimate = job.estimate /\ job'.update = job.update
      /\ job'.cancel = job.cancel /\ job'.remove = job.remove \ {p}
      /\ job'.subs = job.subs /\ job'.notice = job.notice
  BY DEF RemoveKey, IInv, Typed, Jobs
<1>2. keys' = keys \ {p} /\ UNCHANGED <<wallet, txs, chain, ui, held, app>>
  BY DEF RemoveKey
<1>3. Typed' /\ HeldInv' /\ UsedInv' /\ ScreenInv'
  BY <1>1, <1>2 DEF IInv, Typed, HeldInv, UsedInv, ScreenInv, Alive
<1>4. KeyIsTemporary' /\ UnknownIsTemporary' /\ NonceInv'
  BY <1>1, <1>2 DEF IInv, KeyIsTemporary, UnknownIsTemporary, NonceInv
<1>5. QED
  BY <1>3, <1>4 DEF IInv

LEMMA CancelStep ==
  ASSUME IInv, NEW p \in Phrase, Cancel(p)
  PROVE  IInv'
<1>1. /\ job' \in Jobs /\ job'.estimate = job.estimate /\ job'.update = job.update
      /\ job'.cancel = job.cancel \ {p} /\ job'.remove = job.remove
      /\ job'.subs = job.subs /\ job'.notice = job.notice
  BY DEF Cancel, IInv, Typed, Jobs
<1>2. UNCHANGED <<txs, chain, ui, held>>
  BY DEF Cancel
<1>3. CASE Trap("unknown") /\ UNCHANGED <<wallet, keys>>
  <2>1. app' \in Apps /\ app'.ends # 0 /\ app'.used = app.used /\ app'.flows = app.flows
    BY <1>3, TrapFacts DEF IInv, Typed
  <2>2. Typed' /\ HeldInv' /\ UsedInv' /\ ScreenInv'
    BY <1>1, <1>2, <1>3, <2>1 DEF IInv, Typed, HeldInv, UsedInv, ScreenInv
  <2>3. KeyIsTemporary' /\ UnknownIsTemporary' /\ NonceInv'
    BY <1>1, <1>2, <1>3, <2>1 DEF IInv, KeyIsTemporary, UnknownIsTemporary, NonceInv
  <2>4. QED
    BY <2>2, <2>3 DEF IInv
<1>4. CASE /\ wallet' = [wallet EXCEPT !.unknown = {}] /\ keys' = keys \ {p}
           /\ UNCHANGED app
  <2>1. wallet' \in Wallet /\ wallet'.unknown = {}
    BY <1>4 DEF IInv, Typed, Wallet
  <2>2. Typed' /\ HeldInv' /\ UsedInv' /\ ScreenInv'
    BY <1>1, <1>2, <1>4, <2>1 DEF IInv, Typed, HeldInv, UsedInv, ScreenInv, Alive
  <2>3. KeyIsTemporary' /\ UnknownIsTemporary' /\ NonceInv'
    BY <1>1, <1>2, <1>4, <2>1 DEF IInv, KeyIsTemporary, UnknownIsTemporary, NonceInv
  <2>4. QED
    BY <2>2, <2>3 DEF IInv
<1>5. QED
  BY <1>3, <1>4 DEF Cancel

\* The review screen comes, whatever the update did.
LEMMA UpdateStep ==
  ASSUME IInv, UpdateAnswer \/ UpdateFails
  PROVE  IInv'
<1>0. /\ ui \in Screens /\ job \in Jobs /\ app \in Apps /\ ui.busy = "update"
      /\ ui.screen = "confirm" /\ ui.phrase \in Phrase /\ ui.id \in Visit /\ ui.ready
      /\ job.update \in Seq(Wallet) /\ job.update # <<>>
      /\ chain.sent \in Nat /\ chain.phrase \in Phrase /\ app.flows \in Nat
      /\ chain.sent < app.flows /\ Alive
  BY Facts DEF UpdateAnswer, UpdateFails, Updating, IInv, Typed, Screens, Jobs, Apps, Chains,
     ScreenInv, NonceInv
<1>1. /\ ui' \in Screens /\ ui'.screen = "review" /\ ui'.id = ui.id /\ ui'.phrase = ui.phrase
      /\ ui'.ready = ui.ready /\ ui'.busy = "no"
  BY <1>0 DEF UpdateAnswer, UpdateFails, Review, Screens
<1>2. CASE UpdateFails
  <2>1. /\ app' \in Apps /\ app'.ends = app.ends /\ app'.trap = app.trap
        /\ app'.used = app.used /\ app'.flows = app.flows
        /\ UNCHANGED <<wallet, txs, keys, chain, held>>
    BY <1>0, <1>2, FailFacts DEF UpdateFails
  <2>2. /\ job' \in Jobs /\ job'.estimate = job.estimate
        /\ job'.cancel = job.cancel /\ job'.remove = job.remove
        /\ job'.subs = job.subs /\ job'.notice = job.notice
    <3> DEFINE u == <<>>
    <3>1. u \in Seq(Wallet) /\ job' = [job EXCEPT !.update = u]
      BY <1>2 DEF UpdateFails
    <3> HIDE DEF u
    <3>2. QED
      BY <1>0, <3>1 DEF Jobs
  <2>3. Typed' /\ HeldInv' /\ UsedInv' /\ ScreenInv'
    BY <1>0, <1>1, <2>1, <2>2, Facts DEF IInv, Typed, HeldInv, UsedInv, ScreenInv, Alive
  <2>4. KeyIsTemporary' /\ UnknownIsTemporary' /\ NonceInv'
    BY <1>0, <1>1, <2>1, <2>2 DEF IInv, KeyIsTemporary, UnknownIsTemporary, NonceInv
  <2>5. QED
    BY <2>3, <2>4 DEF IInv
<1>3. CASE UpdateAnswer
  <2> DEFINE w == [job.update[1] EXCEPT !.unknown = @ \cup {ui.phrase}]
             h == <<w>>
             t == [status |-> "signing", old |-> chain.phrase, new |-> ui.phrase,
                   nonce |-> chain.sent]
  <2>1. w \in Wallet /\ h \in Seq(Wallet) /\ h # <<>>
    <3>1. job.update[1] \in Wallet
      BY <1>0
    <3>2. w \in Wallet
      BY <1>0, <3>1 DEF Wallet
    <3> HIDE DEF w
    <3>3. QED
      BY <3>2
  <2>2. t \in Txs /\ t.new = ui.phrase /\ t.nonce = chain.sent
    BY <1>0 DEF Txs
  <2>3. /\ txs' = [txs EXCEPT ![ui.id] = t] /\ wallet' = w /\ held' = [held EXCEPT ![ui.id] = h]
        /\ UNCHANGED <<keys, chain, app>>
    BY <1>3 DEF UpdateAnswer
  <2> HIDE DEF w, h, t
  <2>4. /\ job' \in Jobs /\ job'.estimate = job.estimate
        /\ job'.cancel = job.cancel /\ job'.remove = job.remove
        /\ job'.subs = job.subs \cup {ui.id} /\ job'.notice = job.notice
    <3> DEFINE u == <<>>
    <3>1. u \in Seq(Wallet) /\ job' = [job EXCEPT !.update = u, !.subs = @ \cup {ui.id}]
      BY <1>3 DEF UpdateAnswer
    <3> HIDE DEF u
    <3>2. QED
      BY <1>0, <3>1 DEF Jobs
  <2>5. Typed' /\ HeldInv'
    BY <1>0, <1>1, <2>1, <2>2, <2>3, <2>4 DEF IInv, Typed, HeldInv
  <2>6. UsedInv' /\ ScreenInv'
    BY <1>0, <1>1, <2>1, <2>2, <2>3, <2>4, Facts DEF IInv, Typed, UsedInv, ScreenInv, Alive
  <2>7. KeyIsTemporary' /\ UnknownIsTemporary'
    BY <1>1, <2>3, <2>4 DEF IInv, KeyIsTemporary, UnknownIsTemporary
  <2>8. NonceInv'
    <3>1. \A i \in Visit : txs'[i].nonce <= app.flows
      BY <1>0, <2>2, <2>3 DEF IInv, Typed, NonceInv
    <3>2. QED
      BY <1>0, <1>1, <2>3, <2>4, <3>1 DEF IInv, NonceInv
  <2>9. QED
    BY <2>5, <2>6, <2>7, <2>8 DEF IInv
<1>4. QED
  BY <1>2, <1>3

\* A transaction's status changes.
LEMMA StatusFacts ==
  ASSUME txs \in [Visit -> Txs], NEW i \in Visit,
         NEW st \in {"none", "draft", "signing", "pending", "success", "failed"},
         txs' = [txs EXCEPT ![i].status = st]
  PROVE  /\ txs' \in [Visit -> Txs]
         /\ \A j \in Visit : txs'[j].new = txs[j].new /\ txs'[j].nonce = txs[j].nonce
BY DEF Txs

LEMMA SubmitStep ==
  ASSUME IInv, SubmitAnswer \/ SubmitFails
  PROVE  IInv'
<1>0. /\ ui \in Screens /\ job \in Jobs /\ app \in Apps /\ chain \in Chains
      /\ txs \in [Visit -> Txs] /\ ui.busy = "submit"
      /\ ui.screen = "review" /\ ui.phrase \in Phrase /\ ui.id \in Visit
      /\ chain.sent \in Nat /\ app.flows \in Nat /\ Alive
      /\ txs[ui.id].nonce = chain.sent => chain.sent < app.flows
  BY Facts DEF SubmitAnswer, SubmitFails, Submitting, IInv, Typed, Screens, Apps, Chains,
     ScreenInv, NonceInv
<1>1. ASSUME ui' = [ui EXCEPT !.busy = "no"], UNCHANGED <<wallet, keys, job, held>>,
             chain' \in Chains, chain'.phrase = chain.phrase,
             \/ chain'.sent = chain.sent
             \/ chain'.sent = chain.sent + 1 /\ txs[ui.id].nonce = chain.sent,
             txs' \in [Visit -> Txs],
             \A j \in Visit : txs'[j].new = txs[j].new /\ txs'[j].nonce = txs[j].nonce,
             app' \in Apps, app'.ends = app.ends, app'.trap = app.trap,
             app'.used = app.used, app'.flows = app.flows
      PROVE  IInv'
  <2>1. /\ ui' \in Screens /\ ui'.screen = ui.screen /\ ui'.id = ui.id /\ ui'.phrase = ui.phrase
        /\ ui'.ready = ui.ready /\ ui'.busy = "no"
    BY <1>0, <1>1 DEF Screens
  <2>2. Typed' /\ HeldInv' /\ UsedInv' /\ ScreenInv'
    BY <1>0, <1>1, <2>1 DEF IInv, Typed, HeldInv, UsedInv, ScreenInv, Alive
  <2>3. KeyIsTemporary' /\ UnknownIsTemporary'
    BY <1>0, <1>1, <2>1 DEF IInv, KeyIsTemporary, UnknownIsTemporary
  <2>4. NonceInv'
    BY <1>0, <1>1, <2>1 DEF IInv, NonceInv
  <2>5. QED
    BY <2>2, <2>3, <2>4 DEF IInv
<1>2. CASE SubmitAnswer
  <2>1. /\ chain' \in Chains /\ chain'.phrase = chain.phrase
        /\ chain'.sent = chain.sent + 1 /\ txs[ui.id].nonce = chain.sent
    BY <1>0, <1>2, AcceptedFacts DEF SubmitAnswer
  <2>2. UNCHANGED <<wallet, keys, held, app>>
    BY <1>2 DEF SubmitAnswer
  <2>3. CASE txs[ui.id].status = "draft"
    BY <1>0, <1>1, <1>2, <2>1, <2>2, <2>3, StatusFacts DEF SubmitAnswer
  <2>4. CASE txs[ui.id].status # "draft"
    <3>1. /\ txs' \in [Visit -> Txs] /\ ui' = Menu /\ job' = Left(ui.phrase)
          /\ \A j \in Visit : txs'[j].new = txs[j].new /\ txs'[j].nonce = txs[j].nonce
      BY <1>0, <1>2, <2>4, StatusFacts DEF SubmitAnswer
    <3>2. Typed'
      BY <1>0, <2>1, <2>2, <3>1, MenuFacts, LeftFacts DEF IInv, Typed
    <3>3. chain'.sent <= app.flows
      BY <1>0, <2>1
    <3>4. QED
      BY <1>0, <2>1, <2>2, <3>1, <3>2, <3>3, LeavesStep
  <2>5. QED
    BY <2>3, <2>4
<1>3. CASE SubmitFails
  <2>1. /\ ui' = [ui EXCEPT !.busy = "no"] /\ UNCHANGED <<wallet, txs, keys, job, held>>
        /\ UNCHANGED <<chain, app>> \/ (Fail /\ UNCHANGED chain) \/ (Fail /\ Accepted(ui.id))
    BY <1>3 DEF SubmitFails
  <2>2. /\ app' \in Apps /\ app'.ends = app.ends /\ app'.trap = app.trap
        /\ app'.used = app.used /\ app'.flows = app.flows
    BY <1>0, <2>1, FailFacts
  <2>3. /\ chain' \in Chains /\ chain'.phrase = chain.phrase
        /\ \/ chain'.sent = chain.sent
           \/ chain'.sent = chain.sent + 1 /\ txs[ui.id].nonce = chain.sent
    BY <1>0, <2>1, AcceptedFacts
  <2>4. QED
    BY <1>0, <1>1, <2>1, <2>2, <2>3
<1>4. QED
  BY <1>2, <1>3

-----------------------------------------------------------------------------
(* The chain, the poll and the subscriptions *)

\* Neither the screens nor the stored state change.
LEMMA MineStep ==
  ASSUME IInv, Mine
  PROVE  IInv'
<1> DEFINE i == Head(chain.queue)
           q == Tail(chain.queue)
           new == IF txs[i].new # NoPhrase /\ txs[i].old = chain.phrase
                  THEN txs[i].new ELSE chain.phrase
<1>0. /\ chain \in Chains /\ app \in Apps /\ txs \in [Visit -> Txs]
      /\ chain.queue \in Seq(Visit) /\ chain.queue # <<>>
      /\ UNCHANGED <<wallet, txs, keys, ui, job, held>>
  BY DEF Mine, IInv, Typed, Chains
<1>1. i \in Visit /\ q \in Seq(Visit)
  BY <1>0
<1>2. new \in Phrase /\ new \in app.used
  BY <1>0, <1>1 DEF IInv, UsedInv, Txs, Chains
<1>3. \/ /\ chain' = [chain EXCEPT !.queue = q, !.receipt[i] = "success", !.phrase = new]
         /\ UNCHANGED app
      \/ /\ chain' = [chain EXCEPT !.queue = q, !.receipt[i] = "failed"]
         /\ Fail
  BY DEF Mine
<1>4. /\ app' \in Apps /\ app'.ends = app.ends /\ app'.trap = app.trap
      /\ app'.used = app.used /\ app'.flows = app.flows
  BY <1>0, <1>3, FailFacts
<1> HIDE DEF i, q, new
<1>5. chain' \in Chains /\ chain'.sent = chain.sent /\ chain'.phrase \in app.used
  <2>1. ASSUME NEW st \in {"success", "failed"}
        PROVE  [chain.receipt EXCEPT ![i] = st] \in [Visit -> {"none", "success", "failed"}]
    BY <1>0 DEF Chains
  <2> DEFINE good == [chain.receipt EXCEPT ![i] = "success"]
             bad == [chain.receipt EXCEPT ![i] = "failed"]
  <2>2. \/ chain' = [chain EXCEPT !.queue = q, !.receipt = good, !.phrase = new]
        \/ chain' = [chain EXCEPT !.queue = q, !.receipt = bad]
    BY <1>3
  <2>3. /\ good \in [Visit -> {"none", "success", "failed"}]
        /\ bad \in [Visit -> {"none", "success", "failed"}]
    BY <2>1
  <2>4. chain.phrase \in app.used
    BY DEF IInv, UsedInv
  <2> HIDE DEF good, bad
  <2>5. QED
    BY <1>0, <1>1, <1>2, <2>2, <2>3, <2>4 DEF Chains
<1>6. Typed' /\ HeldInv' /\ UsedInv' /\ ScreenInv'
  BY <1>0, <1>4, <1>5 DEF IInv, Typed, HeldInv, UsedInv, ScreenInv, Alive
<1>7. KeyIsTemporary' /\ UnknownIsTemporary' /\ NonceInv'
  BY <1>0, <1>4, <1>5 DEF IInv, KeyIsTemporary, UnknownIsTemporary, NonceInv
<1>8. QED
  BY <1>6, <1>7 DEF IInv

\* The subscribed closures are told.
LEMMA ToldStep ==
  ASSUME IInv, job' = Told, UNCHANGED <<wallet, keys, chain, ui, held>>,
         txs' \in [Visit -> Txs],
         \A j \in Visit : txs'[j].new = txs[j].new /\ txs'[j].nonce = txs[j].nonce,
         app' \in Apps, app'.ends = app.ends, app'.trap = app.trap,
         app'.used = app.used, app'.flows = app.flows
  PROVE  IInv'
<1>1. /\ job' \in Jobs
      /\ job'.estimate = job.estimate /\ job'.update = job.update
      /\ job'.cancel = job.cancel /\ job'.remove = job.remove /\ job'.subs = job.subs
      /\ \A i \in Visit : job'.notice[i] > 0 => job.notice[i] > 0 \/ i \in job.subs
  BY ToldFacts DEF IInv, Typed
<1>2. Typed' /\ HeldInv' /\ UsedInv' /\ ScreenInv'
  BY <1>1 DEF IInv, Typed, HeldInv, UsedInv, ScreenInv, Alive
<1>3. KeyIsTemporary' /\ UnknownIsTemporary'
  BY <1>1 DEF IInv, KeyIsTemporary, UnknownIsTemporary
<1>4. NonceInv'
  BY <1>1 DEF IInv, NonceInv, ScreenInv
<1>5. QED
  BY <1>2, <1>3, <1>4 DEF IInv

LEMMA PollStep ==
  ASSUME IInv, OtherUpdate \/ \E i \in Visit : PollAnswer(i)
  PROVE  IInv'
<1>1. CASE OtherUpdate
  <2>1. /\ app' \in Apps /\ app'.ends = app.ends /\ app'.trap = app.trap
        /\ app'.used = app.used /\ app'.flows = app.flows
    <3> DEFINE n == app.others + 1
    <3>1. n \in Nat /\ app' = [app EXCEPT !.others = n]
      BY <1>1 DEF OtherUpdate, IInv, Typed, Apps
    <3> HIDE DEF n
    <3>2. QED
      BY <3>1 DEF IInv, Typed, Apps
  <2>2. QED
    BY <1>1, <2>1, ToldStep DEF OtherUpdate, IInv, Typed
<1>2. ASSUME NEW i \in Visit, PollAnswer(i) PROVE IInv'
  <2>1. chain.receipt[i] \in {"success", "failed"}
    BY <1>2 DEF PollAnswer, IInv, Typed, Chains
  <2>2. /\ txs' \in [Visit -> Txs]
        /\ \A j \in Visit : txs'[j].new = txs[j].new /\ txs'[j].nonce = txs[j].nonce
    BY <1>2, <2>1, StatusFacts DEF PollAnswer, IInv, Typed
  <2>3. QED
    BY <1>2, <2>2, ToldStep DEF PollAnswer, IInv, Typed
<1>3. QED
  BY <1>1, <1>2

LEMMA NoticeStep ==
  ASSUME IInv, NEW i \in Visit, Notice(i)
  PROVE  IInv'
<1> DEFINE told == [job EXCEPT !.notice[i] = @ - 1]
<1>0. /\ job \in Jobs /\ app \in Apps /\ held \in [Visit -> Seq(Wallet)]
      /\ UNCHANGED <<txs, chain, ui>> /\ held[i] # <<>>
  BY DEF Notice, IInv, Typed, HeldInv
<1>1. /\ told \in Jobs /\ told.estimate = job.estimate /\ told.update = job.update
      /\ told.cancel = job.cancel /\ told.remove = job.remove /\ told.subs = job.subs
      /\ \A j \in Visit : told.notice[j] > 0 => job.notice[j] > 0
  <2> DEFINE n == [job.notice EXCEPT ![i] = @ - 1]
  <2>1. n \in [Visit -> Nat] /\ \A j \in Visit : n[j] > 0 => job.notice[j] > 0
    <3>1. job.notice \in [Visit -> Nat] /\ job.notice[i] > 0
      BY <1>0 DEF Jobs, Notice
    <3>2. QED
      BY <3>1
  <2>2. told = [job EXCEPT !.notice = n]
    OBVIOUS
  <2> HIDE DEF n, told
  <2>3. QED
    BY <1>0, <2>1, <2>2 DEF Jobs
<1>2. \/ job' = told /\ UNCHANGED <<wallet, keys, held, app>>
      \/ job' = told /\ Trap("spent") /\ UNCHANGED <<wallet, keys, held>>
      \/ /\ job' = [told EXCEPT !.subs = {}]
         /\ held' = [held EXCEPT ![i][1].unknown = {}]
         /\ wallet' = [held[i][1] EXCEPT !.unknown = {}]
         /\ keys' = keys \ {txs[i].new}
         /\ UNCHANGED app
  BY DEF Notice
<1> HIDE DEF told
<1>3. /\ job' \in Jobs /\ job'.estimate = job.estimate /\ job'.update = job.update
      /\ job'.cancel = job.cancel /\ job'.remove = job.remove
      /\ job'.subs \subseteq job.subs
      /\ \A j \in Visit : job'.notice[j] > 0 => job.notice[j] > 0
  BY <1>1, <1>2 DEF Jobs
<1>4. /\ app' \in Apps /\ app'.used = app.used /\ app'.flows = app.flows
      /\ app'.ends = 0 => app.ends = 0 /\ app'.trap = app.trap
  BY <1>0, <1>2, TrapFacts
<1>5. /\ held' \in [Visit -> Seq(Wallet)] /\ \A j \in Visit : held[j] # <<>> => held'[j] # <<>>
      /\ wallet' = wallet \/ (wallet' \in Wallet /\ wallet'.unknown = {})
  <2>1. CASE UNCHANGED <<wallet, held>>
    BY <1>0, <2>1
  <2>2. CASE /\ held' = [held EXCEPT ![i][1].unknown = {}]
             /\ wallet' = [held[i][1] EXCEPT !.unknown = {}]
    <3> DEFINE s == [held[i] EXCEPT ![1].unknown = {}]
    <3>1. s \in Seq(Wallet) /\ s # <<>> /\ wallet' \in Wallet /\ wallet'.unknown = {}
      BY <1>0, <2>2, WithoutUnknown
    <3>2. held' = [held EXCEPT ![i] = s]
      BY <2>2
    <3> HIDE DEF s
    <3>3. QED
      BY <1>0, <3>1, <3>2
  <2>3. QED
    BY <1>2, <2>1, <2>2
<1>6. keys' \subseteq keys
  BY <1>2
<1>7. Typed' /\ HeldInv' /\ UsedInv' /\ ScreenInv'
  BY <1>0, <1>3, <1>4, <1>5, <1>6 DEF IInv, Typed, HeldInv, UsedInv, ScreenInv, Alive
<1>8. KeyIsTemporary' /\ UnknownIsTemporary'
  BY <1>0, <1>3, <1>4, <1>5, <1>6 DEF IInv, KeyIsTemporary, UnknownIsTemporary
<1>9. NonceInv'
  BY <1>0, <1>3, <1>4 DEF IInv, NonceInv, ScreenInv
<1>10. QED
  BY <1>7, <1>8, <1>9 DEF IInv

-----------------------------------------------------------------------------
(* The rest, and the invariant *)

LEMMA ChangeFeeStep ==
  ASSUME IInv, ChangeFee
  PROVE  IInv'
<1> DEFINE n == app.fees + 1
<1>1. /\ n \in 0 .. MaxFees /\ app' = [app EXCEPT !.fees = n] /\ wallet' = [wallet EXCEPT !.fee = n]
      /\ UNCHANGED <<txs, keys, chain, ui, job, held>>
  BY Facts DEF ChangeFee, IInv, Typed, Apps
<1> HIDE DEF n
<1>2. /\ app' \in Apps /\ app'.ends = app.ends /\ app'.trap = app.trap
      /\ app'.used = app.used /\ app'.flows = app.flows
      /\ wallet' \in Wallet /\ wallet'.unknown = wallet.unknown
  BY <1>1 DEF IInv, Typed, Apps, Wallet
<1>3. Typed' /\ HeldInv' /\ UsedInv' /\ ScreenInv'
  BY <1>1, <1>2 DEF IInv, Typed, HeldInv, UsedInv, ScreenInv, Alive
<1>4. KeyIsTemporary' /\ UnknownIsTemporary' /\ NonceInv'
  BY <1>1, <1>2 DEF IInv, KeyIsTemporary, UnknownIsTemporary, NonceInv
<1>5. QED
  BY <1>3, <1>4 DEF IInv

LEMMA KillStep ==
  ASSUME IInv, Kill
  PROVE  IInv'
<1> DEFINE n == app.ends + 1
           m == app.kills + 1
<1>1. /\ n \in Nat /\ n # 0 /\ m \in Nat
      /\ app' = [app EXCEPT !.trap = "killed", !.ends = n, !.kills = m]
      /\ UNCHANGED <<wallet, txs, keys, chain, ui, job, held>>
  BY DEF Kill, IInv, Typed, Apps
<1> HIDE DEF n, m
<1>2. app' \in Apps /\ app'.ends # 0 /\ app'.used = app.used /\ app'.flows = app.flows
  BY <1>1 DEF IInv, Typed, Apps
<1>3. Typed' /\ HeldInv' /\ UsedInv' /\ ScreenInv'
  BY <1>1, <1>2 DEF IInv, Typed, HeldInv, UsedInv, ScreenInv
<1>4. KeyIsTemporary' /\ UnknownIsTemporary' /\ NonceInv'
  BY <1>1, <1>2 DEF IInv, KeyIsTemporary, UnknownIsTemporary, NonceInv
<1>5. QED
  BY <1>3, <1>4 DEF IInv

LEMMA RelaunchStep ==
  ASSUME IInv, Relaunch
  PROVE  IInv'
<1>1. /\ app.ends # 0 /\ app' = [app EXCEPT !.trap = "no"] /\ ui' = Menu /\ job' = NoJob
      /\ held' = [i \in Visit |-> <<>>] /\ UNCHANGED <<wallet, txs, keys, chain>>
  BY DEF Relaunch, IInv, ScreenInv
<1>2. app' \in Apps /\ app'.ends # 0 /\ app'.used = app.used /\ app'.flows = app.flows
      /\ app.flows \in Nat
  BY <1>1, Facts DEF IInv, Typed, Apps
<1>3. held' \in [Visit -> Seq(Wallet)]
  BY <1>1
<1>4. Typed' /\ HeldInv' /\ UsedInv' /\ ScreenInv'
  BY <1>1, <1>2, <1>3, MenuFacts, NoJobFacts
  DEF IInv, Typed, HeldInv, UsedInv, ScreenInv
<1>5. KeyIsTemporary' /\ UnknownIsTemporary' /\ NonceInv'
  BY <1>1, <1>2, MenuFacts, NoJobFacts
  DEF IInv, KeyIsTemporary, UnknownIsTemporary, NonceInv
<1>6. QED
  BY <1>4, <1>5 DEF IInv

LEMMA InitInv ==
  ASSUME Init
  PROVE  IInv
<1>1. /\ wallet \in Wallet /\ wallet.unknown = {} /\ keys = {}
  BY Facts DEF Init, Wallet
<1>2. txs \in [Visit -> Txs] /\ \A i \in Visit : txs[i].new = NoPhrase /\ txs[i].nonce = 0
  BY DEF Init, NoTx, Txs
<1>3. chain \in Chains /\ chain.phrase = First /\ chain.sent = 0
  <2> DEFINE q == <<>>
             r == [i \in Visit |-> "none"]
  <2>1. q \in Seq(Visit) /\ r \in [Visit -> {"none", "success", "failed"}]
    OBVIOUS
  <2>2. chain = [phrase |-> First, sent |-> 0, queue |-> q, receipt |-> r]
    BY DEF Init
  <2> HIDE DEF q, r
  <2>3. QED
    BY <2>1, <2>2, Facts DEF Chains
<1>4. /\ app \in Apps /\ app.ends = 0 /\ app.flows = 0 /\ app.trap = "no" /\ app.used = {First}
  BY Facts DEF Init, Apps
<1>5. held \in [Visit -> Seq(Wallet)]
  BY DEF Init
<1>6. ui \in Screens /\ job \in Jobs
  BY MenuFacts, NoJobFacts DEF Init
<1>7. Typed /\ HeldInv /\ UsedInv /\ ScreenInv
  BY <1>1, <1>2, <1>3, <1>4, <1>5, <1>6, MenuFacts, NoJobFacts
  DEF Init, Typed, HeldInv, UsedInv, ScreenInv, Alive
<1>8. KeyIsTemporary /\ UnknownIsTemporary /\ NonceInv
  BY <1>1, <1>2, <1>3, <1>4, MenuFacts, NoJobFacts
  DEF Init, KeyIsTemporary, UnknownIsTemporary, NonceInv
<1>9. QED
  BY <1>7, <1>8 DEF IInv

LEMMA InvStep ==
  ASSUME IInv, [Next]_vars
  PROVE  IInv'
<1>1. CASE User
  BY <1>1, OpenStep, StartStep, ForwardStep, BackStep, ChangeFeeStep DEF User
<1>2. CASE Answer
  BY <1>2, UpdateStep, SubmitStep DEF Answer
<1>3. CASE Closure
  BY <1>3, RemoveKeyStep, CancelStep, EstimateStep, NoticeStep DEF Closure
<1>4. CASE Mine \/ Polled \/ OtherUpdate
  BY <1>4, MineStep, PollStep DEF Polled
<1>5. CASE Kill \/ Relaunch
  BY <1>5, KillStep, RelaunchStep
<1>6. CASE UNCHANGED vars
  <2>1. UNCHANGED <<wallet, txs, keys, chain, ui, job, held, app>>
    BY <1>6 DEF vars
  <2>2. Typed' /\ HeldInv' /\ UsedInv' /\ ScreenInv'
    BY <2>1 DEF IInv, Typed, HeldInv, UsedInv, ScreenInv, Alive
  <2>3. KeyIsTemporary' /\ UnknownIsTemporary' /\ NonceInv'
    BY <2>1 DEF IInv, KeyIsTemporary, UnknownIsTemporary, NonceInv
  <2>4. QED
    BY <2>2, <2>3 DEF IInv
<1>7. QED
  BY <1>1, <1>2, <1>3, <1>4, <1>5, <1>6 DEF Next

LEMMA InvHolds == Spec => []IInv
BY InitInv, InvStep, PTL DEF Spec

-----------------------------------------------------------------------------
(* The theorems *)

\* The types, and that a visit of the flow uses one nonce of the relay at most,
\* the keys on the phone are of phrases the app generated, and a subscription has
\* the wallet object it saves.
THEOREM PhraseTypeCorrect == Spec => []TypeOK
<1>1. ASSUME IInv PROVE TypeOK
  <2>1. /\ app.flows \in Nat /\ app.flows <= MaxFlows
        /\ MaxFlows \in Nat /\ MaxFailures \in Nat
    BY <1>1, PhraseReplacementAssumption DEF IInv, Typed, Apps
  <2>2. \A i \in Visit : txs[i].nonce \in 0 .. MaxFlows + MaxFailures
    <3>1. \A i \in Visit : txs[i].nonce \in Nat /\ txs[i].nonce <= app.flows
      BY <1>1 DEF IInv, Typed, Txs, NonceInv
    <3>2. QED
      BY <2>1, <3>1
  <2>3. txs \in [Visit -> [status : {"none", "draft", "signing", "pending", "success", "failed"},
                           old : Phrase \cup {NoPhrase}, new : Phrase \cup {NoPhrase},
                           nonce : 0 .. MaxFlows + MaxFailures]]
    BY <1>1, <2>2 DEF IInv, Typed, Txs
  <2>4. \A i \in Visit : held[i] # <<>> => held[i][1] \in Wallet
    BY <1>1, WithoutUnknown DEF IInv, Typed
  <2>5. QED
    BY <1>1, <2>3, <2>4 DEF IInv, Typed, TypeOK, UsedInv, HeldInv, Screens, Jobs
<1>2. QED
  BY <1>1, InvHolds, PTL

\* The private key of a new phrase leaves the phone with its screens, whichever
\* way they are left (willBeDismissed(), cancelPhraseRecovery()).
THEOREM KeysAreTemporary == Spec => []KeyIsTemporary
<1>1. IInv => KeyIsTemporary
  BY DEF IInv
<1>2. QED
  BY <1>1, InvHolds, PTL

\* Owners of unknown role do not outlive the review, although updates and
\* subscriptions save wallets they read long before (cancelPhraseRecovery()).
THEOREM UnknownOwnersAreTemporary == Spec => []UnknownIsTemporary
<1>1. IInv => UnknownIsTemporary
  BY DEF IInv
<1>2. QED
  BY <1>1, InvHolds, PTL

=============================================================================
