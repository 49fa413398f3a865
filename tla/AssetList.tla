------------------------------ MODULE AssetList ------------------------------
(***************************************************************************)
(* The tokens the user sees and their balances: the stored token list and  *)
(* its sorting ids, the merge with the server's list, the screens on which *)
(* the user adds, hides, moves and pays with tokens, and the updates of    *)
(* account balances. The merge and the updates run on threads of the       *)
(* global queue, the screens on the main thread; nothing orders them.      *)
(***************************************************************************)
EXTENDS Integers, Sequences, FiniteSets, SequencesExt, FiniteSetsExt

CONSTANTS
  Token,        \* ERC-20 tokens
  Gas,          \* the tokens that can pay transaction fees
  Updater,      \* threads that update balances
  MaxListings,  \* changes of the server's list
  MaxMerges,    \* downloads of the list
  MaxChoices,   \* changes the user makes to the list
  MaxBalance,   \* transfers to the safe, per token
  MaxFailures,  \* network errors
  MaxKills      \* ends of the process that no trap causes

ASSUME AssetListAssumption ==
  /\ IsFiniteSet(Token) /\ Gas \subseteq Token
  /\ {MaxListings, MaxMerges, MaxChoices, MaxBalance, MaxFailures, MaxKills}
       \subseteq Nat

Ether == "ether"
NoToken == "no token"

(* sortingId is optional. SQLite orders a missing one before all others and *)
(* prepareToSave counts it as -1.                                           *)
NoPlace == -1

(* An account's balance is optional, and the account may not exist.         *)
NoBalance == -1
NoAccount == -2

VARIABLES
  listing,    \* the server's list: "gone", "regular" or "default" per token
  chain,      \* the safe's balances
  items,      \* stored token list items
  accounts,   \* stored balances
  payment,    \* feePaymentTokenAddress of the stored wallet
  merge,      \* the thread that merges the list
  up,         \* the threads that update balances
  wanted,     \* tokens whose updateAccountBalance() waits on the queue
  ui,         \* the screen and what it lists
  alive,      \* FALSE after a trap or a kill
  chosen,     \* history: what the user decided last about a token
  ordered,    \* history: the order he gave to the tokens since he last
              \* added or hid one, as pairs of tokens
  used        \* how much of each bound is used up; whether the user has made
              \* a choice while the list was being merged

vars == <<listing, chain, items, accounts, payment, merge, up, wanted, ui,
          alive, chosen, ordered, used>>

Status == {"absent", "regular", "whitelisted", "blacklisted"}
Item == [status : Status, place : {NoPlace} \cup Nat]

NoMerge == [at |-> "idle", list |-> [t \in Token |-> "gone"], todo |-> {},
            known |-> [t \in Token |-> [status |-> "absent", place |-> NoPlace]],
            t |-> NoToken, row |-> [status |-> "absent", place |-> NoPlace]]
NoUpdate == [at |-> "idle", todo |-> {}, t |-> NoToken, got |-> 0]
Assets == [screen |-> "assets", shown |-> <<>>, offers |-> {}, reload |-> FALSE]

TypeOK ==
  /\ listing \in [Token -> {"gone", "regular", "default"}]
  /\ chain \in [Token -> 0 .. MaxBalance]
  /\ items \in [Token -> Item]
  /\ \A t \in Token : items[t].status # "whitelisted" => items[t].place = NoPlace
  /\ accounts \in [Token -> (0 .. MaxBalance) \cup {NoBalance, NoAccount}]
  /\ payment \in Token \cup {Ether}
  /\ merge.at \in {"idle", "stored", "delete", "known", "save", "write"}
  /\ \A u \in Updater : up[u].at \in {"idle", "stored", "missing", "collect",
                                      "next", "store"}
  /\ wanted \subseteq Token
  /\ ui.screen \in {"assets", "manage", "add", "payment"}
  /\ alive \in BOOLEAN

Init ==
  /\ listing \in [Token -> {"regular", "default"}]
  /\ chain = [t \in Token |-> 0]
  /\ items = [t \in Token |-> [status |-> "absent", place |-> NoPlace]]
  /\ accounts = [t \in Token |-> NoAccount]
  /\ payment = Ether
  /\ merge = NoMerge
  /\ up = [u \in Updater |-> NoUpdate]
  /\ wanted = {}
  /\ ui = Assets
  /\ alive = TRUE
  /\ chosen = [t \in Token |-> "nothing"]
  /\ ordered = {}
  /\ used = [listings |-> 0, merges |-> 0, choices |-> 0, failures |-> 0,
             kills |-> 0, hasty |-> FALSE]

-----------------------------------------------------------------------------
(* The repository. *)

Stored == {t \in Token : items[t].status # "absent"}
Whitelisted == {t \in Token : items[t].status = "whitelisted"}

(* prepareToSave: an item that becomes whitelisted goes to the end, one     *)
(* that ceases to be loses its place, any other is saved as it is given.    *)
Prepared(t, status, place) ==
  [status |-> status,
   place |-> CASE items[t].status = "whitelisted" /\ status # "whitelisted" ->
                    NoPlace
               [] items[t].status # "whitelisted" /\ status = "whitelisted" ->
                    1 + Max({NoPlace} \cup {items[u].place : u \in Whitelisted})
               [] OTHER -> place]

Saved(t, status, place) == [items EXCEPT ![t] = Prepared(t, status, place)]

(* visibleTokens(withEth: false): whitelisted items that have an account, by *)
(* sorting id; SQLite may return equal ids in any order.                     *)
Visible == {t \in Whitelisted : accounts[t] # NoAccount}
VisibleOrders ==
  {s \in SetToSeqs(Visible) :
     \A i, j \in 1 .. Len(s) : i < j => items[s[i]].place <= items[s[j]].place}

-----------------------------------------------------------------------------
(* Outside: the server's list and the safe's balances.                      *)

ServerChanges(t, l) ==
  /\ used.listings < MaxListings
  /\ l # listing[t]
  /\ listing' = [listing EXCEPT ![t] = l]
  /\ used' = [used EXCEPT !.listings = @ + 1]
  /\ UNCHANGED <<chain, items, accounts, payment, merge, up, wanted, ui, alive,
                 chosen, ordered>>

Transfer(t) ==
  /\ chain[t] < MaxBalance
  /\ chain' = [chain EXCEPT ![t] = @ + 1]
  /\ UNCHANGED <<listing, items, accounts, payment, merge, up, wanted, ui,
                 alive, chosen, ordered, used>>

-----------------------------------------------------------------------------
(* The user's screens, on the main thread.                                  *)

Choosing == alive /\ used.choices < MaxChoices
CountChoice == used' = [used EXCEPT !.choices = @ + 1,
                                    !.hasty = @ \/ merge.at # "idle"]

(* A forced unwrap of an item that is no longer stored ends the process;    *)
(* the next launch finds what is stored and nothing else.                   *)
Ended ==
  /\ alive' = FALSE
  /\ merge' = NoMerge
  /\ up' = [u \in Updater |-> NoUpdate]
  /\ wanted' = {}
  /\ ui' = Assets

Open(screen, offers) ==
  /\ ui' = [screen |-> screen, shown |-> ui.shown, offers |-> offers,
            reload |-> screen = "manage"]
  /\ UNCHANGED <<listing, chain, items, accounts, payment, merge, up, wanted,
                 alive, chosen, ordered, used>>

OpenManage == alive /\ ui.screen = "assets" /\ Open("manage", {})

(* The list of hidden tokens is read once, when the screen is created.      *)
OpenAdd ==
  alive /\ ui.screen = "manage" /\ Open("add", Stored \ Whitelisted)

PaymentOffers ==
  {t \in Stored \cap Gas : accounts[t] \notin {NoBalance, NoAccount, 0}}

OpenPayment ==
  alive /\ ui.screen = "assets" /\ Open("payment", PaymentOffers)

Close ==
  /\ alive
  /\ ui.screen # "assets"
  /\ ui' = IF ui.screen = "add" THEN [ui EXCEPT !.screen = "manage"] ELSE Assets
  /\ UNCHANGED <<listing, chain, items, accounts, payment, merge, up, wanted,
                 alive, chosen, ordered, used>>

(* reloadData() of the list, a moment later; updateData() of the payment    *)
(* screen after AccountsBalancesUpdated.                                    *)
Reload ==
  /\ alive
  /\ ui.reload
  /\ IF ui.screen = "payment"
     THEN ui' = [ui EXCEPT !.offers = PaymentOffers, !.reload = FALSE]
     ELSE \E s \in VisibleOrders : ui' = [ui EXCEPT !.shown = s, !.reload = FALSE]
  /\ UNCHANGED <<listing, chain, items, accounts, payment, merge, up, wanted,
                 alive, chosen, ordered, used>>

(* rearrange(tokens:): the tokens of the screen that are still whitelisted  *)
(* are saved with their index. A difference in number is only reported.     *)
Move(from, to) ==
  LET new == InsertAt(RemoveAt(ui.shown, from), to, ui.shown[from])
  IN /\ Choosing
     /\ ui.screen = "manage"
     /\ from # to
     /\ items' = [t \in Token |->
                    IF t \in Whitelisted /\ Contains(new, t)
                    THEN [items[t] EXCEPT !.place =
                            (CHOOSE i \in 1 .. Len(new) : new[i] = t) - 1]
                    ELSE items[t]]
     /\ ui' = [ui EXCEPT !.shown = new]
     /\ ordered' = {p \in Whitelisted \X Whitelisted :
                      \E i, j \in 1 .. Len(new) : i < j /\ p = <<new[i], new[j]>>}
     /\ CountChoice
     /\ UNCHANGED <<listing, chain, accounts, payment, merge, up, wanted, alive,
                    chosen>>

(* blacklist(): the item is unwrapped, replaced and the list reloaded.      *)
Hide(i) ==
  LET t == ui.shown[i]
  IN /\ Choosing
     /\ ui.screen = "manage"
     /\ CountChoice
     /\ IF t \notin Stored
        THEN Ended /\ UNCHANGED <<items, chosen, ordered>>
        ELSE /\ items' = Saved(t, "blacklisted", NoPlace)
             /\ chosen' = [chosen EXCEPT ![t] = "hidden"]
             /\ ordered' = {}
             /\ ui' = [ui EXCEPT !.reload = TRUE]
             /\ UNCHANGED <<merge, up, wanted, alive>>
     /\ UNCHANGED <<listing, chain, accounts, payment>>

(* whitelist(): a new item without a place, and an update of its balance on *)
(* the queue.                                                               *)
WhitelistToken(t, next) ==
  IF t \notin Stored
  THEN Ended /\ UNCHANGED <<items, chosen, ordered>>
  ELSE /\ items' = Saved(t, "whitelisted", NoPlace)
       /\ chosen' = [chosen EXCEPT ![t] = "shown"]
       /\ ordered' = {}
       /\ wanted' = wanted \cup {t}
       /\ ui' = next
       /\ UNCHANGED <<merge, up, alive>>

Add(t) ==
  /\ Choosing
  /\ ui.screen = "add"
  /\ t \in ui.offers
  /\ CountChoice
  /\ WhitelistToken(t, [ui EXCEPT !.screen = "manage", !.reload = TRUE])
  /\ UNCHANGED <<listing, chain, accounts, payment>>

(* changePaymentToken(): the wallet is saved first; any token but Ether is  *)
(* whitelisted too. Then the screen reads its list again, and once more     *)
(* when it hears that the displayed list has changed.                       *)
ChoosePayment(t) ==
  /\ Choosing
  /\ ui.screen = "payment"
  /\ t \in ui.offers \cup {Ether}
  /\ CountChoice
  /\ payment' = t
  /\ IF t = Ether
     THEN /\ ui' = [ui EXCEPT !.offers = PaymentOffers]
          /\ UNCHANGED <<items, chosen, ordered, wanted, merge, up, alive>>
     ELSE WhitelistToken(t, [ui EXCEPT !.offers = PaymentOffers, !.reload = TRUE])
  /\ UNCHANGED <<listing, chain, accounts>>

Kill ==
  /\ alive
  /\ used.kills < MaxKills
  /\ used' = [used EXCEPT !.kills = @ + 1]
  /\ Ended
  /\ UNCHANGED <<listing, chain, items, accounts, payment, chosen, ordered>>

Relaunch ==
  /\ ~alive
  /\ alive' = TRUE
  /\ UNCHANGED <<listing, chain, items, accounts, payment, merge, up, wanted, ui,
                 chosen, ordered, used>>

-----------------------------------------------------------------------------
(* mergeStoredTokenItems(), on the thread of syncOnce().                    *)

(* The list is downloaded, at launch or after a deployment. *)
StartMerge ==
  /\ alive
  /\ merge.at = "idle"
  /\ used.merges < MaxMerges
  /\ merge' = [NoMerge EXCEPT !.at = "stored", !.list = listing]
  /\ used' = [used EXCEPT !.merges = @ + 1]
  /\ UNCHANGED <<listing, chain, items, accounts, payment, up, wanted, ui, alive,
                 chosen, ordered>>

(* Faulty variant: whitelisted items are deleted like the others. *)
GoneWhatever == {t \in Stored : merge.list[t] = "gone"}

Gone == {t \in Stored \ Whitelisted : merge.list[t] = "gone"}

MergeReadStored ==
  /\ merge.at = "stored"
  /\ merge' = [merge EXCEPT !.at = "delete", !.todo = Gone]
  /\ UNCHANGED <<listing, chain, items, accounts, payment, up, wanted, ui, alive,
                 chosen, ordered, used>>

MergeDelete(t) ==
  /\ merge.at = "delete"
  /\ t \in merge.todo
  /\ items' = [items EXCEPT ![t] = [status |-> "absent", place |-> NoPlace]]
  /\ merge' = [merge EXCEPT !.todo = @ \ {t}]
  /\ chosen' = [chosen EXCEPT ![t] = IF @ = "hidden" THEN "nothing" ELSE @]
  /\ UNCHANGED <<listing, chain, accounts, payment, up, wanted, ui, alive,
                 ordered, used>>

(* The second read of the repository, for the items that keep their status. *)
MergeReadKnown ==
  /\ merge.at = "delete"
  /\ merge.todo = {}
  /\ merge' = [merge EXCEPT !.at = "save", !.known = items,
                            !.todo = {t \in Token : merge.list[t] # "gone"}]
  /\ UNCHANGED <<listing, chain, items, accounts, payment, up, wanted, ui, alive,
                 chosen, ordered, used>>

Decided(t) == merge.known[t].status \in {"whitelisted", "blacklisted"}

(* Faulty variant: the item is rebuilt without its sorting id. *)
MergedRowUnsorted(t) ==
  IF Decided(t)
  THEN Prepared(t, merge.known[t].status, NoPlace)
  ELSE Prepared(t, IF merge.list[t] = "default" THEN "whitelisted" ELSE "regular",
                NoPlace)

(* updateTokenItemWithTokenInfoOnly() keeps the status and the place that   *)
(* were read; every other item of the list is saved as the server sent it.  *)
MergedRow(t) ==
  IF Decided(t)
  THEN Prepared(t, merge.known[t].status, merge.known[t].place)
  ELSE Prepared(t, IF merge.list[t] = "default" THEN "whitelisted" ELSE "regular",
                NoPlace)

(* save() prepares the item and then writes it. The items that keep their   *)
(* status come before the rest of the list.                                 *)
MergePrepare(t) ==
  /\ merge.at = "save"
  /\ t \in merge.todo
  /\ Decided(t) \/ \A u \in merge.todo : ~Decided(u)
  /\ merge' = [merge EXCEPT !.at = "write", !.t = t, !.row = MergedRow(t)]
  /\ UNCHANGED <<listing, chain, items, accounts, payment, up, wanted, ui, alive,
                 chosen, ordered, used>>

MergeWrite ==
  /\ merge.at = "write"
  /\ items' = [items EXCEPT ![merge.t] = merge.row]
  /\ merge' = [merge EXCEPT !.at = "save", !.t = NoToken, !.row = NoMerge.row,
                            !.todo = @ \ {merge.t}]
  /\ UNCHANGED <<listing, chain, accounts, payment, up, wanted, ui, alive,
                 chosen, ordered, used>>

EndMerge ==
  /\ merge.at = "save"
  /\ merge.todo = {}
  /\ merge' = NoMerge
  /\ UNCHANGED <<listing, chain, items, accounts, payment, up, wanted, ui, alive,
                 chosen, ordered, used>>

-----------------------------------------------------------------------------
(* AccountUpdateDomainService, on threads of the global queue.              *)

Tracked == Whitelisted \cup (Stored \cap Gas)

(* updateAccountsBalances(): the loop, syncOnce() and pulling down a list.  *)
StartUpdate(u) ==
  /\ alive
  /\ up[u].at = "idle"
  /\ up' = [up EXCEPT ![u].at = "stored"]
  /\ UNCHANGED <<listing, chain, items, accounts, payment, merge, wanted, ui,
                 alive, chosen, ordered, used>>

(* addMissingAccounts...: the tokens without an account are determined ...  *)
ReadMissing(u) ==
  /\ up[u].at = "stored"
  /\ up' = [up EXCEPT ![u].at = "missing",
                      ![u].todo = {t \in Tracked : accounts[t] = NoAccount}]
  /\ UNCHANGED <<listing, chain, items, accounts, payment, merge, wanted, ui,
                 alive, chosen, ordered, used>>

(* ... and get one, which replaces what was stored in between.              *)
SaveMissing(u) ==
  /\ up[u].at = "missing"
  /\ accounts' = [t \in Token |-> IF t \in up[u].todo THEN NoBalance
                                  ELSE accounts[t]]
  /\ up' = [up EXCEPT ![u].at = "collect", ![u].todo = {}]
  /\ UNCHANGED <<listing, chain, items, payment, merge, wanted, ui, alive,
                 chosen, ordered, used>>

(* Faulty variant: only new accounts are asked for. *)
NewAccounts == {t \in Tracked : accounts[t] = NoBalance}

TrackedAccounts == {t \in Tracked : accounts[t] # NoAccount}

Collect(u) ==
  /\ up[u].at = "collect"
  /\ up' = [up EXCEPT ![u].at = "next", ![u].todo = TrackedAccounts]
  /\ UNCHANGED <<listing, chain, items, accounts, payment, merge, wanted, ui,
                 alive, chosen, ordered, used>>

(* updateAccountBalance(token:) of a token that was just whitelisted.       *)
StartSingle(u, t) ==
  /\ alive
  /\ up[u].at = "idle"
  /\ t \in wanted
  /\ wanted' = wanted \ {t}
  /\ accounts' = [accounts EXCEPT ![t] = IF @ = NoAccount THEN NoBalance ELSE @]
  /\ up' = [up EXCEPT ![u].at = "next", ![u].todo = {t}]
  /\ UNCHANGED <<listing, chain, items, payment, merge, ui, alive, chosen,
                 ordered, used>>

(* The item is unwrapped to find the token's contract, and the node asked.  *)
Request(u, t) ==
  /\ up[u].at = "next"
  /\ t \in up[u].todo
  /\ IF t \notin Stored
     THEN Ended
     ELSE /\ up' = [up EXCEPT ![u].at = "store", ![u].t = t, ![u].got = chain[t]]
          /\ UNCHANGED <<merge, wanted, ui, alive>>
  /\ UNCHANGED <<listing, chain, items, accounts, payment, chosen, ordered, used>>

StoreBalance(u) ==
  /\ up[u].at = "store"
  /\ accounts' = [accounts EXCEPT ![up[u].t] = up[u].got]
  /\ up' = [up EXCEPT ![u] = [NoUpdate EXCEPT !.at = "next",
                                             !.todo = up[u].todo \ {up[u].t}]]
  /\ UNCHANGED <<listing, chain, items, payment, merge, wanted, ui, alive, chosen,
                 ordered, used>>

(* AccountsBalancesUpdated is published; the payment screen listens to it.  *)
EndUpdate(u) ==
  /\ up[u].at = "next"
  /\ up[u].todo = {}
  /\ up' = [up EXCEPT ![u] = NoUpdate]
  /\ ui' = IF ui.screen = "payment" THEN [ui EXCEPT !.reload = TRUE] ELSE ui
  /\ UNCHANGED <<listing, chain, items, accounts, payment, merge, wanted, alive,
                 chosen, ordered, used>>

(* An error of the node ends the update and publishes nothing.              *)
FailUpdate(u) ==
  /\ up[u].at = "store"
  /\ used.failures < MaxFailures
  /\ used' = [used EXCEPT !.failures = @ + 1]
  /\ up' = [up EXCEPT ![u] = NoUpdate]
  /\ UNCHANGED <<listing, chain, items, accounts, payment, merge, wanted, ui,
                 alive, chosen, ordered>>

-----------------------------------------------------------------------------
UserStep ==
  \/ OpenManage
  \/ OpenAdd
  \/ OpenPayment
  \/ Close
  \/ \E from, to \in 1 .. Len(ui.shown) : Move(from, to)
  \/ \E i \in 1 .. Len(ui.shown) : Hide(i)
  \/ \E t \in Token : Add(t)
  \/ \E t \in Token \cup {Ether} : ChoosePayment(t)

MergeStep ==
  \/ MergeReadStored
  \/ \E t \in Token : MergeDelete(t)
  \/ MergeReadKnown
  \/ \E t \in Token : MergePrepare(t)
  \/ MergeWrite
  \/ EndMerge

UpdateStep(u) ==
  \/ StartUpdate(u)
  \/ ReadMissing(u)
  \/ SaveMissing(u)
  \/ Collect(u)
  \/ \E t \in Token : StartSingle(u, t)
  \/ \E t \in Token : Request(u, t)
  \/ StoreBalance(u)
  \/ EndUpdate(u)

Next ==
  \/ \E t \in Token, l \in {"gone", "regular", "default"} : ServerChanges(t, l)
  \/ \E t \in Token : Transfer(t)
  \/ UserStep
  \/ Reload
  \/ Kill
  \/ Relaunch
  \/ StartMerge
  \/ MergeStep
  \/ \E u \in Updater : UpdateStep(u) \/ FailUpdate(u)

Spec == Init /\ [][Next]_vars

(* Threads go on, and the loop updates the balances again and again while   *)
(* the app is open. Nothing is assumed of the user and the server.          *)
FairSpec ==
  /\ Spec
  /\ WF_vars(MergeStep)
  /\ \A u \in Updater : WF_vars(UpdateStep(u))

-----------------------------------------------------------------------------
(* Properties. *)

(* A token the user added stays visible whatever the server lists, and one   *)
(* he hid stays hidden for as long as its item is stored, through merges,    *)
(* updates and kills, if he never chose anything during a merge              *)
(* (mergeStoredTokenItems(), prepareToSave()).                               *)
ChoiceIsKept ==
  ~used.hasty => \A t \in Token :
    /\ chosen[t] = "shown" => items[t].status = "whitelisted"
    /\ chosen[t] = "hidden" => items[t].status = "blacklisted"

(* Under the same condition the order the user gave to his tokens is the     *)
(* stored one, through merges that save all of them again.                   *)
OrderIsKept ==
  ~used.hasty => \A p \in ordered : items[p[1]].place < items[p[2]].place

(* "Whitelisted and blacklisted token items should keep its status": also    *)
(* when the user chooses during the merge.                                   *)
ChoiceIsAlwaysKept ==
  \A t \in Token :
    /\ chosen[t] = "shown" => items[t].status = "whitelisted"
    /\ chosen[t] = "hidden" => items[t].status = "blacklisted"

(* Balances are read by threads that overtake each other and accounts are    *)
(* created over existing ones, yet a token that stays in the list of an app  *)
(* that stays open ends up with the balance the chain has.                   *)
BalanceFollows ==
  \A t \in Token :
    <>[](alive /\ items[t].status = "whitelisted")
      => <>[](accounts[t] = chain[t])

(* "Updating whitelisted token should not influence its sorting id": every   *)
(* whitelisted token has one.                                                *)
WhitelistedHasPlace ==
  \A t \in Whitelisted : items[t].place # NoPlace

(* "This payment method will be used to pay network fees in all              *)
(* transactions": feePaymentTokenData, which the screens show, is the token  *)
(* that estimates and transactions take from the wallet.                     *)
FeeMethodShown ==
  LET shown == IF payment \in Stored THEN payment ELSE Ether
  IN payment = shown

(* find(id:)! of the lists and of the balance update asserts that the item   *)
(* is still stored: the process ends only when it is killed.                 *)
ItemIsThere == ~alive => used.kills > 0
=============================================================================
