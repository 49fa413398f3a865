--------------------------- MODULE AssetListProofs ---------------------------
(***************************************************************************)
(* Proofs about AssetList, for any finite set of tokens, any number of     *)
(* updating threads and any bounds: merges with the server's list keep     *)
(* what the user decided about a token and the order he gave to them, if   *)
(* he decided nothing while one was running.                               *)
(***************************************************************************)
EXTENDS AssetList, FiniteSetTheorems, SequenceTheorems, WellFoundedInduction, TLAPS

Listings == [Token -> {"gone", "regular", "default"}]
MergeRecords ==
  [at : {"idle", "stored", "delete", "known", "save", "write"}, list : Listings,
   todo : SUBSET Token, known : [Token -> Item], t : Token \cup {NoToken}, row : Item]
UpdateRecords ==
  [at : {"idle", "stored", "missing", "collect", "next", "store"},
   todo : SUBSET Token, t : Token \cup {NoToken}, got : 0 .. MaxBalance]
ScreenRecords ==
  [screen : {"assets", "manage", "add", "payment"}, shown : Seq(Token),
   offers : SUBSET Token, reload : BOOLEAN]
UsedRecords ==
  [listings : Nat, merges : Nat, choices : Nat, failures : Nat, kills : Nat,
   hasty : BOOLEAN]

(* Only a whitelisted item has a place. *)
Proper(item) == item.status # "whitelisted" => item.place = NoPlace

ItemsInv ==
  /\ items \in [Token -> Item]
  /\ \A t \in Token : Proper(items[t])
  /\ \E m \in Nat : \A t \in Token : items[t].place <= m

MergeInv ==
  /\ merge \in MergeRecords
  /\ \A t \in Token : Proper(merge.known[t])
  /\ Proper(merge.row)
  /\ merge.at = "write" => merge.t \in Token

(* A token is listed once. *)
Distinct(s) == \A i, j \in 1 .. Len(s) : i # j => s[i] # s[j]

ScreenInv == ui \in ScreenRecords /\ Distinct(ui.shown)

BalanceInv ==
  /\ listing \in Listings
  /\ chain \in [Token -> 0 .. MaxBalance]
  /\ accounts \in [Token -> (0 .. MaxBalance) \cup {NoBalance, NoAccount}]
  /\ payment \in Token \cup {Ether}
  /\ up \in [Updater -> UpdateRecords]
  /\ \A u \in Updater : up[u].at = "store" => up[u].t \in Token
  /\ wanted \subseteq Token
  /\ alive \in BOOLEAN

HistoryInv ==
  /\ chosen \in [Token -> {"nothing", "shown", "hidden"}]
  /\ ordered \subseteq Token \X Token
  /\ used \in UsedRecords

(* What the user decided is stored. *)
ChoiceOK(t) ==
  /\ chosen[t] = "shown" => items[t].status = "whitelisted"
  /\ chosen[t] = "hidden" => items[t].status = "blacklisted"

OrderOK(p) ==
  /\ items[p[1]].status = "whitelisted" /\ items[p[2]].status = "whitelisted"
  /\ items[p[1]].place < items[p[2]].place

(* The merge saves what was decided as it is stored; about the other tokens *)
(* the user has decided nothing.                                            *)
SnapshotOK(t) ==
  /\ Decided(t) => items[t] = merge.known[t]
  /\ ~Decided(t) => chosen[t] = "nothing" /\ \A p \in ordered : p[1] # t /\ p[2] # t

(* If the user decided nothing during a merge: what he decided is stored, a *)
(* merge deletes no whitelisted item, and it writes what it has read.       *)
KeptInv ==
  ~used.hasty =>
    /\ \A t \in Token : ChoiceOK(t)
    /\ \A p \in ordered : OrderOK(p)
    /\ merge.at = "delete" => \A t \in merge.todo : items[t].status # "whitelisted"
    /\ merge.at \in {"save", "write"} => \A t \in Token : SnapshotOK(t)
    /\ merge.at = "write" /\ Decided(merge.t) => merge.row = items[merge.t]

IInv == ItemsInv /\ MergeInv /\ ScreenInv /\ BalanceInv /\ HistoryInv /\ KeptInv

-----------------------------------------------------------------------------
(* Numbers: the end of the list is a place. *)

LEMMA LeastNatural ==
  ASSUME NEW T \in SUBSET Nat, T # {}
  PROVE  \E x \in T : \A y \in T : x <= y
<1> DEFINE R == OpToRel(<, Nat)
<1>1. IsWellFoundedOn(R, Nat)
  BY NatLessThanWellFounded
<1>2. ASSUME NEW x \in Nat, NEW y \in Nat, y < x PROVE <<y, x>> \in R
  BY <1>2 DEF OpToRel
<1> HIDE DEF R
<1>3. PICK x \in T : \A y \in T : ~(<<y, x>> \in R)
  BY <1>1, WFMin
<1>4. \A a, b \in Nat : b < a => <<b, a>> \in R
  BY <1>2
<1>5. \A y \in T : ~(y < x)
  BY <1>3, <1>4
<1>6. \A y \in T : y \in Nat /\ x \in Nat
  OBVIOUS
<1> QED BY <1>5, <1>6

LEMMA MaxFacts ==
  ASSUME NEW S \in SUBSET Int, S # {}, NEW m \in Int, \A x \in S : x <= m
  PROVE  Max(S) \in S /\ \A x \in S : x <= Max(S)
<1> DEFINE T == {n \in Nat : m - n \in S}
<1>1. T \in SUBSET Nat
  OBVIOUS
<1>2. T # {}
  <2>1. PICK x \in S : TRUE
    OBVIOUS
  <2>2. m - x \in T
    OBVIOUS
  <2> QED BY <2>2
<1>3. PICK n \in T : \A k \in T : n <= k
  <2> HIDE DEF T
  <2> QED BY <1>1, <1>2, LeastNatural
<1>4. \A y \in S : m - y \in T
  OBVIOUS
<1>5. m - n \in S /\ \A y \in S : m - n >= y
  BY <1>3, <1>4
<1>6. \A y \in S : Max(S) >= y /\ Max(S) \in S
  BY <1>5 DEF Max
<1> QED BY <1>6

(* prepareToSave gives an item its place: the end of the list is after every *)
(* place that is taken, and an item that keeps its status its place.         *)
LEMMA PreparedFacts ==
  ASSUME ItemsInv, NEW t \in Token, NEW status \in Status \ {"absent"},
         NEW place \in {NoPlace} \cup Nat, status # "whitelisted" => place = NoPlace
  PROVE  /\ Prepared(t, status, place) \in Item
         /\ Proper(Prepared(t, status, place))
         /\ Prepared(t, status, place).status = status
         /\ items[t].status = status => Prepared(t, status, place).place = place
<1> DEFINE S == {NoPlace} \cup {items[u].place : u \in Whitelisted}
           q == CASE items[t].status = "whitelisted" /\ status # "whitelisted" -> NoPlace
                  [] items[t].status # "whitelisted" /\ status = "whitelisted" -> 1 + Max(S)
                  [] OTHER -> place
<1>1. NoPlace = -1
  BY DEF NoPlace
<1>2. \A u \in Token : items[u].place \in {NoPlace} \cup Nat
  BY DEF ItemsInv, Item
<1>3. S \in SUBSET Int /\ NoPlace \in S /\ \A x \in S : x >= NoPlace
  BY <1>1, <1>2 DEF Whitelisted
<1>4. PICK m \in Nat : \A u \in Token : items[u].place <= m
  BY DEF ItemsInv
<1>5. \A x \in S : x <= m
  BY <1>1, <1>4 DEF Whitelisted
<1>6. Max(S) \in S
  <2> HIDE DEF S
  <2> QED BY <1>3, <1>5, MaxFacts
<1>7. 1 + Max(S) \in Nat
  <2> DEFINE x == Max(S)
  <2>1. x \in Int /\ x >= -1
    <3> HIDE DEF S
    <3> QED BY <1>1, <1>3, <1>6
  <2> HIDE DEF x
  <2>2. 1 + x \in Nat
    BY <2>1
  <2> QED BY <2>2 DEF x
<1>8. Prepared(t, status, place) = [status |-> status, place |-> q]
  BY DEF Prepared
<1> HIDE DEF S
<1>9. q \in {NoPlace} \cup Nat
  BY <1>7
<1>10. status # "whitelisted" => q = NoPlace
  OBVIOUS
<1>11. items[t].status = status => q = place
  OBVIOUS
<1> HIDE DEF q
<1> QED BY <1>8, <1>9, <1>10, <1>11 DEF Item, Proper

-----------------------------------------------------------------------------
(* What a step leaves alone, and what it writes. *)

LEMMA ItemsSame ==
  ASSUME ItemsInv, UNCHANGED items
  PROVE  ItemsInv'
BY DEF ItemsInv, Proper

LEMMA ItemWritten ==
  ASSUME ItemsInv, NEW t \in Token, NEW row \in Item, Proper(row),
         items' = [items EXCEPT ![t] = row]
  PROVE  /\ ItemsInv'
         /\ items'[t] = row /\ \A s \in Token \ {t} : items'[s] = items[s]
<1>1. /\ items' \in [Token -> Item]
      /\ items'[t] = row /\ \A s \in Token \ {t} : items'[s] = items[s]
  BY DEF ItemsInv
<1>2. \A s \in Token : Proper(items'[s])
  BY <1>1 DEF ItemsInv
<1>3. PICK m \in Nat : \A s \in Token : items[s].place <= m
  BY DEF ItemsInv
<1>4. row.place \in {-1} \cup Nat /\ \A s \in Token : items[s].place \in {-1} \cup Nat
  BY DEF Item, ItemsInv, NoPlace
<1> DEFINE n == IF row.place <= m THEN m ELSE row.place
<1>5. n \in Nat /\ m <= n /\ row.place <= n
  BY <1>4
<1> HIDE DEF n
<1>6. \A s \in Token : items'[s].place <= n
  BY <1>1, <1>3, <1>4, <1>5
<1>7. \E k \in Nat : \A s \in Token : items'[s].place <= k
  BY <1>5, <1>6
<1> QED BY <1>1, <1>2, <1>7 DEF ItemsInv, Proper

LEMMA MergeSame ==
  ASSUME MergeInv, UNCHANGED merge
  PROVE  MergeInv'
BY DEF MergeInv, Proper

LEMMA ScreenSame ==
  ASSUME ScreenInv, UNCHANGED ui
  PROVE  ScreenInv'
BY DEF ScreenInv, Distinct

LEMMA BalanceSame ==
  ASSUME BalanceInv, UNCHANGED <<listing, chain, accounts, payment, up, wanted, alive>>
  PROVE  BalanceInv'
BY DEF BalanceInv

LEMMA HistorySame ==
  ASSUME HistoryInv, UNCHANGED <<chosen, ordered, used>>
  PROVE  HistoryInv'
BY DEF HistoryInv

LEMMA KeptSame ==
  ASSUME KeptInv, UNCHANGED <<items, merge, chosen, ordered>>, used'.hasty = used.hasty
  PROVE  KeptInv'
BY DEF KeptInv, ChoiceOK, OrderOK, SnapshotOK, Decided

(* Counters that count something else. *)
LEMMA UsedFacts ==
  ASSUME used \in UsedRecords
  PROVE  /\ [used EXCEPT !.listings = @ + 1] \in UsedRecords
         /\ [used EXCEPT !.listings = @ + 1].hasty = used.hasty
         /\ [used EXCEPT !.merges = @ + 1] \in UsedRecords
         /\ [used EXCEPT !.merges = @ + 1].hasty = used.hasty
         /\ [used EXCEPT !.failures = @ + 1] \in UsedRecords
         /\ [used EXCEPT !.failures = @ + 1].hasty = used.hasty
         /\ [used EXCEPT !.kills = @ + 1] \in UsedRecords
         /\ [used EXCEPT !.kills = @ + 1].hasty = used.hasty
BY DEF UsedRecords

LEMMA CountChoiceFacts ==
  ASSUME used \in UsedRecords, CountChoice
  PROVE  /\ used' \in UsedRecords
         /\ ~used'.hasty => ~used.hasty /\ merge.at = "idle"
<1> DEFINE h == used.hasty \/ merge.at # "idle"
<1>1. h \in BOOLEAN
  OBVIOUS
<1> DEFINE n == used.choices + 1
           v == [used EXCEPT !.choices = n]
<1>2. n \in Nat
  BY DEF UsedRecords
<1>3. used' = [used EXCEPT !.choices = n, !.hasty = v.hasty \/ merge.at # "idle"]
  BY DEF CountChoice
<1> HIDE DEF n
<1>4. v \in UsedRecords /\ v.hasty = used.hasty
  BY <1>2 DEF UsedRecords
<1>5. used' = [v EXCEPT !.hasty = h]
  BY <1>3, <1>4
<1> HIDE DEF h, v
<1>6. used' \in UsedRecords /\ used'.hasty = h
  BY <1>1, <1>4, <1>5 DEF UsedRecords
<1> QED BY <1>6 DEF h

-----------------------------------------------------------------------------
(* The process ends. *)

LEMMA ConstantFacts ==
  /\ Gas \subseteq Token /\ MaxBalance \in Nat
  /\ NoPlace = -1 /\ NoBalance = -1 /\ NoAccount = -2
BY AssetListAssumption DEF NoPlace, NoBalance, NoAccount

LEMMA NoMergeFacts ==
  /\ NoMerge \in MergeRecords /\ NoMerge.at = "idle"
  /\ \A t \in Token : Proper(NoMerge.known[t])
  /\ Proper(NoMerge.row)
  /\ NoMerge.row \in Item
<1> DEFINE none == [status |-> "absent", place |-> NoPlace]
           list == [t \in Token |-> "gone"]
           known == [t \in Token |-> none]
<1>1. none \in Item /\ Proper(none)
  BY DEF Item, Status, Proper
<1>2. list \in Listings
  BY DEF Listings
<1>3. known \in [Token -> Item] /\ \A t \in Token : known[t] = none
  BY <1>1
<1>4. NoMerge = [at |-> "idle", list |-> list, todo |-> {}, known |-> known,
                 t |-> NoToken, row |-> none]
  BY DEF NoMerge
<1> HIDE DEF none, list, known
<1>5. NoMerge \in MergeRecords /\ NoMerge.at = "idle" /\ NoMerge.known = known /\ NoMerge.row = none
  BY <1>1, <1>2, <1>3, <1>4 DEF MergeRecords
<1> QED BY <1>1, <1>3, <1>5

LEMMA NoUpdateFacts ==
  NoUpdate \in UpdateRecords /\ NoUpdate.at = "idle"
BY ConstantFacts DEF NoUpdate, UpdateRecords

LEMMA AssetsFacts ==
  Assets \in ScreenRecords /\ Distinct(Assets.shown)
<1> DEFINE e == <<>>
<1>1. e \in Seq(Token) /\ Len(e) = 0
  OBVIOUS
<1>2. Assets = [screen |-> "assets", shown |-> e, offers |-> {}, reload |-> FALSE]
  BY DEF Assets
<1> HIDE DEF e
<1>3. Assets \in ScreenRecords /\ Assets.shown = e
  BY <1>1, <1>2 DEF ScreenRecords
<1> QED BY <1>1, <1>3 DEF Distinct

(* Nothing is being merged: only what is stored matters. *)
LEMMA KeptIdle ==
  ASSUME merge'.at = "idle",
         ~used'.hasty => /\ \A t \in Token : ChoiceOK(t)'
                         /\ \A p \in ordered' : OrderOK(p)'
  PROVE  KeptInv'
BY DEF KeptInv

LEMMA EndedKeeps ==
  ASSUME IInv, Ended, UNCHANGED <<listing, chain, accounts, items, chosen, ordered>>,
         payment' \in Token \cup {Ether}, used' \in UsedRecords,
         ~used'.hasty => ~used.hasty
  PROVE  IInv'
<1> USE DEF Ended
<1>1. ItemsInv' /\ HistoryInv'
  BY ItemsSame DEF IInv, HistoryInv
<1>2. MergeInv'
  BY NoMergeFacts DEF MergeInv, Proper
<1>3. ScreenInv'
  BY AssetsFacts DEF ScreenInv, Distinct
<1>4. BalanceInv'
  <2>1. up' \in [Updater -> UpdateRecords] /\ \A u \in Updater : up'[u].at = "idle"
    BY NoUpdateFacts
  <2> QED BY <2>1 DEF IInv, BalanceInv
<1>5. KeptInv'
  <2>1. merge'.at = "idle"
    BY NoMergeFacts
  <2>2. ASSUME ~used'.hasty
        PROVE  (\A t \in Token : ChoiceOK(t)') /\ (\A p \in ordered' : OrderOK(p)')
    BY <2>2 DEF IInv, KeptInv, ChoiceOK, OrderOK
  <2> QED BY <2>1, <2>2, KeptIdle
<1> QED BY <1>1, <1>2, <1>3, <1>4, <1>5 DEF IInv

LEMMA KillKeeps ==
  ASSUME IInv, Kill
  PROVE  IInv'
<1>1. used' \in UsedRecords /\ used'.hasty = used.hasty
  BY UsedFacts DEF Kill, IInv, HistoryInv
<1>2. payment' \in Token \cup {Ether}
  BY DEF Kill, IInv, BalanceInv
<1> QED BY <1>1, <1>2, EndedKeeps DEF Kill

LEMMA RelaunchKeeps ==
  ASSUME IInv, Relaunch
  PROVE  IInv'
<1> USE DEF Relaunch
<1>1. ItemsInv' /\ MergeInv' /\ ScreenInv' /\ HistoryInv' /\ KeptInv'
  BY ItemsSame, MergeSame, ScreenSame, HistorySame, KeptSame DEF IInv
<1>2. BalanceInv'
  BY DEF IInv, BalanceInv
<1> QED BY <1>1, <1>2 DEF IInv

-----------------------------------------------------------------------------
(* Outside. *)

LEMMA ServerChangesKeeps ==
  ASSUME IInv, NEW t \in Token, NEW l \in {"gone", "regular", "default"}, ServerChanges(t, l)
  PROVE  IInv'
<1> USE DEF ServerChanges
<1>1. used' \in UsedRecords /\ used'.hasty = used.hasty
  BY UsedFacts DEF IInv, HistoryInv
<1>2. ItemsInv' /\ MergeInv' /\ ScreenInv' /\ KeptInv'
  BY <1>1, ItemsSame, MergeSame, ScreenSame, KeptSame DEF IInv
<1>3. HistoryInv'
  BY <1>1 DEF IInv, HistoryInv
<1>4. BalanceInv'
  BY DEF IInv, BalanceInv, Listings
<1> QED BY <1>2, <1>3, <1>4 DEF IInv

LEMMA TransferKeeps ==
  ASSUME IInv, NEW t \in Token, Transfer(t)
  PROVE  IInv'
<1> USE DEF Transfer
<1>1. ItemsInv' /\ MergeInv' /\ ScreenInv' /\ HistoryInv' /\ KeptInv'
  BY ItemsSame, MergeSame, ScreenSame, HistorySame, KeptSame DEF IInv
<1>2. chain' \in [Token -> 0 .. MaxBalance]
  BY ConstantFacts DEF IInv, BalanceInv
<1>3. BalanceInv'
  BY <1>2 DEF IInv, BalanceInv
<1> QED BY <1>1, <1>3 DEF IInv

-----------------------------------------------------------------------------
(* The screens. *)

(* A step of the screens that stores nothing. *)
LEMMA ScreenFrame ==
  ASSUME IInv, ScreenInv',
         UNCHANGED <<listing, chain, items, accounts, payment, merge, up, wanted,
                     alive, chosen, ordered, used>>
  PROVE  IInv'
BY ItemsSame, MergeSame, BalanceSame, HistorySame, KeptSame DEF IInv

LEMMA OpenKeeps ==
  ASSUME IInv, NEW screen \in {"assets", "manage", "add", "payment"},
         NEW offers \in SUBSET Token, Open(screen, offers)
  PROVE  IInv'
<1> DEFINE r == (screen = "manage")
<1>1. ui' = [screen |-> screen, shown |-> ui.shown, offers |-> offers, reload |-> r]
  BY DEF Open
<1>2. r \in BOOLEAN /\ ui.shown \in Seq(Token) /\ Distinct(ui.shown)
  BY DEF IInv, ScreenInv, ScreenRecords
<1> HIDE DEF r
<1>3. ui' \in ScreenRecords /\ ui'.shown = ui.shown
  BY <1>1, <1>2 DEF ScreenRecords
<1>4. ScreenInv'
  BY <1>2, <1>3 DEF ScreenInv, Distinct
<1> QED BY <1>4, ScreenFrame DEF Open

LEMMA OpensKeeps ==
  ASSUME IInv, OpenManage \/ OpenAdd \/ OpenPayment
  PROVE  IInv'
<1>1. Stored \ Whitelisted \in SUBSET Token /\ PaymentOffers \in SUBSET Token
  BY DEF Stored, Whitelisted, PaymentOffers
<1>2. CASE OpenManage
  BY <1>2, OpenKeeps DEF OpenManage
<1>3. CASE OpenAdd
  BY <1>1, <1>3, OpenKeeps DEF OpenAdd
<1>4. CASE OpenPayment
  BY <1>1, <1>4, OpenKeeps DEF OpenPayment
<1> QED BY <1>2, <1>3, <1>4

(* The screen changes in all but what it lists. *)
LEMMA ScreenWith ==
  ASSUME ui \in ScreenRecords
  PROVE  /\ \A s \in {"assets", "manage", "add", "payment"} :
              /\ [ui EXCEPT !.screen = s] \in ScreenRecords
              /\ [ui EXCEPT !.screen = s].shown = ui.shown
         /\ [ui EXCEPT !.reload = TRUE] \in ScreenRecords
         /\ [ui EXCEPT !.reload = TRUE].shown = ui.shown
         /\ [ui EXCEPT !.screen = "manage", !.reload = TRUE] \in ScreenRecords
         /\ [ui EXCEPT !.screen = "manage", !.reload = TRUE].shown = ui.shown
         /\ \A o \in SUBSET Token :
              /\ [ui EXCEPT !.offers = o] \in ScreenRecords
              /\ [ui EXCEPT !.offers = o].shown = ui.shown
              /\ [ui EXCEPT !.offers = o, !.reload = FALSE] \in ScreenRecords
              /\ [ui EXCEPT !.offers = o, !.reload = FALSE].shown = ui.shown
              /\ [ui EXCEPT !.offers = o, !.reload = TRUE] \in ScreenRecords
              /\ [ui EXCEPT !.offers = o, !.reload = TRUE].shown = ui.shown
BY DEF ScreenRecords

LEMMA ShownSame ==
  ASSUME ScreenInv, ui' \in ScreenRecords, ui'.shown = ui.shown
  PROVE  ScreenInv'
BY DEF ScreenInv, Distinct

LEMMA CloseKeeps ==
  ASSUME IInv, Close
  PROVE  IInv'
<1>1. ui \in ScreenRecords /\ ScreenInv
  BY DEF IInv, ScreenInv
<1>2. ScreenInv'
  <2>1. CASE ui' = [ui EXCEPT !.screen = "manage"]
    BY <1>1, <2>1, ScreenWith, ShownSame
  <2>2. CASE ui' = Assets
    BY <2>2, AssetsFacts DEF ScreenInv, Distinct
  <2> QED BY <2>1, <2>2 DEF Close
<1> QED BY <1>2, ScreenFrame DEF Close

(* The list is read: every visible token once. *)
LEMMA VisibleOrderFacts ==
  ASSUME NEW s \in VisibleOrders
  PROVE  s \in Seq(Token) /\ Distinct(s)
<1> DEFINE n == Cardinality(Visible)
<1>1. Visible \subseteq Token
  BY DEF Visible, Whitelisted
<1>2. IsFiniteSet(Visible)
  BY <1>1, FS_Subset, AssetListAssumption
<1>3. n \in Nat
  BY <1>2, FS_CardinalityType
<1>4. s \in [1 .. n -> Visible] /\ \A i, j \in 1 .. n : i # j => s[i] # s[j]
  BY DEF VisibleOrders, SetToSeqs
<1> HIDE DEF n
<1>5. s \in Seq(Visible) /\ Len(s) = n
  BY <1>3, <1>4
<1>6. s \in Seq(Token)
  BY <1>1, <1>3, <1>4
<1> QED BY <1>4, <1>5, <1>6 DEF Distinct

LEMMA ReloadKeeps ==
  ASSUME IInv, Reload
  PROVE  IInv'
<1>1. ui \in ScreenRecords /\ ScreenInv
  BY DEF IInv, ScreenInv
<1>2. ScreenInv'
  <2>1. CASE ui' = [ui EXCEPT !.offers = PaymentOffers, !.reload = FALSE]
    <3>1. PaymentOffers \in SUBSET Token
      BY DEF PaymentOffers, Stored
    <3> QED BY <1>1, <2>1, <3>1, ScreenWith, ShownSame
  <2>2. ASSUME NEW s \in VisibleOrders, ui' = [ui EXCEPT !.shown = s, !.reload = FALSE]
        PROVE  ScreenInv'
    <3>1. s \in Seq(Token) /\ Distinct(s)
      BY VisibleOrderFacts
    <3>2. ui' \in ScreenRecords /\ ui'.shown = s
      BY <1>1, <2>2, <3>1 DEF ScreenRecords
    <3> QED BY <3>1, <3>2 DEF ScreenInv, Distinct
  <2> QED BY <2>1, <2>2 DEF Reload
<1> QED BY <1>2, ScreenFrame DEF Reload

-----------------------------------------------------------------------------
(* Choices. *)

(* Two lists one after the other. *)
LEMMA JoinFacts ==
  ASSUME NEW u \in Seq(Token), NEW v \in Seq(Token)
  PROVE  /\ u \o v \in Seq(Token) /\ Len(u \o v) = Len(u) + Len(v)
         /\ \A i \in 1 .. Len(u) : (u \o v)[i] = u[i]
         /\ \A i \in Len(u) + 1 .. Len(u) + Len(v) : (u \o v)[i] = v[i - Len(u)]
<1> DEFINE w == u \o v
           k == Len(u)
           l == Len(v)
<1>1. /\ w \in Seq(Token) /\ Len(w) = k + l
      /\ \A i \in 1 .. k + l : w[i] = IF i <= k THEN u[i] ELSE v[i - k]
  BY ConcatProperties, Zenon
<1>2. k \in Nat /\ l \in Nat
  OBVIOUS
<1> HIDE DEF w, k, l
<1>3. \A i \in 1 .. k : w[i] = u[i]
  BY <1>1, <1>2
<1>4. \A i \in k + 1 .. k + l : w[i] = v[i - k]
  BY <1>1, <1>2
<1> QED BY <1>1, <1>3, <1>4 DEF w, k, l

(* A token is moved: the others stay in their order around it, and every    *)
(* token is listed once as before.                                          *)
LEMMA MovedFacts ==
  ASSUME NEW s \in Seq(Token), Distinct(s), NEW from \in 1 .. Len(s), NEW to \in 1 .. Len(s)
  PROVE  LET new == InsertAt(RemoveAt(s, from), to, s[from])
         IN  new \in Seq(Token) /\ Distinct(new)
<1> DEFINE n == Len(s)
           a == SubSeq(s, 1, from - 1)
           b == SubSeq(s, from + 1, Len(s))
           r == RemoveAt(s, from)
           x == s[from]
           c == SubSeq(r, 1, to - 1)
           d == SubSeq(r, to, Len(r))
           new == InsertAt(r, to, x)
<1>1. n \in Nat /\ from \in 1 .. n /\ to \in 1 .. n /\ x \in Token
  BY ElementOfSeq
<1>2. /\ a \in Seq(Token) /\ Len(a) = from - 1
      /\ \A i \in 1 .. from - 1 : a[i] = s[i]
      /\ b \in Seq(Token) /\ Len(b) = n - from
      /\ \A i \in 1 .. n - from : b[i] = s[from + i]
  BY <1>1, SubSeqProperties
<1>3. r = a \o b
  BY DEF RemoveAt
<1> HIDE DEF a, b
<1>4. /\ r \in Seq(Token) /\ Len(r) = n - 1
      /\ \A i \in 1 .. n - 1 : r[i] = IF i < from THEN s[i] ELSE s[i + 1]
  <2> DEFINE k == from - 1
             l == n - from
             w == a \o b
  <2>1. k \in Nat /\ l \in Nat /\ k + 1 = from /\ k + l = n - 1
    BY <1>1
  <2>a. Len(a) = k /\ Len(b) = l /\ a \in Seq(Token) /\ b \in Seq(Token)
    BY <1>2
  <2>b. k = from - 1
    OBVIOUS
  <2> HIDE DEF k, l
  <2>d. /\ w \in Seq(Token) /\ Len(w) = Len(a) + Len(b)
        /\ \A i \in 1 .. Len(a) : w[i] = a[i]
        /\ \A i \in Len(a) + 1 .. Len(a) + Len(b) : w[i] = b[i - Len(a)]
    BY <2>a, JoinFacts, Zenon
  <2> HIDE DEF w
  <2>c. /\ w \in Seq(Token) /\ Len(w) = k + l
        /\ \A i \in 1 .. k : w[i] = a[i]
        /\ \A i \in k + 1 .. k + l : w[i] = b[i - k]
    BY <2>a, <2>d
  <2>2. /\ w \in Seq(Token) /\ Len(w) = n - 1
        /\ \A i \in 1 .. from - 1 : w[i] = a[i]
        /\ \A i \in from .. n - 1 : w[i] = b[i - (from - 1)]
    BY <2>1, <2>b, <2>c
  <2>3. ASSUME NEW i \in 1 .. n - 1, i < from PROVE w[i] = s[i]
    BY <1>1, <1>2, <2>2, <2>3
  <2>4. ASSUME NEW i \in 1 .. n - 1, i >= from PROVE w[i] = s[i + 1]
    <3>1. w[i] = b[i - (from - 1)]
      BY <1>1, <2>2, <2>4
    <3>2. i - (from - 1) \in 1 .. n - from
      BY <1>1, <2>4
    <3>3. b[i - (from - 1)] = s[from + (i - (from - 1))]
      BY <1>2, <3>2
    <3>4. from + (i - (from - 1)) = i + 1
      BY <1>1
    <3> QED BY <3>1, <3>3, <3>4
  <2>5. \A i \in 1 .. n - 1 : w[i] = IF i < from THEN s[i] ELSE s[i + 1]
    BY <1>1, <2>3, <2>4
  <2> QED BY <1>3, <2>2, <2>5 DEF w
<1>5. \A i, j \in 1 .. n - 1 : i # j => r[i] # r[j]
  BY <1>1, <1>4 DEF Distinct
<1>6. \A i \in 1 .. n - 1 : r[i] # x
  BY <1>1, <1>4 DEF Distinct
<1> DEFINE e == <<x>>
<1>7. new = (c \o e) \o d
  BY DEF InsertAt
<1> HIDE DEF r
<1>8. /\ c \in Seq(Token) /\ Len(c) = to - 1
      /\ \A i \in 1 .. to - 1 : c[i] = r[i]
      /\ d \in Seq(Token) /\ Len(d) = n - to
      /\ \A i \in 1 .. n - to : d[i] = r[to + i - 1]
  BY <1>1, <1>4, SubSeqProperties
<1>9. e \in Seq(Token) /\ Len(e) = 1 /\ e[1] = x
  BY <1>1
<1> HIDE DEF c, d, e, x
<1>10. /\ c \o e \in Seq(Token) /\ Len(c \o e) = to
       /\ \A i \in 1 .. to : (c \o e)[i] = IF i < to THEN r[i] ELSE x
  <2> DEFINE k == to - 1
             w == c \o e
  <2>a. k \in Nat /\ 1 \in Nat /\ k + 1 = to /\ to - k = 1
    BY <1>1
  <2>b. Len(c) = k /\ k = to - 1
    BY <1>8
  <2> HIDE DEF k
  <2>d. /\ w \in Seq(Token) /\ Len(w) = Len(c) + Len(e)
        /\ \A i \in 1 .. Len(c) : w[i] = c[i]
        /\ \A i \in Len(c) + 1 .. Len(c) + Len(e) : w[i] = e[i - Len(c)]
    BY <1>8, <1>9, JoinFacts, Zenon
  <2> HIDE DEF w
  <2>1. /\ w \in Seq(Token) /\ Len(w) = k + 1
        /\ \A i \in 1 .. k : w[i] = c[i]
        /\ \A i \in k + 1 .. k + 1 : w[i] = e[i - k]
    BY <1>9, <2>b, <2>d
  <2>2. w \in Seq(Token) /\ Len(w) = to /\ \A i \in 1 .. to - 1 : w[i] = r[i]
    BY <1>8, <2>1, <2>a, <2>b
  <2>3. w[to] = e[1]
    <3>1. to \in k + 1 .. k + 1
      BY <1>1, <2>a
    <3> QED BY <2>1, <2>a, <3>1
  <2>4. \A i \in 1 .. to : w[i] = IF i < to THEN r[i] ELSE x
    BY <1>1, <1>9, <2>2, <2>3
  <2> QED BY <2>2, <2>4 DEF w
<1> DEFINE f == c \o e
<1>11. /\ f \in Seq(Token) /\ Len(f) = to /\ new = f \o d
       /\ \A i \in 1 .. to : f[i] = IF i < to THEN r[i] ELSE x
  BY <1>7, <1>10
<1> HIDE DEF f, new
<1>12. /\ new \in Seq(Token) /\ Len(new) = n
       /\ \A i \in 1 .. n : new[i] = IF i < to THEN r[i] ELSE IF i = to THEN x ELSE r[i - 1]
  <2> DEFINE l == n - to
  <2>a. l \in Nat /\ to \in Nat /\ to + l = n
    BY <1>1
  <2>b. Len(d) = l
    BY <1>8
  <2> HIDE DEF l
  <2>c. /\ f \o d \in Seq(Token) /\ Len(f \o d) = Len(f) + Len(d)
        /\ \A i \in 1 .. Len(f) : (f \o d)[i] = f[i]
        /\ \A i \in Len(f) + 1 .. Len(f) + Len(d) : (f \o d)[i] = d[i - Len(f)]
    BY <1>8, <1>11, JoinFacts, Zenon
  <2>1. /\ new \in Seq(Token) /\ Len(new) = to + l
        /\ \A i \in 1 .. to : new[i] = f[i]
        /\ \A i \in to + 1 .. to + l : new[i] = d[i - to]
    <3> DEFINE w == f \o d
    <3>1. w = new
      BY <1>11
    <3> HIDE DEF w
    <3> QED BY <1>11, <2>b, <2>c, <3>1 DEF w
  <2>2. /\ new \in Seq(Token) /\ Len(new) = n
        /\ \A i \in 1 .. to : new[i] = f[i]
        /\ \A i \in to + 1 .. n : new[i] = d[i - to]
    BY <2>1, <2>a
  <2>3. ASSUME NEW i \in 1 .. n, i > to PROVE new[i] = r[i - 1]
    <3>1. i - to \in 1 .. n - to /\ to + (i - to) - 1 = i - 1 /\ i \in to + 1 .. n
      BY <1>1, <2>3
    <3>2. new[i] = d[i - to]
      BY <2>2, <3>1
    <3> QED BY <1>8, <3>1, <3>2
  <2>4. ASSUME NEW i \in 1 .. n, i <= to PROVE new[i] = IF i < to THEN r[i] ELSE x
    BY <1>1, <1>11, <2>2, <2>4
  <2>5. ASSUME NEW i \in 1 .. n
        PROVE  new[i] = IF i < to THEN r[i] ELSE IF i = to THEN x ELSE r[i - 1]
    <3>1. CASE i > to
      <4>1. new[i] = r[i - 1] /\ ~(i < to) /\ i # to
        BY <1>1, <2>3, <3>1
      <4> QED BY <4>1
    <3>2. CASE i <= to
      <4>1. new[i] = IF i < to THEN r[i] ELSE x
        BY <2>4, <3>2
      <4> QED BY <1>1, <3>2, <4>1
    <3> QED BY <1>1, <3>1, <3>2
  <2> QED BY <2>2, <2>5
<1>13. Distinct(new)
  <2> SUFFICES ASSUME NEW i \in 1 .. n, NEW j \in 1 .. n, i < j PROVE new[i] # new[j]
    BY <1>1, <1>12 DEF Distinct
  <2>1. CASE j < to
    BY <1>1, <1>5, <1>12, <2>1
  <2>2. CASE j = to
    BY <1>1, <1>6, <1>12, <2>2
  <2>3. CASE j > to /\ i < to
    <3>1. new[i] = r[i] /\ new[j] = r[j - 1]
      BY <1>1, <1>12, <2>3
    <3>2. i \in 1 .. n - 1 /\ j - 1 \in 1 .. n - 1 /\ i # j - 1
      BY <1>1, <2>3
    <3> QED BY <1>5, <3>1, <3>2
  <2>4. CASE j > to /\ i = to
    BY <1>1, <1>6, <1>12, <2>4
  <2>5. CASE j > to /\ i > to
    BY <1>1, <1>5, <1>12, <2>5
  <2> QED BY <1>1, <2>1, <2>2, <2>3, <2>4, <2>5
<1> QED BY <1>12, <1>13 DEF new, x, r

(* A choice: what it decides is stored, unless a merge is running. *)
LEMMA ChoiceFrame ==
  ASSUME IInv, CountChoice, ItemsInv', ScreenInv', BalanceInv', UNCHANGED merge,
         chosen' \in [Token -> {"nothing", "shown", "hidden"}],
         ordered' \subseteq Token \X Token,
         ~used'.hasty /\ ~used.hasty => /\ \A t \in Token : ChoiceOK(t)'
                                        /\ \A p \in ordered' : OrderOK(p)'
  PROVE  IInv'
<1>1. used' \in UsedRecords /\ (~used'.hasty => ~used.hasty /\ merge.at = "idle")
  BY CountChoiceFacts DEF IInv, HistoryInv
<1>2. MergeInv' /\ HistoryInv'
  BY <1>1, MergeSame DEF IInv, HistoryInv
<1>3. KeptInv'
  <2>1. CASE used'.hasty
    BY <2>1 DEF KeptInv
  <2>2. CASE ~used'.hasty
    BY <1>1, <2>2, KeptIdle
  <2> QED BY <2>1, <2>2
<1> QED BY <1>2, <1>3 DEF IInv

LEMMA MoveKeeps ==
  ASSUME IInv, NEW from \in 1 .. Len(ui.shown), NEW to \in 1 .. Len(ui.shown), Move(from, to)
  PROVE  IInv'
<1> DEFINE new == InsertAt(RemoveAt(ui.shown, from), to, ui.shown[from])
           place(t) == (CHOOSE i \in 1 .. Len(new) : new[i] = t) - 1
<1>1. /\ CountChoice
      /\ items' = [t \in Token |-> IF t \in Whitelisted /\ Contains(new, t)
                                   THEN [items[t] EXCEPT !.place = place(t)] ELSE items[t]]
      /\ ui' = [ui EXCEPT !.shown = new]
      /\ ordered' = {p \in Whitelisted \X Whitelisted :
                       \E i, j \in 1 .. Len(new) : i < j /\ p = <<new[i], new[j]>>}
      /\ UNCHANGED <<listing, chain, accounts, payment, merge, up, wanted, alive, chosen>>
  BY DEF Move
<1>2. ui \in ScreenRecords /\ ui.shown \in Seq(Token) /\ Distinct(ui.shown)
  BY DEF IInv, ScreenInv, ScreenRecords
<1>3. new \in Seq(Token) /\ Distinct(new)
  BY <1>2, MovedFacts
<1> HIDE DEF new
<1>4. Len(new) \in Nat
  BY <1>3
<1>5. ASSUME NEW i \in 1 .. Len(new) PROVE place(new[i]) = i - 1
  <2> DEFINE k == CHOOSE k \in 1 .. Len(new) : new[k] = new[i]
  <2>1. k \in 1 .. Len(new) /\ new[k] = new[i]
    OBVIOUS
  <2>2. k = i
    BY <1>3, <2>1 DEF Distinct
  <2> QED BY <2>2
<1> HIDE DEF place
<1>6. ASSUME NEW t \in Token
      PROVE  /\ items'[t] \in Item
             /\ items'[t].status = items[t].status
             /\ Proper(items'[t])
             /\ items'[t].place <= items[t].place \/ items'[t].place <= Len(new)
             /\ \A i \in 1 .. Len(new) :
                  new[i] = t /\ t \in Whitelisted => items'[t].place = i - 1
  <2>1. items[t] \in Item /\ Proper(items[t]) /\ items[t].place \in {-1} \cup Nat
    BY ConstantFacts DEF IInv, ItemsInv, Item
  <2>2. CASE t \in Whitelisted /\ Contains(new, t)
    <3>1. PICK i \in 1 .. Len(new) : new[i] = t
      BY <2>2 DEF Contains
    <3>2. place(t) = i - 1 /\ place(t) \in Nat /\ place(t) <= Len(new)
      BY <1>4, <1>5, <3>1
    <3>3. items'[t] = [items[t] EXCEPT !.place = place(t)]
      BY <1>1, <2>2
    <3>4. /\ items'[t] \in Item /\ items'[t].status = items[t].status
          /\ items'[t].place = place(t)
      BY <2>1, <3>2, <3>3 DEF Item
    <3>5. items'[t].status = "whitelisted"
      BY <2>2, <3>4 DEF Whitelisted
    <3>6. \A j \in 1 .. Len(new) : new[j] = t => place(t) = j - 1
      BY <1>5
    <3> QED BY <3>2, <3>4, <3>5, <3>6 DEF Proper
  <2>3. CASE ~(t \in Whitelisted /\ Contains(new, t))
    <3>1. items'[t] = items[t]
      BY <1>1, <2>3
    <3> QED BY <2>1, <2>3, <3>1 DEF Contains
  <2> QED BY <2>2, <2>3
<1>7. ItemsInv'
  <2>1. items' \in [Token -> Item]
    BY <1>1, <1>6
  <2>2. PICK m \in Nat : \A t \in Token : items[t].place <= m
    BY DEF IInv, ItemsInv
  <2> DEFINE n == IF m <= Len(new) THEN Len(new) ELSE m
  <2>3. n \in Nat /\ m <= n /\ Len(new) <= n
    BY <1>4
  <2>4. \A t \in Token : items[t].place \in Int /\ items'[t].place \in Int
    BY <1>6, ConstantFacts DEF IInv, ItemsInv, Item
  <2> HIDE DEF n
  <2>5. \A t \in Token : items'[t].place <= n
    BY <1>4, <1>6, <2>2, <2>3, <2>4
  <2>6. \E k \in Nat : \A t \in Token : items'[t].place <= k
    BY <2>3, <2>5
  <2>7. \A t \in Token : Proper(items[t])'
    BY <1>6 DEF Proper
  <2> QED BY <2>1, <2>6, <2>7 DEF ItemsInv
<1>8. ScreenInv'
  <2>1. ui' \in ScreenRecords /\ ui'.shown = new
    BY <1>1, <1>2, <1>3 DEF ScreenRecords
  <2> QED BY <1>3, <2>1 DEF ScreenInv, Distinct
<1>9. BalanceInv'
  BY <1>1, BalanceSame DEF IInv
<1>10. chosen' \in [Token -> {"nothing", "shown", "hidden"}]
  BY <1>1 DEF IInv, HistoryInv
<1>11. ordered' \subseteq Token \X Token
  BY <1>1 DEF Whitelisted
<1>12. ASSUME ~used.hasty
       PROVE  (\A t \in Token : ChoiceOK(t)') /\ (\A p \in ordered' : OrderOK(p)')
  <2>1. ASSUME NEW t \in Token PROVE ChoiceOK(t)'
    <3>1. ChoiceOK(t) /\ items'[t].status = items[t].status /\ chosen' = chosen
      BY <1>1, <1>6, <1>12 DEF IInv, KeptInv
    <3> QED BY <3>1 DEF ChoiceOK
  <2>2. ASSUME NEW p \in ordered' PROVE OrderOK(p)'
    <3>1. PICK i \in 1 .. Len(new), j \in 1 .. Len(new) : i < j /\ p = <<new[i], new[j]>>
      BY <1>1
    <3>2. new[i] \in Whitelisted /\ new[j] \in Whitelisted
      BY <1>1, <3>1
    <3>3. /\ new[i] \in Token /\ items[new[i]].status = "whitelisted"
          /\ new[j] \in Token /\ items[new[j]].status = "whitelisted"
      BY <3>2 DEF Whitelisted
    <3>4. /\ items'[new[i]].status = "whitelisted" /\ items'[new[i]].place = i - 1
          /\ items'[new[j]].status = "whitelisted" /\ items'[new[j]].place = j - 1
      BY <1>6, <3>2, <3>3
    <3>5. p[1] = new[i] /\ p[2] = new[j]
      BY <3>1
    <3>6. i - 1 < j - 1
      BY <1>4, <3>1
    <3> QED BY <3>4, <3>5, <3>6 DEF OrderOK
  <2> QED BY <2>1, <2>2
<1> QED BY <1>1, <1>7, <1>8, <1>9, <1>10, <1>11, <1>12, ChoiceFrame

(* The user shows or hides a token: the item gets the status he asked for. *)
LEMMA DecisionKeeps ==
  ASSUME IInv, CountChoice, NEW t \in Token, ScreenInv', BalanceInv', UNCHANGED merge,
         NEW status, NEW mark,
         \/ status = "blacklisted" /\ mark = "hidden"
         \/ status = "whitelisted" /\ mark = "shown",
         items' = Saved(t, status, NoPlace), chosen' = [chosen EXCEPT ![t] = mark],
         ordered' = {}
  PROVE  IInv'
<1> DEFINE row == Prepared(t, status, NoPlace)
<1>1. ItemsInv /\ status \in Status \ {"absent"} /\ NoPlace \in {NoPlace} \cup Nat
  BY DEF IInv, Status
<1>2. row \in Item /\ Proper(row) /\ row.status = status
  BY <1>1, PreparedFacts
<1>3. items' = [items EXCEPT ![t] = row]
  BY DEF Saved
<1> HIDE DEF row
<1>4. /\ ItemsInv'
      /\ items'[t] = row /\ \A s \in Token \ {t} : items'[s] = items[s]
  BY <1>1, <1>2, <1>3, ItemWritten
<1>5. /\ chosen' \in [Token -> {"nothing", "shown", "hidden"}]
      /\ chosen'[t] = mark /\ \A s \in Token \ {t} : chosen'[s] = chosen[s]
  BY DEF IInv, HistoryInv
<1>6. ASSUME ~used.hasty, NEW s \in Token PROVE ChoiceOK(s)'
  <2>1. CASE s = t
    BY <1>2, <1>4, <1>5, <2>1 DEF ChoiceOK
  <2>2. CASE s # t
    <3>1. ChoiceOK(s) /\ chosen'[s] = chosen[s] /\ items'[s] = items[s]
      BY <1>4, <1>5, <1>6, <2>2 DEF IInv, KeptInv
    <3> QED BY <3>1 DEF ChoiceOK
  <2> QED BY <2>1, <2>2
<1>7. ordered' \subseteq Token \X Token /\ \A p \in ordered' : OrderOK(p)'
  OBVIOUS
<1> QED BY <1>4, <1>5, <1>6, <1>7, ChoiceFrame

LEMMA CountedHaste ==
  ASSUME IInv, CountChoice
  PROVE  used' \in UsedRecords /\ (~used'.hasty => ~used.hasty)
BY CountChoiceFacts DEF IInv, HistoryInv

LEMMA HideKeeps ==
  ASSUME IInv, NEW i \in 1 .. Len(ui.shown), Hide(i)
  PROVE  IInv'
<1> DEFINE t == ui.shown[i]
<1>1. ui \in ScreenRecords /\ ScreenInv /\ BalanceInv /\ payment \in Token \cup {Ether}
  BY DEF IInv, ScreenInv, BalanceInv
<1>2. t \in Token
  <2>1. ui.shown \in Seq(Token)
    BY <1>1 DEF ScreenRecords
  <2> QED BY <2>1, ElementOfSeq
<1>3. CountChoice /\ UNCHANGED <<listing, chain, accounts, payment>>
  BY DEF Hide
<1>4. CASE t \notin Stored
  <2>1. Ended /\ UNCHANGED <<items, chosen, ordered>>
    BY <1>4 DEF Hide
  <2> QED BY <1>1, <1>3, <2>1, CountedHaste, EndedKeeps
<1>5. CASE t \in Stored
  <2>1. /\ items' = Saved(t, "blacklisted", NoPlace)
        /\ chosen' = [chosen EXCEPT ![t] = "hidden"]
        /\ ordered' = {}
        /\ ui' = [ui EXCEPT !.reload = TRUE]
        /\ UNCHANGED <<merge, up, wanted, alive>>
    BY <1>5 DEF Hide
  <2>2. ScreenInv'
    BY <1>1, <2>1, ScreenWith, ShownSame
  <2>3. BalanceInv'
    BY <1>1, <1>3, <2>1, BalanceSame
  <2> HIDE DEF t
  <2> QED BY <1>2, <1>3, <2>1, <2>2, <2>3, DecisionKeeps
<1> QED BY <1>4, <1>5

LEMMA WhitelistKeeps ==
  ASSUME IInv, CountChoice, NEW t \in Token, NEW next \in ScreenRecords,
         next.shown = ui.shown, WhitelistToken(t, next), payment' \in Token \cup {Ether},
         UNCHANGED <<listing, chain, accounts>>
  PROVE  IInv'
<1>1. CASE t \notin Stored
  <2>1. Ended /\ UNCHANGED <<items, chosen, ordered>>
    BY <1>1 DEF WhitelistToken
  <2> QED BY <2>1, CountedHaste, EndedKeeps
<1>2. CASE t \in Stored
  <2>1. /\ items' = Saved(t, "whitelisted", NoPlace)
        /\ chosen' = [chosen EXCEPT ![t] = "shown"]
        /\ ordered' = {}
        /\ wanted' = wanted \cup {t}
        /\ ui' = next
        /\ UNCHANGED <<merge, up, alive>>
    BY <1>2 DEF WhitelistToken
  <2>2. ScreenInv'
    BY <2>1, ShownSame DEF IInv
  <2>3. BalanceInv'
    BY <2>1 DEF IInv, BalanceInv
  <2> QED BY <2>1, <2>2, <2>3, DecisionKeeps
<1> QED BY <1>1, <1>2

LEMMA AddKeeps ==
  ASSUME IInv, NEW t \in Token, Add(t)
  PROVE  IInv'
<1> DEFINE next == [ui EXCEPT !.screen = "manage", !.reload = TRUE]
<1>1. next \in ScreenRecords /\ next.shown = ui.shown
  BY ScreenWith DEF IInv, ScreenInv
<1>2. /\ CountChoice /\ WhitelistToken(t, next)
      /\ UNCHANGED <<listing, chain, accounts>> /\ payment' \in Token \cup {Ether}
  BY DEF Add, IInv, BalanceInv
<1> HIDE DEF next
<1> QED BY <1>1, <1>2, WhitelistKeeps

LEMMA ChoosePaymentKeeps ==
  ASSUME IInv, NEW t \in Token \cup {Ether}, ChoosePayment(t)
  PROVE  IInv'
<1> DEFINE next == [ui EXCEPT !.offers = PaymentOffers, !.reload = TRUE]
           same == [ui EXCEPT !.offers = PaymentOffers]
<1>1. PaymentOffers \in SUBSET Token
  BY DEF PaymentOffers, Stored
<1>2. /\ next \in ScreenRecords /\ next.shown = ui.shown
      /\ same \in ScreenRecords /\ same.shown = ui.shown
  BY <1>1, ScreenWith DEF IInv, ScreenInv
<1>3. CountChoice /\ payment' = t /\ UNCHANGED <<listing, chain, accounts>>
  BY DEF ChoosePayment
<1>4. CASE t = Ether
  <2>1. ui' = same /\ UNCHANGED <<items, chosen, ordered, wanted, merge, up, alive>>
    BY <1>4 DEF ChoosePayment
  <2>2. ScreenInv'
    BY <1>2, <2>1, ShownSame DEF IInv
  <2>3. BalanceInv' /\ ItemsInv'
    BY <1>3, <2>1, ItemsSame DEF IInv, BalanceInv
  <2>4. /\ chosen' \in [Token -> {"nothing", "shown", "hidden"}]
        /\ ordered' \subseteq Token \X Token
    BY <2>1 DEF IInv, HistoryInv
  <2>5. ~used.hasty => /\ \A s \in Token : ChoiceOK(s)'
                       /\ \A p \in ordered' : OrderOK(p)'
    BY <2>1 DEF IInv, KeptInv, ChoiceOK, OrderOK
  <2> QED BY <1>3, <2>1, <2>2, <2>3, <2>4, <2>5, ChoiceFrame
<1>5. CASE t # Ether
  <2>1. WhitelistToken(t, next) /\ t \in Token
    BY <1>5 DEF ChoosePayment
  <2> HIDE DEF next
  <2> QED BY <1>2, <1>3, <2>1, WhitelistKeeps
<1> QED BY <1>4, <1>5

-----------------------------------------------------------------------------
(* The merge. *)

(* A step of the merge that stores nothing. *)
LEMMA MergeFrame ==
  ASSUME IInv, MergeInv', HistoryInv', KeptInv',
         UNCHANGED <<listing, chain, items, accounts, payment, up, wanted, ui, alive>>
  PROVE  IInv'
BY ItemsSame, ScreenSame, BalanceSame DEF IInv

(* While nothing is known of the list yet, or nothing more is to be done,   *)
(* only what is stored matters.                                             *)
LEMMA KeptElsewhere ==
  ASSUME KeptInv, UNCHANGED <<items, chosen, ordered>>, used'.hasty = used.hasty,
         merge'.at \notin {"delete", "save", "write"}
  PROVE  KeptInv'
BY DEF KeptInv, ChoiceOK, OrderOK

LEMMA StartMergeKeeps ==
  ASSUME IInv, StartMerge
  PROVE  IInv'
<1> USE DEF StartMerge
<1>1. used' \in UsedRecords /\ used'.hasty = used.hasty
  BY UsedFacts DEF IInv, HistoryInv
<1>2. HistoryInv'
  BY <1>1 DEF IInv, HistoryInv
<1>3. listing \in Listings
  BY DEF IInv, BalanceInv
<1>4. /\ merge' \in MergeRecords /\ merge'.at = "stored"
      /\ merge'.known = NoMerge.known /\ merge'.row = NoMerge.row
  BY <1>3, NoMergeFacts DEF MergeRecords
<1>5. MergeInv'
  BY <1>4, NoMergeFacts DEF MergeInv, Proper
<1>6. KeptInv'
  BY <1>1, <1>4, KeptElsewhere DEF IInv
<1> QED BY <1>2, <1>5, <1>6, MergeFrame

LEMMA MergeReadStoredKeeps ==
  ASSUME IInv, MergeReadStored
  PROVE  IInv'
<1> USE DEF MergeReadStored
<1>1. Gone \in SUBSET Token /\ \A t \in Gone : items[t].status # "whitelisted"
  BY DEF Gone, Stored, Whitelisted
<1>2. merge \in MergeRecords
  BY DEF IInv, MergeInv
<1>3. /\ merge' \in MergeRecords /\ merge'.at = "delete" /\ merge'.todo = Gone
      /\ merge'.known = merge.known /\ merge'.row = merge.row
  BY <1>1, <1>2 DEF MergeRecords
<1>4. MergeInv'
  BY <1>3 DEF IInv, MergeInv, Proper
<1>5. HistoryInv'
  BY HistorySame DEF IInv
<1>6. KeptInv'
  BY <1>1, <1>3 DEF IInv, KeptInv, ChoiceOK, OrderOK
<1> QED BY <1>4, <1>5, <1>6, MergeFrame

LEMMA MergeDeleteKeeps ==
  ASSUME IInv, NEW t \in Token, MergeDelete(t)
  PROVE  IInv'
<1> DEFINE row == [status |-> "absent", place |-> NoPlace]
           c == IF chosen[t] = "hidden" THEN "nothing" ELSE chosen[t]
<1>1. /\ merge.at = "delete" /\ t \in merge.todo
      /\ items' = [items EXCEPT ![t] = row]
      /\ merge' = [merge EXCEPT !.todo = merge.todo \ {t}]
      /\ chosen' = [chosen EXCEPT ![t] = c]
      /\ UNCHANGED <<listing, chain, accounts, payment, up, wanted, ui, alive, ordered, used>>
  BY DEF MergeDelete
<1>2. row \in Item /\ Proper(row) /\ row.status = "absent"
  BY DEF Item, Status, Proper
<1> HIDE DEF row
<1>3. /\ ItemsInv'
      /\ items'[t] = row /\ \A s \in Token \ {t} : items'[s] = items[s]
  BY <1>1, <1>2, ItemWritten DEF IInv
<1>4. merge \in MergeRecords
  BY DEF IInv, MergeInv
<1>5. /\ merge' \in MergeRecords /\ merge'.at = "delete" /\ merge'.todo = merge.todo \ {t}
      /\ merge'.known = merge.known /\ merge'.row = merge.row
  BY <1>1, <1>4 DEF MergeRecords
<1>6. MergeInv'
  BY <1>5 DEF IInv, MergeInv, Proper
<1>7. chosen \in [Token -> {"nothing", "shown", "hidden"}]
  BY DEF IInv, HistoryInv
<1>8. /\ chosen' \in [Token -> {"nothing", "shown", "hidden"}]
      /\ chosen'[t] = c /\ \A s \in Token \ {t} : chosen'[s] = chosen[s]
  BY <1>1, <1>7
<1>9. HistoryInv'
  BY <1>1, <1>8 DEF IInv, HistoryInv
<1>10. ScreenInv' /\ BalanceInv'
  BY <1>1, ScreenSame, BalanceSame DEF IInv
<1>11. ASSUME ~used'.hasty
       PROVE  /\ \A s \in Token : ChoiceOK(s)'
              /\ \A p \in ordered' : OrderOK(p)'
              /\ \A s \in merge'.todo : items'[s].status # "whitelisted"
  <2>1. /\ \A s \in Token : ChoiceOK(s)
        /\ \A p \in ordered : OrderOK(p) /\ p[1] \in Token /\ p[2] \in Token
        /\ \A s \in merge.todo : items[s].status # "whitelisted"
    BY <1>1, <1>11 DEF IInv, KeptInv, HistoryInv
  <2>2. ASSUME NEW s \in Token PROVE ChoiceOK(s)'
    <3>1. CASE s = t
      <4>1. chosen'[t] # "shown" /\ chosen'[t] # "hidden"
        BY <1>1, <1>7, <1>8, <2>1 DEF ChoiceOK
      <4> QED BY <3>1, <4>1 DEF ChoiceOK
    <3>2. CASE s # t
      <4>1. ChoiceOK(s) /\ items'[s] = items[s] /\ chosen'[s] = chosen[s]
        BY <1>3, <1>8, <2>1, <3>2
      <4> QED BY <4>1 DEF ChoiceOK
    <3> QED BY <3>1, <3>2
  <2>3. ASSUME NEW p \in ordered' PROVE OrderOK(p)'
    <3>1. OrderOK(p) /\ p[1] \in Token /\ p[2] \in Token
      BY <1>1, <2>1
    <3>2. p[1] # t /\ p[2] # t
      BY <1>1, <2>1, <3>1 DEF OrderOK
    <3>3. items'[p[1]] = items[p[1]] /\ items'[p[2]] = items[p[2]]
      BY <1>3, <3>1, <3>2
    <3> QED BY <3>1, <3>3 DEF OrderOK
  <2>4. ASSUME NEW s \in merge'.todo PROVE items'[s].status # "whitelisted"
    <3>1. s \in merge.todo /\ s # t /\ s \in Token
      BY <1>4, <1>5 DEF MergeRecords
    <3> QED BY <1>3, <2>1, <3>1
  <2> QED BY <2>2, <2>3, <2>4
<1>12. KeptInv'
  BY <1>5, <1>11 DEF KeptInv
<1> QED BY <1>3, <1>6, <1>9, <1>10, <1>12 DEF IInv

LEMMA MergeReadKnownKeeps ==
  ASSUME IInv, MergeReadKnown
  PROVE  IInv'
<1> DEFINE todo == {t \in Token : merge.list[t] # "gone"}
<1>1. merge' = [merge EXCEPT !.at = "save", !.known = items, !.todo = todo]
  BY DEF MergeReadKnown
<1>2. /\ merge \in MergeRecords /\ todo \in SUBSET Token
      /\ items \in [Token -> Item] /\ \A t \in Token : Proper(items[t])
  BY DEF IInv, MergeInv, ItemsInv
<1> HIDE DEF todo
<1>3. /\ merge' \in MergeRecords /\ merge'.at = "save" /\ merge'.known = items
      /\ merge'.row = merge.row
  BY <1>1, <1>2 DEF MergeRecords
<1>4. MergeInv'
  BY <1>2, <1>3 DEF IInv, MergeInv, Proper
<1>5. HistoryInv' /\ UNCHANGED <<items, chosen, ordered, used>>
  BY HistorySame DEF IInv, MergeReadKnown
<1>6. ASSUME ~used'.hasty
      PROVE  /\ \A t \in Token : ChoiceOK(t)'
             /\ \A p \in ordered' : OrderOK(p)'
             /\ \A t \in Token : SnapshotOK(t)'
  <2>1. (\A t \in Token : ChoiceOK(t)) /\ (\A p \in ordered : OrderOK(p))
    BY <1>5, <1>6 DEF IInv, KeptInv
  <2>2. (\A t \in Token : ChoiceOK(t)') /\ (\A p \in ordered' : OrderOK(p)')
    BY <1>5, <2>1 DEF ChoiceOK, OrderOK
  <2>3. ASSUME NEW t \in Token PROVE SnapshotOK(t)'
    <3>1. Decided(t)' => items'[t] = merge'.known[t]
      BY <1>3, <1>5
    <3>2. ASSUME ~Decided(t)'
          PROVE  chosen'[t] = "nothing" /\ \A p \in ordered' : p[1] # t /\ p[2] # t
      <4>1. items[t].status \notin {"whitelisted", "blacklisted"}
        BY <1>3, <3>2 DEF Decided
      <4>2. ChoiceOK(t) /\ chosen[t] \in {"nothing", "shown", "hidden"}
        BY <2>1 DEF IInv, HistoryInv
      <4>3. chosen[t] = "nothing"
        BY <4>1, <4>2 DEF ChoiceOK
      <4>4. \A p \in ordered : p[1] # t /\ p[2] # t
        BY <2>1, <4>1 DEF OrderOK
      <4> QED BY <1>5, <4>3, <4>4
    <3> QED BY <3>1, <3>2 DEF SnapshotOK
  <2> QED BY <2>2, <2>3
<1>7. KeptInv'
  BY <1>3, <1>6 DEF KeptInv
<1> QED BY <1>4, <1>5, <1>7, MergeFrame DEF MergeReadKnown

(* What the merge writes: an item that was decided keeps what was read. *)
LEMMA MergedRowFacts ==
  ASSUME IInv, NEW t \in Token
  PROVE  /\ MergedRow(t) \in Item /\ Proper(MergedRow(t))
         /\ Decided(t) /\ items[t] = merge.known[t] => MergedRow(t) = items[t]
<1> DEFINE k == merge.known[t]
<1>1. ItemsInv /\ k \in Item /\ Proper(k)
  BY DEF IInv, MergeInv, MergeRecords
<1>2. k.status \in Status /\ k.place \in {NoPlace} \cup Nat
  BY <1>1 DEF Item
<1>3. CASE Decided(t)
  <2>1. /\ k.status \in Status \ {"absent"}
        /\ k.status # "whitelisted" => k.place = NoPlace
        /\ MergedRow(t) = Prepared(t, k.status, k.place)
    BY <1>1, <1>2, <1>3 DEF Decided, Proper, MergedRow
  <2> HIDE DEF k
  <2> DEFINE m == Prepared(t, k.status, k.place)
  <2>2. /\ m \in Item /\ Proper(m) /\ m.status = k.status
        /\ items[t].status = k.status => m.place = k.place
    BY <1>1, <1>2, <2>1, PreparedFacts
  <2> HIDE DEF m
  <2>3. items[t] = k => m = k
    <3>1. ASSUME items[t] = k PROVE m.place = k.place
      BY <2>2, <3>1
    <3>2. ASSUME m.place = k.place PROVE m = k
      BY <1>1, <2>2, <3>2 DEF Item
    <3> QED BY <3>1, <3>2
  <2> QED BY <2>1, <2>2, <2>3 DEF m, k
<1>4. CASE ~Decided(t)
  <2> DEFINE s == IF merge.list[t] = "default" THEN "whitelisted" ELSE "regular"
  <2>1. s \in Status \ {"absent"} /\ NoPlace \in {NoPlace} \cup Nat
    BY DEF Status
  <2>2. MergedRow(t) = Prepared(t, s, NoPlace)
    BY <1>4 DEF MergedRow
  <2> HIDE DEF s
  <2>3. Prepared(t, s, NoPlace) \in Item /\ Proper(Prepared(t, s, NoPlace))
    BY <1>1, <2>1, PreparedFacts
  <2> QED BY <1>4, <2>2, <2>3
<1> QED BY <1>3, <1>4

LEMMA MergePrepareKeeps ==
  ASSUME IInv, NEW t \in Token, MergePrepare(t)
  PROVE  IInv'
<1> DEFINE row == MergedRow(t)
<1>1. /\ merge.at = "save" /\ t \in merge.todo
      /\ merge' = [merge EXCEPT !.at = "write", !.t = t, !.row = row]
  BY DEF MergePrepare
<1>2. /\ merge \in MergeRecords /\ row \in Item /\ Proper(row)
      /\ Decided(t) /\ items[t] = merge.known[t] => row = items[t]
  BY MergedRowFacts DEF IInv, MergeInv
<1> HIDE DEF row
<1>3. /\ merge' \in MergeRecords /\ merge'.at = "write" /\ merge'.t = t
      /\ merge'.known = merge.known /\ merge'.row = row
  BY <1>1, <1>2 DEF MergeRecords
<1>4. MergeInv'
  BY <1>2, <1>3 DEF IInv, MergeInv, Proper
<1>5. HistoryInv' /\ UNCHANGED <<items, chosen, ordered, used>>
  BY HistorySame DEF IInv, MergePrepare
<1>6. \A s \in Token : Decided(s)' <=> Decided(s)
  BY <1>3 DEF Decided
<1>7. ASSUME ~used'.hasty
      PROVE  /\ \A s \in Token : ChoiceOK(s)'
             /\ \A p \in ordered' : OrderOK(p)'
             /\ \A s \in Token : SnapshotOK(s)'
             /\ Decided(merge.t)' => merge'.row = items'[merge'.t]
  <2>1. /\ \A s \in Token : ChoiceOK(s) /\ SnapshotOK(s)
        /\ \A p \in ordered : OrderOK(p)
    BY <1>1, <1>5, <1>7 DEF IInv, KeptInv
  <2>2. (\A s \in Token : ChoiceOK(s)') /\ (\A p \in ordered' : OrderOK(p)')
    BY <1>5, <2>1 DEF ChoiceOK, OrderOK
  <2>3. \A s \in Token : SnapshotOK(s)'
    BY <1>3, <1>5, <1>6, <2>1 DEF SnapshotOK
  <2>4. Decided(merge.t)' => merge'.row = items'[merge'.t]
    BY <1>2, <1>3, <1>5, <2>1 DEF SnapshotOK, Decided
  <2> QED BY <2>2, <2>3, <2>4
<1>8. KeptInv'
  BY <1>3, <1>7 DEF KeptInv
<1> QED BY <1>4, <1>5, <1>8, MergeFrame DEF MergePrepare

LEMMA MergeWriteKeeps ==
  ASSUME IInv, MergeWrite
  PROVE  IInv'
<1> DEFINE todo == merge.todo \ {merge.t}
<1>1. /\ merge.at = "write"
      /\ items' = [items EXCEPT ![merge.t] = merge.row]
      /\ merge' = [merge EXCEPT !.at = "save", !.t = NoToken, !.row = NoMerge.row, !.todo = todo]
      /\ UNCHANGED <<listing, chain, accounts, payment, up, wanted, ui, alive, chosen,
                     ordered, used>>
  BY DEF MergeWrite
<1>2. /\ merge \in MergeRecords /\ merge.t \in Token /\ merge.row \in Item /\ Proper(merge.row)
      /\ todo \in SUBSET Token
  BY <1>1 DEF IInv, MergeInv, MergeRecords
<1> HIDE DEF todo
<1>3. /\ merge' \in MergeRecords /\ merge'.at = "save" /\ merge'.known = merge.known
      /\ merge'.row = NoMerge.row
  BY <1>1, <1>2, NoMergeFacts DEF MergeRecords
<1>4. MergeInv'
  BY <1>3, NoMergeFacts DEF IInv, MergeInv, Proper
<1>5. /\ ItemsInv'
      /\ items'[merge.t] = merge.row /\ \A s \in Token \ {merge.t} : items'[s] = items[s]
  BY <1>1, <1>2, ItemWritten DEF IInv
<1>6. HistoryInv' /\ ScreenInv' /\ BalanceInv'
  BY <1>1, HistorySame, ScreenSame, BalanceSame DEF IInv
<1>7. \A s \in Token : Decided(s)' <=> Decided(s)
  BY <1>3 DEF Decided
<1>8. ASSUME ~used'.hasty
      PROVE  /\ \A s \in Token : ChoiceOK(s)'
             /\ \A p \in ordered' : OrderOK(p)'
             /\ \A s \in Token : SnapshotOK(s)'
  <2>1. /\ \A s \in Token : ChoiceOK(s) /\ SnapshotOK(s)
        /\ \A p \in ordered : OrderOK(p) /\ p[1] \in Token /\ p[2] \in Token
        /\ Decided(merge.t) => merge.row = items[merge.t]
    BY <1>1, <1>8 DEF IInv, KeptInv, HistoryInv
  <2>2. \A s \in Token : Decided(s) => items'[s] = items[s]
    BY <1>5, <2>1
  <2>3. ASSUME NEW s \in Token PROVE ChoiceOK(s)' /\ SnapshotOK(s)'
    <3>1. CASE Decided(s)
      <4>1. items'[s] = items[s] /\ Decided(s)' /\ chosen' = chosen /\ ChoiceOK(s) /\ SnapshotOK(s)
        BY <1>1, <1>7, <2>1, <2>2, <3>1
      <4> QED BY <1>3, <3>1, <4>1 DEF ChoiceOK, SnapshotOK
    <3>2. CASE ~Decided(s)
      <4>1. ~Decided(s)' /\ SnapshotOK(s) /\ chosen' = chosen /\ ordered' = ordered
        BY <1>1, <1>7, <2>1, <3>2
      <4> QED BY <3>2, <4>1 DEF ChoiceOK, SnapshotOK
    <3> QED BY <3>1, <3>2
  <2>4. ASSUME NEW p \in ordered' PROVE OrderOK(p)'
    <3>1. p \in ordered /\ OrderOK(p) /\ p[1] \in Token /\ p[2] \in Token
      BY <1>1, <2>1
    <3>2. Decided(p[1]) /\ Decided(p[2])
      <4>1. SnapshotOK(p[1]) /\ SnapshotOK(p[2])
        BY <2>1, <3>1
      <4> QED BY <3>1, <4>1 DEF SnapshotOK
    <3>3. items'[p[1]] = items[p[1]] /\ items'[p[2]] = items[p[2]]
      BY <2>2, <3>1, <3>2
    <3> QED BY <3>1, <3>3 DEF OrderOK
  <2> QED BY <2>3, <2>4
<1>9. KeptInv'
  BY <1>3, <1>8 DEF KeptInv
<1> QED BY <1>4, <1>5, <1>6, <1>9 DEF IInv

LEMMA EndMergeKeeps ==
  ASSUME IInv, EndMerge
  PROVE  IInv'
<1> USE DEF EndMerge
<1>1. MergeInv'
  BY NoMergeFacts DEF MergeInv, Proper
<1>2. HistoryInv'
  BY HistorySame DEF IInv
<1>3. KeptInv'
  BY NoMergeFacts, KeptElsewhere DEF IInv
<1> QED BY <1>1, <1>2, <1>3, MergeFrame

-----------------------------------------------------------------------------
(* The updates of balances. *)

Threads ==
  /\ up \in [Updater -> UpdateRecords]
  /\ \A u \in Updater : up[u].at = "store" => up[u].t \in Token

(* A step of an update that ends neither the process nor the update. *)
LEMMA UpdateFrame ==
  ASSUME IInv, Threads', ScreenInv', HistoryInv', used'.hasty = used.hasty,
         accounts' \in [Token -> (0 .. MaxBalance) \cup {NoBalance, NoAccount}],
         wanted' \subseteq Token,
         UNCHANGED <<listing, chain, items, payment, merge, alive, chosen, ordered>>
  PROVE  IInv'
<1>1. ItemsInv' /\ MergeInv' /\ KeptInv'
  BY ItemsSame, MergeSame, KeptSame DEF IInv
<1>2. BalanceInv'
  BY DEF IInv, BalanceInv, Threads
<1> QED BY <1>1, <1>2 DEF IInv

(* One thread goes on. *)
LEMMA ThreadWritten ==
  ASSUME IInv, NEW u \in Updater, NEW r \in UpdateRecords, r.at = "store" => r.t \in Token,
         up' = [up EXCEPT ![u] = r]
  PROVE  Threads'
BY DEF IInv, BalanceInv, Threads

(* The fields of a thread that its steps change. *)
LEMMA ThreadTurns ==
  ASSUME IInv, NEW u \in Updater, NEW a \in {"stored", "missing", "collect", "next"},
         NEW d \in SUBSET Token, up' = [up EXCEPT ![u].at = a, ![u].todo = d]
  PROVE  Threads'
<1> DEFINE r == [up[u] EXCEPT !.at = a, !.todo = d]
<1>1. up \in [Updater -> UpdateRecords] /\ up[u] \in UpdateRecords
  BY DEF IInv, BalanceInv
<1>2. up' = [up EXCEPT ![u] = r] /\ r \in UpdateRecords /\ r.at = a
  BY <1>1 DEF UpdateRecords
<1> HIDE DEF r
<1> QED BY <1>2, ThreadWritten

LEMMA ThreadAsks ==
  ASSUME IInv, NEW u \in Updater, NEW t \in Token, NEW g \in 0 .. MaxBalance,
         up' = [up EXCEPT ![u].at = "store", ![u].t = t, ![u].got = g]
  PROVE  Threads'
<1> DEFINE r == [up[u] EXCEPT !.at = "store", !.t = t, !.got = g]
<1>1. up \in [Updater -> UpdateRecords] /\ up[u] \in UpdateRecords
  BY DEF IInv, BalanceInv
<1>2. up' = [up EXCEPT ![u] = r] /\ r \in UpdateRecords /\ r.t = t
  BY <1>1 DEF UpdateRecords
<1> HIDE DEF r
<1> QED BY <1>2, ThreadWritten

(* What a step of an update that touches no screen and no counter keeps. *)
LEMMA UpdateSame ==
  ASSUME IInv, UNCHANGED <<ui, chosen, ordered, used>>
  PROVE  ScreenInv' /\ HistoryInv' /\ used'.hasty = used.hasty
BY ScreenSame, HistorySame DEF IInv

LEMMA AccountsTyped ==
  ASSUME IInv
  PROVE  /\ accounts \in [Token -> (0 .. MaxBalance) \cup {NoBalance, NoAccount}]
         /\ wanted \subseteq Token /\ Threads
BY DEF IInv, BalanceInv, Threads

LEMMA StartUpdateKeeps ==
  ASSUME IInv, NEW u \in Updater, StartUpdate(u)
  PROVE  IInv'
<1> DEFINE r == [up[u] EXCEPT !.at = "stored"]
<1>1. up \in [Updater -> UpdateRecords] /\ up[u] \in UpdateRecords
  BY DEF IInv, BalanceInv
<1>2. r \in UpdateRecords /\ r.at = "stored" /\ up' = [up EXCEPT ![u] = r]
  BY <1>1 DEF StartUpdate, UpdateRecords
<1> HIDE DEF r
<1>3. Threads'
  BY <1>2, ThreadWritten
<1> QED BY <1>3, UpdateSame, AccountsTyped, UpdateFrame DEF StartUpdate

LEMMA ReadMissingKeeps ==
  ASSUME IInv, NEW u \in Updater, ReadMissing(u)
  PROVE  IInv'
<1> DEFINE d == {t \in Tracked : accounts[t] = NoAccount}
<1>1. d \in SUBSET Token
  BY DEF Tracked, Whitelisted, Stored
<1>2. up' = [up EXCEPT ![u].at = "missing", ![u].todo = d]
  BY DEF ReadMissing
<1> HIDE DEF d
<1>3. Threads'
  BY <1>1, <1>2, ThreadTurns
<1> QED BY <1>3, UpdateSame, AccountsTyped, UpdateFrame DEF ReadMissing

LEMMA SaveMissingKeeps ==
  ASSUME IInv, NEW u \in Updater, SaveMissing(u)
  PROVE  IInv'
<1>1. up' = [up EXCEPT ![u].at = "collect", ![u].todo = {}] /\ {} \in SUBSET Token
  BY DEF SaveMissing
<1>2. Threads'
  BY <1>1, ThreadTurns
<1>3. accounts' \in [Token -> (0 .. MaxBalance) \cup {NoBalance, NoAccount}]
  BY AccountsTyped DEF SaveMissing
<1> QED BY <1>2, <1>3, UpdateSame, AccountsTyped, UpdateFrame DEF SaveMissing

LEMMA CollectKeeps ==
  ASSUME IInv, NEW u \in Updater, Collect(u)
  PROVE  IInv'
<1>1. TrackedAccounts \in SUBSET Token
  BY DEF TrackedAccounts, Tracked, Whitelisted, Stored
<1>2. up' = [up EXCEPT ![u].at = "next", ![u].todo = TrackedAccounts]
  BY DEF Collect
<1>3. Threads'
  BY <1>1, <1>2, ThreadTurns
<1> QED BY <1>3, UpdateSame, AccountsTyped, UpdateFrame DEF Collect

LEMMA StartSingleKeeps ==
  ASSUME IInv, NEW u \in Updater, NEW t \in Token, StartSingle(u, t)
  PROVE  IInv'
<1> DEFINE d == {t}
<1>1. d \in SUBSET Token /\ up' = [up EXCEPT ![u].at = "next", ![u].todo = d]
  BY DEF StartSingle
<1> HIDE DEF d
<1>2. Threads'
  BY <1>1, ThreadTurns
<1>3. accounts' \in [Token -> (0 .. MaxBalance) \cup {NoBalance, NoAccount}]
  BY AccountsTyped DEF StartSingle
<1>4. wanted' \subseteq Token
  BY AccountsTyped DEF StartSingle
<1> QED BY <1>2, <1>3, <1>4, UpdateSame, UpdateFrame DEF StartSingle

LEMMA RequestKeeps ==
  ASSUME IInv, NEW u \in Updater, NEW t \in Token, Request(u, t)
  PROVE  IInv'
<1>1. UNCHANGED <<listing, chain, items, accounts, payment, chosen, ordered, used>>
  BY DEF Request
<1>2. CASE t \notin Stored
  <2>1. payment' \in Token \cup {Ether} /\ used' \in UsedRecords /\ used'.hasty = used.hasty
    BY <1>1 DEF IInv, BalanceInv, HistoryInv
  <2>2. Ended
    BY <1>2 DEF Request
  <2> QED BY <1>1, <2>1, <2>2, EndedKeeps
<1>3. CASE t \in Stored
  <2> DEFINE g == chain[t]
  <2>1. g \in 0 .. MaxBalance
    BY DEF IInv, BalanceInv
  <2>2. /\ up' = [up EXCEPT ![u].at = "store", ![u].t = t, ![u].got = g]
        /\ UNCHANGED <<merge, wanted, ui, alive>>
    BY <1>3 DEF Request
  <2> HIDE DEF g
  <2>3. Threads'
    BY <2>1, <2>2, ThreadAsks
  <2> QED BY <1>1, <2>2, <2>3, UpdateSame, AccountsTyped, UpdateFrame
<1> QED BY <1>2, <1>3

LEMMA StoreBalanceKeeps ==
  ASSUME IInv, NEW u \in Updater, StoreBalance(u)
  PROVE  IInv'
<1> DEFINE d == up[u].todo \ {up[u].t}
           r == [NoUpdate EXCEPT !.at = "next", !.todo = d]
<1>1. up[u] \in UpdateRecords /\ up[u].t \in Token
  BY AccountsTyped DEF Threads, StoreBalance
<1>2. d \in SUBSET Token /\ up[u].got \in 0 .. MaxBalance
  BY <1>1 DEF UpdateRecords
<1>3. up' = [up EXCEPT ![u] = r]
  BY DEF StoreBalance
<1> HIDE DEF d
<1>4. r \in UpdateRecords /\ r.at = "next"
  BY <1>2, NoUpdateFacts DEF UpdateRecords
<1> HIDE DEF r
<1>5. Threads'
  BY <1>3, <1>4, ThreadWritten
<1>6. accounts' \in [Token -> (0 .. MaxBalance) \cup {NoBalance, NoAccount}]
  BY <1>1, <1>2, AccountsTyped DEF StoreBalance
<1> QED BY <1>5, <1>6, UpdateSame, AccountsTyped, UpdateFrame DEF StoreBalance

LEMMA EndUpdateKeeps ==
  ASSUME IInv, NEW u \in Updater, EndUpdate(u)
  PROVE  IInv'
<1>1. up' = [up EXCEPT ![u] = NoUpdate]
  BY DEF EndUpdate
<1>2. Threads'
  BY <1>1, NoUpdateFacts, ThreadWritten
<1>3. ScreenInv'
  <2>1. CASE ui' = [ui EXCEPT !.reload = TRUE]
    BY <2>1, ScreenWith, ShownSame DEF IInv, ScreenInv
  <2>2. CASE ui' = ui
    BY <2>2, ScreenSame DEF IInv
  <2> QED BY <2>1, <2>2 DEF EndUpdate
<1>4. HistoryInv' /\ used'.hasty = used.hasty
  BY HistorySame DEF EndUpdate, IInv
<1> QED BY <1>2, <1>3, <1>4, AccountsTyped, UpdateFrame DEF EndUpdate

LEMMA FailUpdateKeeps ==
  ASSUME IInv, NEW u \in Updater, FailUpdate(u)
  PROVE  IInv'
<1>1. up' = [up EXCEPT ![u] = NoUpdate]
  BY DEF FailUpdate
<1>2. Threads'
  BY <1>1, NoUpdateFacts, ThreadWritten
<1>3. used' \in UsedRecords /\ used'.hasty = used.hasty
  BY UsedFacts DEF FailUpdate, IInv, HistoryInv
<1>4. ScreenInv' /\ HistoryInv'
  BY <1>3, ScreenSame DEF FailUpdate, IInv, HistoryInv
<1> QED BY <1>2, <1>3, <1>4, AccountsTyped, UpdateFrame DEF FailUpdate

-----------------------------------------------------------------------------
(* The invariant. *)

LEMMA InitIInv == Init => IInv
<1> SUFFICES ASSUME Init PROVE IInv
  OBVIOUS
<1> USE DEF Init
<1>1. ItemsInv
  <2> DEFINE none == [status |-> "absent", place |-> NoPlace]
  <2>1. none \in Item /\ Proper(none) /\ none.place = -1
    BY ConstantFacts DEF Item, Status, Proper
  <2>2. items = [t \in Token |-> none]
    OBVIOUS
  <2> HIDE DEF none
  <2>3. items \in [Token -> Item] /\ \A t \in Token : Proper(items[t]) /\ items[t].place <= 0
    BY <2>1, <2>2
  <2> QED BY <2>3 DEF ItemsInv
<1>2. MergeInv
  BY NoMergeFacts DEF MergeInv
<1>3. ScreenInv
  BY AssetsFacts DEF ScreenInv
<1>4. BalanceInv
  <2>1. listing \in Listings
    BY DEF Listings
  <2>2. chain \in [Token -> 0 .. MaxBalance]
    BY ConstantFacts
  <2>3. up \in [Updater -> UpdateRecords] /\ \A u \in Updater : up[u].at = "idle"
    BY NoUpdateFacts
  <2> QED BY <2>1, <2>2, <2>3 DEF BalanceInv
<1>5. HistoryInv
  BY DEF HistoryInv, UsedRecords
<1>6. KeptInv
  BY NoMergeFacts DEF KeptInv, ChoiceOK
<1> QED BY <1>1, <1>2, <1>3, <1>4, <1>5, <1>6 DEF IInv

LEMMA UserStepKeeps ==
  ASSUME IInv, UserStep
  PROVE  IInv'
BY OpensKeeps, CloseKeeps, MoveKeeps, HideKeeps, AddKeeps, ChoosePaymentKeeps DEF UserStep

LEMMA MergeStepKeeps ==
  ASSUME IInv, MergeStep
  PROVE  IInv'
BY MergeReadStoredKeeps, MergeDeleteKeeps, MergeReadKnownKeeps, MergePrepareKeeps,
   MergeWriteKeeps, EndMergeKeeps DEF MergeStep

LEMMA UpdateStepKeeps ==
  ASSUME IInv, NEW u \in Updater, UpdateStep(u)
  PROVE  IInv'
BY StartUpdateKeeps, ReadMissingKeeps, SaveMissingKeeps, CollectKeeps, StartSingleKeeps,
   RequestKeeps, StoreBalanceKeeps, EndUpdateKeeps DEF UpdateStep

LEMMA NextIInv ==
  ASSUME IInv, [Next]_vars
  PROVE  IInv'
<1>1. CASE UNCHANGED vars
  BY <1>1, ItemsSame, MergeSame, ScreenSame, BalanceSame, HistorySame, KeptSame DEF vars, IInv
<1>2. CASE Next
  BY <1>2, ServerChangesKeeps, TransferKeeps, UserStepKeeps, ReloadKeeps, KillKeeps,
     RelaunchKeeps, StartMergeKeeps, MergeStepKeeps, UpdateStepKeeps, FailUpdateKeeps DEF Next
<1> QED BY <1>1, <1>2

LEMMA IInvariance == Spec => []IInv
<1>1. IInv /\ [Next]_vars => IInv'
  BY NextIInv
<1> QED BY <1>1, InitIInv, PTL DEF Spec

(* Every variable keeps its type, and only whitelisted items have a place,   *)
(* whatever order the screens, the merge and the updates write in.           *)
THEOREM AssetListTypeCorrect == Spec => []TypeOK
<1>1. IInv => TypeOK
  <2> SUFFICES ASSUME IInv PROVE TypeOK
    OBVIOUS
  <2>1. /\ items \in [Token -> Item]
        /\ \A t \in Token : items[t].status # "whitelisted" => items[t].place = NoPlace
    BY DEF IInv, ItemsInv, Proper
  <2>2. merge.at \in {"idle", "stored", "delete", "known", "save", "write"}
    BY DEF IInv, MergeInv, MergeRecords
  <2>3. ui.screen \in {"assets", "manage", "add", "payment"}
    BY DEF IInv, ScreenInv, ScreenRecords
  <2>4. \A u \in Updater : up[u].at \in {"idle", "stored", "missing", "collect", "next", "store"}
    BY DEF IInv, BalanceInv, UpdateRecords
  <2> QED BY <2>1, <2>2, <2>3, <2>4 DEF IInv, BalanceInv, TypeOK, Listings
<1> QED BY <1>1, IInvariance, PTL

(* Merges, updates and kills never undo what the user decided about a token: *)
(* one he added stays whitelisted, one he hid stays blacklisted while it is  *)
(* stored, if he decides nothing during a merge (mergeStoredTokenItems()).   *)
THEOREM ChoicesAreKept == Spec => []ChoiceIsKept
<1>1. IInv => ChoiceIsKept
  BY DEF IInv, KeptInv, ChoiceOK, ChoiceIsKept
<1> QED BY <1>1, IInvariance, PTL

(* Under the same condition a merge, which saves every listed item again,    *)
(* keeps the order of rearrange(tokens:), since it saves the place it has    *)
(* read and prepareToSave() leaves the place of an item that stays           *)
(* whitelisted alone.                                                        *)
THEOREM OrdersAreKept == Spec => []OrderIsKept
<1>1. IInv => OrderIsKept
  BY DEF IInv, KeptInv, OrderOK, OrderIsKept
<1> QED BY <1>1, IInvariance, PTL

=============================================================================
