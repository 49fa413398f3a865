-------------------------- MODULE OwnerTransactions --------------------------
(***************************************************************************)
(* The transactions by which the app changes who owns a Safe, as pure      *)
(* operators: the linked list of owners the app keeps while it encodes     *)
(* calls, the calls built by recovery, by the browser extension settings   *)
(* and by the recovery phrase settings, and the owner manager of the       *)
(* contract that executes them. An address is compared in lower case       *)
(* everywhere in the code, so an owner is a value here; the addresses with *)
(* a meaning of their own are tuples.                                      *)
(***************************************************************************)
EXTENDS Naturals, Sequences, SequencesExt

NoOwner == <<"none">>
Sentinel == <<"sentinel">>   \* SafeOwnerManagerContractProxy.sentinelAddress
SafeAddress == <<"safe">>    \* the Safe's own address, new owner of a probe
Fake == <<<<"fake1">>, <<"fake2">>>> \* fakeNewOwner1 and fakeNewOwner2

(* A recovery phrase stands for two accounts: its own and the one derived   *)
(* from it at index 1.                                                      *)
Paper(p) == <<p, "paper">>
Derived(p) == <<p, "derived">>
PhraseOwners(p) == {Paper(p), Derived(p)}

-----------------------------------------------------------------------------
(* OwnerLinkedList: the owners between two sentinels. *)

EmptyList == <<Sentinel>>

ListAdd(list, o) ==
  IF Len(list) = 1 THEN <<Sentinel, o, Sentinel>>
                   ELSE Front(list) \o <<o, Sentinel>>

ListIndex(list, o) == SelectInSeq(list, LAMBDA x : x = o)

(* Faulty variant: the list does not follow the swap it has encoded. *)
ListReplaceForgotten(list, old, new) == list

ListReplace(list, old, new) ==
  IF Contains(list, old) THEN [list EXCEPT ![ListIndex(list, old)] = new]
                         ELSE list

ListRemove(list, o) ==
  IF Contains(list, o) THEN RemoveAt(list, ListIndex(list, o)) ELSE list

AddressBefore(list, o) == list[ListIndex(list, o) - 1]

(* A list that the owners are added to one by one. *)
Linked(owners) ==
  LET list[n \in 0 .. Len(owners)] ==
        IF n = 0 THEN EmptyList ELSE ListAdd(list[n - 1], owners[n])
  IN list[Len(owners)]

(* filter: the owners that are not in a set, in their order.                *)
Without(owners, S) ==
  LET kept[n \in 0 .. Len(owners)] ==
        IF n = 0 THEN <<>>
        ELSE IF owners[n] \in S THEN kept[n - 1]
        ELSE Append(kept[n - 1], owners[n])
  IN kept[Len(owners)]

-----------------------------------------------------------------------------
(* The calls, and the contract (external). getOwners() walks the contract's *)
(* own list from the sentinel; an added owner goes to its front.            *)

SwapOwner(prev, old, new) ==
  [fn |-> "swap", prev |-> prev, old |-> old, new |-> new, count |-> 0]
AddOwner(new, n) ==
  [fn |-> "add", prev |-> NoOwner, old |-> NoOwner, new |-> new, count |-> n]
RemoveOwner(prev, old, n) ==
  [fn |-> "remove", prev |-> prev, old |-> old, new |-> NoOwner, count |-> n]

(* owners[prev] = o in the contract's mapping. *)
Follows(owners, prev, o) ==
  /\ Contains(owners, o)
  /\ prev = IF Head(owners) = o THEN Sentinel
                                ELSE owners[ListIndex(owners, o) - 1]

Accepts(safe, c) ==
  CASE c.fn = "swap"   -> /\ ~Contains(safe.owners, c.new)
                          /\ Follows(safe.owners, c.prev, c.old)
    [] c.fn = "add"    -> /\ ~Contains(safe.owners, c.new)
                          /\ c.count \in 1 .. Len(safe.owners) + 1
    [] c.fn = "remove" -> /\ Follows(safe.owners, c.prev, c.old)
                          /\ c.count \in 1 .. Len(safe.owners) - 1

Effect(safe, c) ==
  CASE c.fn = "swap"   ->
         [safe EXCEPT !.owners[ListIndex(safe.owners, c.old)] = c.new]
    [] c.fn = "add"    ->
         [safe EXCEPT !.owners = Cons(c.new, @), !.threshold = c.count]
    [] c.fn = "remove" ->
         [safe EXCEPT !.owners = Without(@, {c.old}), !.threshold = c.count]

(* One call is sent to the Safe itself, several go through MultiSend, where *)
(* one that reverts takes all the others with it.                           *)
Execute(safe, calls) ==
  LET after[n \in 0 .. Len(calls)] ==
        IF n = 0 THEN [ok |-> TRUE, safe |-> safe]
        ELSE IF after[n - 1].ok /\ Accepts(after[n - 1].safe, calls[n])
        THEN [ok |-> TRUE, safe |-> Effect(after[n - 1].safe, calls[n])]
        ELSE [ok |-> FALSE, safe |-> safe]
  IN after[Len(calls)]

-----------------------------------------------------------------------------
(* RecoveryTransactionBuilder. Its wallet is the account of this device,    *)
(* the extension paired on the way (or none) and the accounts of the        *)
(* phrase. `mod` is modifiableOwners and `count` the wallet's confirmation  *)
(* count, first read from the contract.                                     *)

Scheme(n, m) == [confirmations |-> n, owners |-> m]
WithoutExtension == Scheme(1, 3)

WithExtension == Scheme(2, 4)

OldScheme(safe) == Scheme(safe.threshold, Len(safe.owners))
NewScheme(ext) == IF ext = NoOwner THEN WithoutExtension ELSE WithExtension

ModifiableOwners(safe, phrase) ==
  Without(safe.owners, PhraseOwners(phrase))

IsSupported(safe, phrase) ==
  /\ Len(ModifiableOwners(safe, phrase)) \in {1, 2}
  /\ OldScheme(safe) \in {WithoutExtension, WithExtension}

SwapOwnerData(b, new) ==
  LET old == Head(b.mod) IN
  IF new = old THEN [b EXCEPT !.mod = Tail(@)]
  ELSE [b EXCEPT !.mod = Tail(@),
                 !.list = ListReplace(@, old, new),
                 !.calls = Append(@, SwapOwner(AddressBefore(b.list, old), old, new))]

(* Faulty variant: the threshold is left as it is. *)
AddOwnerDataOnly(b, new) ==
  [b EXCEPT !.calls = Append(@, AddOwner(new, b.count)),
            !.list = ListAdd(@, new)]

AddOwnerData(b, new) ==
  IF Contains(b.list, new) THEN b
  ELSE [b EXCEPT !.calls = Append(@, AddOwner(new, WithExtension.confirmations)),
                 !.list = ListAdd(@, new),
                 !.count = WithExtension.confirmations]

RemoveOwnerData(b) ==
  LET old == Head(b.mod) IN
  [b EXCEPT !.mod = Tail(@),
            !.list = ListRemove(@, old),
            !.calls = Append(@, RemoveOwner(AddressBefore(b.list, old), old,
                                            WithoutExtension.confirmations)),
            !.count = WithoutExtension.confirmations]

(* buildData() for a supported Safe: [calls, count] and the rest of the     *)
(* builder's state. No call at all is a transaction too: the Safe calls     *)
(* itself with empty data.                                                  *)
RecoveryData(safe, device, ext, phrase) ==
  LET b == SwapOwnerData([list |-> Linked(safe.owners),
                          mod |-> ModifiableOwners(safe, phrase),
                          calls |-> <<>>,
                          count |-> safe.threshold], device)
      old == OldScheme(safe)
      new == NewScheme(ext)
  IN CASE old = WithoutExtension /\ new = WithoutExtension -> b
       [] old = WithoutExtension /\ new = WithExtension -> AddOwnerData(b, ext)
       [] old = WithExtension /\ new = WithExtension -> SwapOwnerData(b, ext)
       [] old = WithExtension /\ new = WithoutExtension -> RemoveOwnerData(b)

-----------------------------------------------------------------------------
(* The settings: the browser extension and the recovery phrase. Each reads  *)
(* getOwners() and encodes against a fresh linked list.                     *)

(* validateNewOwnerAddress() *)
IsNewOwner(safe, o) == ~Contains(Linked(safe.owners), o)

ReplaceData(safe, ext, new) ==
  <<SwapOwner(AddressBefore(Linked(safe.owners), ext), ext, new)>>

ConnectData(new) == <<AddOwner(new, 2)>>

DisconnectData(safe, ext) ==
  <<RemoveOwner(AddressBefore(Linked(safe.owners), ext), ext, 1)>>

(* Faulty variant: both swaps are encoded against the list as it was read. *)
PhraseDataStale(safe, device, ext, phrase) ==
  LET mod == Without(safe.owners, {device, ext})
      one == Linked(safe.owners)
  IN <<SwapOwner(AddressBefore(one, mod[1]), mod[1], Paper(phrase)),
       SwapOwner(AddressBefore(one, mod[2]), mod[2], Derived(phrase))>>

(* updateRecoveryPhraseTransaction(): of the owners that are not this       *)
(* device or the extension the first two make room for the new phrase.      *)
PhraseData(safe, device, ext, phrase) ==
  LET mod == Without(safe.owners, {device, ext})
      one == Linked(safe.owners)
      two == ListReplace(one, mod[1], Paper(phrase))
  IN <<SwapOwner(AddressBefore(one, mod[1]), mod[1], Paper(phrase)),
       SwapOwner(AddressBefore(two, mod[2]), mod[2], Derived(phrase))>>

(* The probes that the fee is estimated with before the new owner is known: *)
(* dummyTransactionData() and estimateRecoveryPhraseTransaction().          *)
ReplaceProbe(safe) == ReplaceData(safe, Linked(safe.owners)[2], SafeAddress)
ConnectProbe == ConnectData(SafeAddress)
DisconnectProbe(safe, ext) == DisconnectData(safe, ext)
PhraseProbe(safe) ==
  LET one == Linked(safe.owners)
      two == ListReplace(one, one[2], Fake[1])
  IN <<SwapOwner(AddressBefore(one, one[2]), one[2], Fake[1]),
       SwapOwner(AddressBefore(two, two[3]), two[3], Fake[2])>>
=============================================================================
