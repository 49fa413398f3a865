----------------------------- MODULE SafeOwners ------------------------------
(***************************************************************************)
(* The life of one Safe's owner list: it is deployed, recovered by one     *)
(* phone after the other, an extension is connected, replaced and          *)
(* disconnected and the recovery phrase is replaced, in any order. Every   *)
(* action builds the transaction as OwnerTransactions does and has the     *)
(* contract execute it; how the two are separated in time is the subject   *)
(* of WalletRecovery and OwnerModification.                                *)
(***************************************************************************)
EXTENDS OwnerTransactions, FiniteSets

CONSTANTS
  Devices,     \* accounts that newOwner() has generated on some phone
  Extensions,  \* accounts of browser extensions
  Phrase       \* recovery phrases

(* Accounts of different kinds are different, and none is the contract's    *)
(* sentinel, the Safe itself or an address the probes make up.              *)
ASSUME SafeOwnersAssumption ==
  /\ Devices \cap Extensions = {}
  /\ (Devices \cup Extensions) \cap {NoOwner, Sentinel, SafeAddress, Fake[1], Fake[2]} = {}
  /\ \A p \in Phrase : PhraseOwners(p) \cap (Devices \cup Extensions) = {}

VARIABLES
  safe,     \* the contract: its owners in the order of getOwners(), threshold
  phone     \* the app: this device, the extension, the confirmation count

ownersVars == <<safe, phone>>

Address == Devices \cup Extensions \cup UNION {PhraseOwners(p) : p \in Phrase}

(* The owners a wallet has next to those of a phrase. *)
Own(w) == {w.device, w.ext} \ {NoOwner}

(* The phrase both of whose accounts are owners: provide() takes no other.  *)
Known(p) == PhraseOwners(p) \subseteq ToSet(safe.owners)

OwnersTypeOK ==
  /\ safe.owners \in BoundedSeq(Address, 4)
  /\ Cardinality(ToSet(safe.owners)) = Len(safe.owners)
  /\ safe.threshold \in 1 .. 2
  /\ phone \in [device : Devices, ext : Extensions \cup {NoOwner}, count : 1 .. 2]

(* A Safe is deployed with its owners sorted by address: in any order.      *)
OwnersInit ==
  \E d \in Devices, e \in Extensions \cup {NoOwner}, p \in Phrase :
    /\ phone = [device |-> d, ext |-> e, count |-> NewScheme(e).confirmations]
    /\ safe \in [owners : SetToSeqs(Own(phone) \cup PhraseOwners(p)),
                 threshold : {phone.count}]

-----------------------------------------------------------------------------
(* A transaction of the app: rejected by the relay's estimate when it would *)
(* revert, otherwise executed and then taken over by the wallet.            *)
Transact(calls, w) ==
  LET r == Execute(safe, calls) IN
  /\ r.ok
  /\ safe' = r.safe
  /\ phone' = w

(* Whether a recovery by d with the extension e is built, accepted and      *)
(* passes the checks of postProcessing(): the remote owners are the local   *)
(* ones and the remote threshold is the local confirmation count.           *)
Recovers(d, e, p) ==
  LET b == RecoveryData(safe, d, e, p)
      r == Execute(safe, b.calls)
  IN /\ IsSupported(safe, p)
     /\ r.ok
     /\ ToSet(r.safe.owners) = ({d, e} \ {NoOwner}) \cup PhraseOwners(p)
     /\ r.safe.threshold = b.count

(* A phone that recovers has an account no Safe knows. *)
Recover(d, e, p) ==
  /\ Known(p)
  /\ d \notin ToSet(safe.owners)
  /\ Recovers(d, e, p)
  /\ LET b == RecoveryData(safe, d, e, p)
     IN Transact(b.calls, [device |-> d, ext |-> e, count |-> b.count])

Replace(e) ==
  /\ phone.ext # NoOwner
  /\ IsNewOwner(safe, e)
  /\ Transact(ReplaceData(safe, phone.ext, e), [phone EXCEPT !.ext = e])

Connect(e) ==
  /\ phone.ext = NoOwner
  /\ IsNewOwner(safe, e)
  /\ Transact(ConnectData(e), [phone EXCEPT !.ext = e, !.count = 2])

Disconnect ==
  /\ phone.ext # NoOwner
  /\ Transact(DisconnectData(safe, phone.ext),
              [phone EXCEPT !.ext = NoOwner, !.count = 1])

ReplacePhrase(p) ==
  /\ ~Known(p)
  /\ Transact(PhraseData(safe, phone.device, phone.ext, p), phone)

OwnersNext ==
  \/ \E d \in Devices, e \in Extensions \cup {NoOwner}, p \in Phrase : Recover(d, e, p)
  \/ \E e \in Extensions : Replace(e) \/ Connect(e)
  \/ Disconnect
  \/ \E p \in Phrase : ReplacePhrase(p)

OwnersSpec == OwnersInit /\ [][OwnersNext]_ownersVars

-----------------------------------------------------------------------------
(* Whatever was done to the Safe before, and in whatever order its owners   *)
(* are by now, it has one of the two supported schemes, the owners the      *)
(* wallet knows next to the two of exactly one phrase, and the wallet's     *)
(* confirmation count is the contract's threshold: what                     *)
(* RecoveryDomainService.postProcessing() compares.                         *)
WalletMatchesSafe ==
  /\ OldScheme(safe) = NewScheme(phone.ext)
  /\ phone.count = safe.threshold
  /\ \E p \in Phrase :
       /\ ToSet(safe.owners) = Own(phone) \cup PhraseOwners(p)
       /\ \A q \in Phrase \ {p} : ~Known(q)

(* Whoever holds the phrase can recover the Safe on a new phone, with any   *)
(* extension, the one already connected included, or without one: the calls *)
(* that RecoveryTransactionBuilder encodes against its linked list are      *)
(* accepted in sequence by the contract and leave exactly the local owners. *)
NewDeviceRecovers ==
  \A p \in {q \in Phrase : Known(q)}, e \in Extensions \cup {NoOwner} :
    \A d \in Devices : d \notin ToSet(safe.owners) => Recovers(d, e, p)

(* What the settings offer is never refused by the contract: neither the    *)
(* real transactions of ReplaceBrowserExtensionDomainService, its           *)
(* subclasses and WalletSettingsDomainService, nor the probes they estimate *)
(* the fee with.                                                            *)
SettingsAccepted ==
  LET Ok(calls) == Execute(safe, calls).ok
      ext == phone.ext
  IN /\ Ok(ReplaceProbe(safe)) /\ Ok(PhraseProbe(safe))
     /\ \A p \in Phrase : ~Known(p) => Ok(PhraseData(safe, phone.device, ext, p))
     /\ ext = NoOwner => Ok(ConnectProbe)
     /\ ext # NoOwner => /\ Ok(DisconnectProbe(safe, ext))
                         /\ Ok(DisconnectData(safe, ext))
     /\ \A e \in Extensions : IsNewOwner(safe, e) =>
          Ok(IF ext = NoOwner THEN ConnectData(e) ELSE ReplaceData(safe, ext, e))

(* A recovery that went through without the database being told can be done *)
(* again by the same device and extension: what buildTransactionData() says *)
(* of its case without calls.                                               *)
RecoversAgain ==
  [][\A d \in Devices, e \in Extensions \cup {NoOwner}, p \in Phrase :
       Recover(d, e, p) => Recovers(d, e, p)']_ownersVars
=============================================================================
