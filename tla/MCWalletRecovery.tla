-------------------------- MODULE MCWalletRecovery ---------------------------
(* Instances of WalletRecovery for TLC: the first Safe has no extension,    *)
(* the second one has.                                                      *)
EXTENDS WalletRecovery

OldDevice == <<"old", "device">>
OldExtension == <<"old", "extension">>

MCDeployed ==
  [s \in Safe |->
     IF s = "s1"
     THEN [owners |-> <<Paper(s), OldDevice, Derived(s)>>, threshold |-> 1]
     ELSE [owners |-> <<OldDevice, Paper(s), OldExtension, Derived(s)>>, threshold |-> 2]]
=============================================================================
