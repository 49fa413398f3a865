--------------------------- MODULE RecoveryProofs ----------------------------
(***************************************************************************)
(* Proofs about the recovery of a Safe on a new phone, in two parts.       *)
(*                                                                         *)
(* Part 1, OwnerTransactions and SafeOwners, for any number of phones,     *)
(* extensions and phrases: every transaction the app builds against its    *)
(* linked list is accepted by the contract, and after any of them the Safe *)
(* has the owners and the threshold the wallet has.  What the recursive    *)
(* definitions compute is proved by induction on a set of positions, for   *)
(* owner lists of any length.                                              *)
(*                                                                         *)
(* Part 2, WalletRecovery, for any number of wallets, entries, failures,   *)
(* reviews and kills and a user who waits until nothing is running: the    *)
(* keys of the phrase are gone from a recovered wallet, and a recovered    *)
(* wallet stays recovered.                                                 *)
(***************************************************************************)
EXTENDS WalletRecovery, SafeOwners, FiniteSetTheorems, SequenceTheorems,
        WellFoundedInduction, TLAPS

-----------------------------------------------------------------------------
(* PART 1.  The transactions and the Safe they change.                     *)

-----------------------------------------------------------------------------
(* Induction.                                                              *)

LEMMA LeastNatural ==
  ASSUME NEW T \in SUBSET Nat, T # {}
  PROVE  \E x \in T : \A y \in T : x <= y
<1> DEFINE R == OpToRel(<, Nat)
<1>1. IsWellFoundedOn(R, Nat)
  BY NatLessThanWellFounded
<1>2. ASSUME NEW x \in Nat, NEW y \in Nat, y < x PROVE <<y, x>> \in R
  BY <1>2 DEF OpToRel
<1> HIDE DEF R
<1>3. PICK x \in T : \A y \in T : ~(<<y, x>> \in R)
  BY <1>1, WFMin
<1>4. \A a, b \in Nat : b < a => <<b, a>> \in R
  BY <1>2
<1>5. \A y \in T : ~(y < x)
  BY <1>3, <1>4
<1>6. \A y \in T : y \in Nat /\ x \in Nat
  OBVIOUS
<1> QED BY <1>5, <1>6

\* Induction up to a bound, over a set of naturals.
LEMMA UpTo ==
  ASSUME NEW k \in Nat, NEW T, 0 \in T, \A n \in 0 .. k : n \in T /\ n < k => n + 1 \in T
  PROVE  \A n \in 0 .. k : n \in T
<1> DEFINE U == {n \in 0 .. k : n \notin T}
<1>1. SUFFICES ASSUME U # {} PROVE FALSE
  OBVIOUS
<1>2. U \in SUBSET Nat
  OBVIOUS
<1>3. PICK x \in U : \A y \in U : x <= y
  BY <1>1, <1>2, LeastNatural
<1>4. x \in 0 .. k /\ x # 0 /\ x \notin T
  BY <1>3
<1>5. x - 1 \in 0 .. k /\ x - 1 \notin U /\ x - 1 < k
  BY <1>3, <1>4
<1>6. (x - 1) + 1 \in T
  BY <1>5
<1> QED BY <1>4, <1>6

-----------------------------------------------------------------------------
(* Lists of owners.                                                        *)

\* No owner is in the list twice.
Distinct(s) == \A i, j \in 1 .. Len(s) : s[i] = s[j] => i = j

\* What the linked list holds after all owners have been added.
Between(s) == [i \in 1 .. Len(s) + 2 |->
                 IF i = 1 \/ i = Len(s) + 2 THEN Sentinel ELSE s[i - 1]]

LEMMA BetweenFacts ==
  ASSUME NEW A, NEW s \in Seq(A)
  PROVE  /\ Between(s) \in Seq(A \cup {Sentinel})
         /\ Len(Between(s)) = Len(s) + 2
         /\ Between(s)[1] = Sentinel /\ Between(s)[Len(s) + 2] = Sentinel
         /\ \A i \in 1 .. Len(s) : Between(s)[i + 1] = s[i]
         /\ \A i \in 2 .. Len(s) + 1 : Between(s)[i] = s[i - 1]
<1>1. Len(s) \in Nat /\ \A i \in 1 .. Len(s) : s[i] \in A
  OBVIOUS
<1>2. Between(s) \in [1 .. Len(s) + 2 -> A \cup {Sentinel}]
  BY <1>1 DEF Between
<1>3. Between(s) \in Seq(A \cup {Sentinel}) /\ Len(Between(s)) = Len(s) + 2
  BY <1>1, <1>2
<1>4. \A i \in 2 .. Len(s) + 1 : Between(s)[i] = s[i - 1]
  BY <1>1 DEF Between
<1>5. \A i \in 1 .. Len(s) : Between(s)[i + 1] = s[i]
  BY <1>1, <1>4
<1>6. Between(s)[1] = Sentinel /\ Between(s)[Len(s) + 2] = Sentinel
  BY <1>1 DEF Between
<1> QED BY <1>3, <1>4, <1>5, <1>6

\* Adding one more owner moves the last sentinel.
LEMMA AddedLast ==
  ASSUME NEW A, NEW s \in Seq(A), s # <<>>, NEW o \in A
  PROVE  ListAdd(Between(s), o) = Between(Append(s, o))
<1> DEFINE b == Between(s)
           t == Append(s, o)
           S == A \cup {Sentinel}
<1>1. Len(s) \in Nat /\ Len(s) > 0
  BY EmptySeq
<1>2. /\ b \in Seq(S) /\ Len(b) = Len(s) + 2 /\ b[1] = Sentinel
      /\ \A i \in 2 .. Len(s) + 1 : b[i] = s[i - 1]
  BY BetweenFacts
<1>3. t \in Seq(A) /\ Len(t) = Len(s) + 1 /\ t[Len(s) + 1] = o
      /\ \A i \in 1 .. Len(s) : t[i] = s[i]
  BY <1>1
<1>4. /\ Between(t) \in Seq(S) /\ Len(Between(t)) = Len(s) + 3
      /\ Between(t)[1] = Sentinel /\ Between(t)[Len(s) + 3] = Sentinel
      /\ \A i \in 2 .. Len(s) + 2 : Between(t)[i] = t[i - 1]
  <2> HIDE DEF t
  <2>1. Len(t) + 2 = Len(s) + 3 /\ Len(t) + 1 = Len(s) + 2
    BY <1>1, <1>3
  <2>2. /\ Between(t) \in Seq(S) /\ Len(Between(t)) = Len(t) + 2
        /\ Between(t)[1] = Sentinel /\ Between(t)[Len(t) + 2] = Sentinel
        /\ \A i \in 2 .. Len(t) + 1 : Between(t)[i] = t[i - 1]
    BY <1>3, BetweenFacts
  <2> QED BY <2>1, <2>2
<1> DEFINE f == Front(b)
           e == <<o, Sentinel>>
<1>5. f \in Seq(S) /\ Len(f) = Len(s) + 1 /\ \A i \in 1 .. Len(s) + 1 : f[i] = b[i]
  <2> HIDE DEF b
  <2>1. Len(b) - 1 = Len(s) + 1
    BY <1>1, <1>2
  <2>2. f = SubSeq(b, 1, Len(s) + 1)
    BY <2>1 DEF Front
  <2>3. 1 \in 1 .. Len(b) + 1 /\ Len(s) + 1 \in 1 - 1 .. Len(b)
    BY <1>1, <1>2
  <2> QED BY <1>1, <1>2, <2>2, <2>3, SubSeqProperties
<1>6. e \in Seq(S) /\ Len(e) = 2 /\ e[1] = o /\ e[2] = Sentinel
  OBVIOUS
<1>7. ListAdd(b, o) = f \o e
  <2> HIDE DEF b
  <2>1. Len(b) # 1
    BY <1>1, <1>2
  <2> QED BY <2>1 DEF ListAdd
<1> HIDE DEF f, e, b, t
<1>8. f \o e \in Seq(S) /\ Len(f \o e) = Len(s) + 3
      /\ \A i \in 1 .. Len(s) + 3 :
            (f \o e)[i] = IF i <= Len(s) + 1 THEN f[i] ELSE e[i - (Len(s) + 1)]
  <2>1. /\ f \o e \in Seq(S) /\ Len(f \o e) = Len(f) + Len(e)
        /\ \A i \in 1 .. Len(f) + Len(e) :
              (f \o e)[i] = IF i <= Len(f) THEN f[i] ELSE e[i - Len(f)]
    BY <1>5, <1>6, ConcatProperties
  <2>2. Len(f) + Len(e) = Len(s) + 3
    BY <1>1, <1>5, <1>6
  <2> QED BY <1>5, <2>1, <2>2
<1>9. ASSUME NEW i \in 1 .. Len(s) + 3 PROVE (f \o e)[i] = Between(t)[i]
  <2>1. CASE i = 1
    BY <1>1, <1>2, <1>4, <1>5, <1>8, <2>1
  <2>2. CASE i \in 2 .. Len(s) + 1
    <3>3. i \in 1 .. Len(s) + 1 /\ i <= Len(s) + 1
      BY <1>1, <2>2
    <3>4. (f \o e)[i] = f[i]
      BY <1>8, <3>3
    <3>1. (f \o e)[i] = s[i - 1]
      <4>1. f[i] = b[i]
        BY <1>5, <3>3
      <4>2. b[i] = s[i - 1]
        BY <1>2, <2>2
      <4> QED BY <3>4, <4>1, <4>2
    <3>2. Between(t)[i] = t[i - 1] /\ t[i - 1] = s[i - 1]
      <4>1. i \in 2 .. Len(s) + 2 /\ i - 1 \in 1 .. Len(s)
        BY <1>1, <2>2
      <4>2. Between(t)[i] = t[i - 1]
        BY <1>4, <4>1
      <4>3. t[i - 1] = s[i - 1]
        BY <1>3, <4>1
      <4> QED BY <4>2, <4>3
    <3> QED BY <3>1, <3>2
  <2>3. CASE i = Len(s) + 2
    <3>1. (f \o e)[i] = e[1]
      BY <1>1, <1>8, <2>3
    <3>2. Between(t)[i] = t[Len(s) + 1]
      BY <1>1, <1>4, <2>3
    <3> QED BY <1>3, <1>6, <3>1, <3>2
  <2>4. CASE i = Len(s) + 3
    <3>1. (f \o e)[i] = e[2]
      BY <1>1, <1>8, <2>4
    <3> QED BY <1>4, <1>6, <2>4, <3>1
  <2>5. i = 1 \/ i \in 2 .. Len(s) + 1 \/ i = Len(s) + 2 \/ i = Len(s) + 3
    BY <1>1
  <2> QED BY <2>1, <2>2, <2>3, <2>4, <2>5
<1>10. f \o e = Between(t)
  BY <1>4, <1>8, <1>9, SeqEqual
<1> QED BY <1>7, <1>10 DEF b, t

LEMMA AddedFirst ==
  ASSUME NEW A, NEW o \in A
  PROVE  ListAdd(EmptyList, o) = Between(<<o>>)
<1>1. ListAdd(EmptyList, o) = <<Sentinel, o, Sentinel>>
  BY DEF ListAdd, EmptyList
<1> DEFINE s == <<o>>
<1>2. s \in Seq(A) /\ Len(s) = 1 /\ s[1] = o
  OBVIOUS
<1> HIDE DEF s
<1>3. /\ Between(s) \in Seq(A \cup {Sentinel}) /\ Len(Between(s)) = 3
      /\ Between(s)[1] = Sentinel /\ Between(s)[2] = o /\ Between(s)[3] = Sentinel
  <2>1. /\ Between(s) \in Seq(A \cup {Sentinel}) /\ Len(Between(s)) = Len(s) + 2
        /\ Between(s)[1] = Sentinel /\ Between(s)[Len(s) + 2] = Sentinel
        /\ \A i \in 2 .. Len(s) + 1 : Between(s)[i] = s[i - 1]
    BY <1>2, BetweenFacts
  <2>2. Len(s) + 2 = 3 /\ 2 \in 2 .. Len(s) + 1 /\ 2 - 1 = 1
    BY <1>2
  <2> QED BY <1>2, <2>1, <2>2
<1> DEFINE l == <<Sentinel, o, Sentinel>>
<1>4. l \in Seq(A \cup {Sentinel}) /\ Len(l) = 3 /\ l[1] = Sentinel /\ l[2] = o /\ l[3] = Sentinel
  OBVIOUS
<1> HIDE DEF l
<1>5. \A i \in 1 .. 3 : l[i] = Between(s)[i]
  BY <1>3, <1>4
<1>6. l = Between(s)
  BY <1>3, <1>4, <1>5, SeqEqual
<1> QED BY <1>1, <1>6 DEF s, l

LEMMA LinkedIs ==
  ASSUME NEW A, NEW s \in Seq(A), s # <<>>
  PROVE  Linked(s) = Between(s)
<1> DEFINE Adds(l) == l = [n \in 0 .. Len(s) |-> IF n = 0 THEN EmptyList ELSE ListAdd(l[n - 1], s[n])]
           list == CHOOSE l : Adds(l)
           g == [n \in 0 .. Len(s) |-> IF n = 0 THEN EmptyList ELSE Between(SubSeq(s, 1, n))]
<1>1. Linked(s) = list[Len(s)]
  BY DEF Linked
<1>2. Len(s) \in Nat /\ Len(s) > 0
  BY EmptySeq
<1>3. ASSUME NEW n \in 0 .. Len(s), n < Len(s), n # 0
      PROVE  ListAdd(Between(SubSeq(s, 1, n)), s[n + 1]) = Between(SubSeq(s, 1, n + 1))
  <2> DEFINE t == SubSeq(s, 1, n)
  <2>1. t \in Seq(A) /\ Len(t) = n /\ t # <<>>
    BY <1>2, <1>3
  <2>2. s[n + 1] \in A /\ n + 1 \in 1 .. Len(s)
    BY <1>2, <1>3
  <2>3. Append(t, s[n + 1]) = SubSeq(s, 1, n + 1)
    BY <1>2, <1>3
  <2> HIDE DEF t
  <2>4. ListAdd(Between(t), s[n + 1]) = Between(Append(t, s[n + 1]))
    BY <2>1, <2>2, AddedLast
  <2> QED BY <2>3, <2>4 DEF t
<1>4. ListAdd(EmptyList, s[1]) = Between(SubSeq(s, 1, 1))
  <2> DEFINE t == SubSeq(s, 1, 1)
             u == <<s[1]>>
  <2>2. s[1] \in A /\ 1 \in 1 .. Len(s)
    BY <1>2
  <2>3. t \in Seq(A) /\ Len(t) = 1 /\ t[1] = s[1]
    BY <1>2
  <2>4. u \in Seq(A) /\ Len(u) = 1 /\ u[1] = s[1]
    BY <2>2
  <2> HIDE DEF t, u
  <2>5. \A i \in 1 .. Len(t) : t[i] = u[i]
    BY <2>3, <2>4
  <2>6. t = u
    BY <2>3, <2>4, <2>5, SeqEqual
  <2>1. s[1] \in A /\ SubSeq(s, 1, 1) = <<s[1]>>
    BY <2>2, <2>6 DEF t, u
  <2> QED BY <2>1, AddedFirst
<1>5. ASSUME NEW n \in 1 .. Len(s)
      PROVE  ListAdd(g[n - 1], s[n]) = Between(SubSeq(s, 1, n))
  <2>1. CASE n = 1
    BY <1>2, <1>4, <2>1
  <2>2. CASE n # 1
    <3>1. n - 1 \in 0 .. Len(s) /\ n - 1 < Len(s) /\ n - 1 # 0 /\ (n - 1) + 1 = n
      BY <1>2, <2>2
    <3>2. g[n - 1] = Between(SubSeq(s, 1, n - 1))
      BY <3>1
    <3>3. ListAdd(Between(SubSeq(s, 1, n - 1)), s[(n - 1) + 1]) = Between(SubSeq(s, 1, (n - 1) + 1))
      BY <1>3, <3>1
    <3> QED BY <3>1, <3>2, <3>3
  <2> QED BY <2>1, <2>2
<1>6. Adds(g)
  <2> DEFINE h == [n \in 0 .. Len(s) |-> IF n = 0 THEN EmptyList ELSE ListAdd(g[n - 1], s[n])]
  <2>1. ASSUME NEW n \in 0 .. Len(s) PROVE g[n] = h[n]
    <3>1. CASE n = 0
      BY <3>1
    <3>2. CASE n # 0
      <4>1. n \in 1 .. Len(s)
        BY <1>2, <3>2
      <4>2. h[n] = ListAdd(g[n - 1], s[n]) /\ g[n] = Between(SubSeq(s, 1, n))
        BY <3>2
      <4> QED BY <1>5, <4>1, <4>2
    <3> QED BY <3>1, <3>2
  <2>2. g = h
    BY <2>1
  <2> QED BY <2>2
<1>7. Adds(list)
  BY <1>6
<1> HIDE DEF list
<1> DEFINE T == {n \in 0 .. Len(s) : list[n] = g[n]}
<1>8. 0 \in T
  BY <1>2, <1>7
<1>9. ASSUME NEW n \in 0 .. Len(s), n \in T, n < Len(s) PROVE n + 1 \in T
  <2>1. n + 1 \in 1 .. Len(s) /\ (n + 1) - 1 = n
    BY <1>2, <1>9
  <2>2. list[n + 1] = ListAdd(list[n], s[n + 1])
    BY <1>2, <1>7, <2>1
  <2>3. g[n + 1] = Between(SubSeq(s, 1, n + 1))
    BY <1>2, <2>1
  <2>4. ListAdd(g[n], s[n + 1]) = Between(SubSeq(s, 1, n + 1))
    BY <1>5, <2>1
  <2> QED BY <1>9, <2>1, <2>2, <2>3, <2>4
<1>10. Len(s) \in T
  <2>1. \A n \in 0 .. Len(s) : n \in T
    <3> HIDE DEF T
    <3> QED BY <1>2, <1>8, <1>9, UpTo
  <2> QED BY <1>2, <2>1
<1>11. SubSeq(s, 1, Len(s)) = s
  BY <1>2
<1>12. g[Len(s)] = Between(s)
  <2>1. Len(s) \in 0 .. Len(s) /\ Len(s) # 0
    BY <1>2
  <2>2. g[Len(s)] = Between(SubSeq(s, 1, Len(s)))
    BY <2>1
  <2> QED BY <1>11, <2>2
<1> QED BY <1>1, <1>10, <1>12

-----------------------------------------------------------------------------
(* Where an owner is.                                                      *)

LEMMA IndexIs ==
  ASSUME NEW A, NEW l \in Seq(A), NEW o, NEW n \in 1 .. Len(l), l[n] = o,
         \A m \in 1 .. Len(l) : m < n => l[m] # o
  PROVE  ListIndex(l, o) = n /\ Contains(l, o)
<1> DEFINE I == {i \in 1 .. Len(l) : l[i] = o}
<1>1. n \in I /\ \A y \in I : n <= y
  OBVIOUS
<1>2. I # {} /\ ListIndex(l, o) = Min(I)
  BY <1>1 DEF ListIndex, SelectInSeq
<1>3. Min(I) = n
  <2>1. \E x \in I : \A y \in I : x <= y
    BY <1>1
  <2>2. Min(I) \in I /\ \A y \in I : Min(I) <= y
    BY <2>1 DEF Min
  <2> HIDE DEF I
  <2>3. Min(I) <= n /\ n <= Min(I)
    BY <1>1, <2>2
  <2>4. Min(I) \in Nat /\ n \in Nat
    BY <2>2 DEF I
  <2> QED BY <2>3, <2>4
<1> QED BY <1>2, <1>3 DEF Contains

LEMMA ContainsIs ==
  ASSUME NEW A, NEW s \in Seq(A), NEW o
  PROVE  Contains(s, o) <=> o \in ToSet(s)
<1>1. DOMAIN s = 1 .. Len(s)
  OBVIOUS
<1> QED BY <1>1 DEF Contains, ToSet

LEMMA ToSetIs ==
  ASSUME NEW A, NEW s \in Seq(A)
  PROVE  ToSet(s) = {s[i] : i \in 1 .. Len(s)} /\ ToSet(s) \subseteq A
<1>1. DOMAIN s = 1 .. Len(s)
  OBVIOUS
<1> QED BY <1>1 DEF ToSet

LEMMA OwnerPlace ==
  ASSUME NEW A, NEW s \in Seq(A), NEW o \in ToSet(s)
  PROVE  \E i \in 1 .. Len(s) : s[i] = o
BY ToSetIs

LEMMA PlaceInSafe ==
  ASSUME NEW A, NEW s \in Seq(A), Distinct(s), NEW i \in 1 .. Len(s)
  PROVE  ListIndex(s, s[i]) = i /\ Contains(s, s[i])
<1>1. \A m \in 1 .. Len(s) : m < i => s[m] # s[i]
  BY DEF Distinct
<1> QED BY <1>1, IndexIs

LEMMA PlaceInList ==
  ASSUME NEW A, NEW s \in Seq(A), Distinct(s), NEW i \in 1 .. Len(s), s[i] # Sentinel
  PROVE  /\ ListIndex(Linked(s), s[i]) = i + 1 /\ Contains(Linked(s), s[i])
         /\ AddressBefore(Linked(s), s[i]) = IF i = 1 THEN Sentinel ELSE s[i - 1]
<1> DEFINE b == Between(s)
<1>1. s # <<>> /\ Linked(s) = b
  <2>1. s # <<>>
    OBVIOUS
  <2> QED BY <2>1, LinkedIs
<1>2. /\ b \in Seq(A \cup {Sentinel}) /\ Len(b) = Len(s) + 2 /\ b[1] = Sentinel
      /\ \A j \in 2 .. Len(s) + 1 : b[j] = s[j - 1]
  BY BetweenFacts
<1> HIDE DEF b
<1>3. i + 1 \in 1 .. Len(b) /\ i + 1 \in 2 .. Len(s) + 1 /\ (i + 1) - 1 = i
  BY <1>2
<1>4. b[i + 1] = s[i]
  BY <1>2, <1>3
<1>5. ASSUME NEW m \in 1 .. Len(b), m < i + 1 PROVE b[m] # s[i]
  <2>1. CASE m = 1
    BY <1>2, <2>1
  <2>2. CASE m # 1
    <3>1. m \in 2 .. Len(s) + 1 /\ m - 1 \in 1 .. Len(s) /\ m - 1 # i
      BY <1>2, <1>5, <2>2
    <3>2. b[m] = s[m - 1]
      BY <1>2, <3>1
    <3>3. s[m - 1] # s[i]
      BY <3>1 DEF Distinct
    <3> QED BY <3>2, <3>3
  <2> QED BY <2>1, <2>2
<1>6. ListIndex(b, s[i]) = i + 1 /\ Contains(b, s[i])
  BY <1>2, <1>3, <1>4, <1>5, IndexIs
<1>7. AddressBefore(b, s[i]) = b[(i + 1) - 1]
  BY <1>6 DEF AddressBefore
<1>8. b[i] = IF i = 1 THEN Sentinel ELSE s[i - 1]
  <2>1. CASE i = 1
    BY <1>2, <2>1
  <2>2. CASE i # 1
    <3>1. i \in 2 .. Len(s) + 1
      BY <2>2
    <3> QED BY <1>2, <2>2, <3>1
  <2> QED BY <2>1, <2>2
<1> QED BY <1>1, <1>3, <1>6, <1>7, <1>8

\* The linked list follows a swap.
LEMMA ListFollows ==
  ASSUME NEW A, NEW s \in Seq(A), Distinct(s), NEW i \in 1 .. Len(s), s[i] # Sentinel,
         NEW o \in A
  PROVE  ListReplace(Linked(s), s[i], o) = Linked([s EXCEPT ![i] = o])
<1> DEFINE b == Between(s)
           t == [s EXCEPT ![i] = o]
           c == Between(t)
           S == A \cup {Sentinel}
<1>1. s # <<>> /\ Linked(s) = b
  <2>1. s # <<>>
    OBVIOUS
  <2> QED BY <2>1, LinkedIs
<1>2. /\ b \in Seq(S) /\ Len(b) = Len(s) + 2 /\ b[1] = Sentinel /\ b[Len(s) + 2] = Sentinel
      /\ \A j \in 2 .. Len(s) + 1 : b[j] = s[j - 1]
  BY BetweenFacts
<1>3. /\ t \in Seq(A) /\ Len(t) = Len(s)
      /\ \A j \in 1 .. Len(s) : t[j] = IF j = i THEN o ELSE s[j]
  BY ExceptSeq
<1>4. t # <<>>
  BY <1>3
<1> HIDE DEF t
<1>5. /\ c \in Seq(S) /\ Len(c) = Len(s) + 2 /\ c[1] = Sentinel /\ c[Len(s) + 2] = Sentinel
      /\ \A j \in 2 .. Len(s) + 1 : c[j] = t[j - 1]
  <2>1. /\ c \in Seq(S) /\ Len(c) = Len(t) + 2 /\ c[1] = Sentinel /\ c[Len(t) + 2] = Sentinel
        /\ \A j \in 2 .. Len(t) + 1 : c[j] = t[j - 1]
    BY <1>3, BetweenFacts
  <2> QED BY <1>3, <2>1
<1>6. Linked(t) = c
  BY <1>3, <1>4, LinkedIs
<1> HIDE DEF b, c
<1> DEFINE r == [b EXCEPT ![i + 1] = o]
<1>7. ListReplace(b, s[i], o) = r
  <2>1. ListIndex(b, s[i]) = i + 1 /\ Contains(b, s[i])
    BY <1>1, PlaceInList
  <2> QED BY <2>1 DEF ListReplace
<1>8. /\ r \in Seq(S) /\ Len(r) = Len(s) + 2
      /\ \A j \in 1 .. Len(s) + 2 : r[j] = IF j = i + 1 THEN o ELSE b[j]
  <2>1. i + 1 \in 1 .. Len(b) /\ o \in S
    BY <1>2
  <2> QED BY <1>2, <2>1, ExceptSeq
<1> HIDE DEF r
<1>9. ASSUME NEW j \in 1 .. Len(s) + 2 PROVE r[j] = c[j]
  <2>1. CASE j = 1 \/ j = Len(s) + 2
    <3>1. j # i + 1
      BY <2>1
    <3>2. r[j] = b[j]
      BY <1>8, <3>1
    <3> QED BY <1>2, <1>5, <2>1, <3>2
  <2>2. CASE j # 1 /\ j # Len(s) + 2
    <3>1. j \in 2 .. Len(s) + 1 /\ j - 1 \in 1 .. Len(s) /\ (j = i + 1 <=> j - 1 = i)
      BY <2>2
    <3>2. c[j] = t[j - 1] /\ b[j] = s[j - 1]
      BY <1>2, <1>5, <3>1
    <3>3. t[j - 1] = IF j - 1 = i THEN o ELSE s[j - 1]
      BY <1>3, <3>1
    <3>4. r[j] = IF j = i + 1 THEN o ELSE b[j]
      BY <1>8
    <3> QED BY <3>1, <3>2, <3>3, <3>4
  <2> QED BY <2>1, <2>2
<1>10. r = c
  BY <1>5, <1>8, <1>9, SeqEqual
<1> QED BY <1>1, <1>6, <1>7, <1>10 DEF t

\* Lists without repetition are as long as their sets are large.
LEMMA ListSize ==
  ASSUME NEW A, NEW s \in Seq(A), Distinct(s)
  PROVE  IsFiniteSet(ToSet(s)) /\ Cardinality(ToSet(s)) = Len(s)
<1>1. Len(s) \in Nat /\ DOMAIN s = 1 .. Len(s) /\ ToSet(s) = {s[i] : i \in 1 .. Len(s)}
  BY ToSetIs
<1>2. s \in [1 .. Len(s) -> ToSet(s)]
  BY <1>1
<1>3. s \in Bijection(1 .. Len(s), ToSet(s))
  BY <1>1, <1>2 DEF Bijection, Injection, Surjection, IsInjective, Distinct
<1>4. ExistsBijection(1 .. Len(s), ToSet(s))
  BY <1>3 DEF ExistsBijection
<1>5. IsFiniteSet(1 .. Len(s)) /\ Cardinality(1 .. Len(s)) = Len(s)
  BY <1>1, FS_Interval
<1> QED BY <1>4, <1>5, FS_Bijection

\* One more owner, at the end or at the beginning.
LEMMA AppendedFacts ==
  ASSUME NEW A, NEW s \in Seq(A), Distinct(s), NEW o \in A, o \notin ToSet(s)
  PROVE  /\ Append(s, o) \in Seq(A) /\ Distinct(Append(s, o))
         /\ ToSet(Append(s, o)) = ToSet(s) \cup {o}
<1> DEFINE t == Append(s, o)
<1>1. /\ Len(s) \in Nat /\ t \in Seq(A) /\ Len(t) = Len(s) + 1 /\ t[Len(s) + 1] = o
      /\ \A i \in 1 .. Len(s) : t[i] = s[i]
  OBVIOUS
<1>2. ToSet(s) = {s[i] : i \in 1 .. Len(s)} /\ ToSet(t) = {t[i] : i \in 1 .. Len(t)}
  BY <1>1, ToSetIs
<1> HIDE DEF t
<1>3. ASSUME NEW i \in 1 .. Len(t), NEW j \in 1 .. Len(t), t[i] = t[j] PROVE i = j
  <2>1. CASE i \in 1 .. Len(s) /\ j \in 1 .. Len(s)
    BY <1>1, <1>3, <2>1 DEF Distinct
  <2>2. CASE i = Len(s) + 1 /\ j = Len(s) + 1
    BY <2>2
  <2>3. CASE i \in 1 .. Len(s) /\ j = Len(s) + 1
    BY <1>1, <1>2, <1>3, <2>3
  <2>4. CASE i = Len(s) + 1 /\ j \in 1 .. Len(s)
    BY <1>1, <1>2, <1>3, <2>4
  <2> QED BY <1>1, <2>1, <2>2, <2>3, <2>4
<1>4. Distinct(t)
  BY <1>3 DEF Distinct
<1>5. ToSet(t) = ToSet(s) \cup {o}
  <2>1. 1 .. Len(t) = (1 .. Len(s)) \cup {Len(s) + 1}
    BY <1>1
  <2> QED BY <1>1, <1>2, <2>1
<1> QED BY <1>1, <1>4, <1>5 DEF t

LEMMA ConsFacts ==
  ASSUME NEW A, NEW s \in Seq(A), Distinct(s), NEW o \in A, o \notin ToSet(s)
  PROVE  /\ Cons(o, s) \in Seq(A) /\ Distinct(Cons(o, s)) /\ Len(Cons(o, s)) = Len(s) + 1
         /\ ToSet(Cons(o, s)) = ToSet(s) \cup {o}
<1> DEFINE t == Cons(o, s)
           e == <<o>>
<1>1. e \in Seq(A) /\ Len(e) = 1 /\ e[1] = o
  OBVIOUS
<1>2. t = e \o s
  BY DEF Cons
<1> HIDE DEF e
<1>3. /\ t \in Seq(A) /\ Len(t) = Len(e) + Len(s)
      /\ \A i \in 1 .. Len(e) + Len(s) : t[i] = IF i <= Len(e) THEN e[i] ELSE s[i - Len(e)]
  BY <1>1, <1>2, ConcatProperties
<1>4. /\ Len(s) \in Nat /\ t \in Seq(A) /\ Len(t) = Len(s) + 1 /\ t[1] = o
      /\ \A i \in 2 .. Len(s) + 1 : t[i] = s[i - 1]
  BY <1>1, <1>3
<1>5. ToSet(s) = {s[i] : i \in 1 .. Len(s)} /\ ToSet(t) = {t[i] : i \in 1 .. Len(t)}
  BY <1>4, ToSetIs
<1> HIDE DEF t
<1>6. \A i \in 2 .. Len(s) + 1 : t[i] = s[i - 1] /\ i - 1 \in 1 .. Len(s) /\ t[i] # o
  BY <1>4, <1>5
<1>7. ASSUME NEW i \in 1 .. Len(t), NEW j \in 1 .. Len(t), t[i] = t[j] PROVE i = j
  <2>1. CASE i \in 2 .. Len(s) + 1 /\ j \in 2 .. Len(s) + 1
    <3>1. s[i - 1] = s[j - 1] /\ i - 1 \in 1 .. Len(s) /\ j - 1 \in 1 .. Len(s)
      BY <1>6, <1>7, <2>1
    <3>2. i - 1 = j - 1
      BY <3>1 DEF Distinct
    <3> QED BY <3>2
  <2>2. CASE i = 1 /\ j = 1
    BY <2>2
  <2>3. CASE i = 1 /\ j \in 2 .. Len(s) + 1
    BY <1>4, <1>6, <1>7, <2>3
  <2>4. CASE j = 1 /\ i \in 2 .. Len(s) + 1
    BY <1>4, <1>6, <1>7, <2>4
  <2> QED BY <1>4, <2>1, <2>2, <2>3, <2>4
<1>8. Distinct(t)
  BY <1>7 DEF Distinct
<1>9. ToSet(t) = ToSet(s) \cup {o}
  <2>1. \A i \in 1 .. Len(s) : i + 1 \in 1 .. Len(t) /\ t[i + 1] = s[i]
    <3> SUFFICES ASSUME NEW i \in 1 .. Len(s) PROVE i + 1 \in 1 .. Len(t) /\ t[i + 1] = s[i]
      OBVIOUS
    <3>1. i + 1 \in 2 .. Len(s) + 1 /\ (i + 1) - 1 = i /\ i + 1 \in 1 .. Len(t)
      BY <1>4
    <3> QED BY <1>4, <3>1
  <2>2. \A i \in 1 .. Len(t) : i = 1 \/ i \in 2 .. Len(s) + 1
    BY <1>4
  <2>3. ToSet(t) \subseteq ToSet(s) \cup {o}
    BY <1>4, <1>5, <1>6, <2>2
  <2>4. o \in ToSet(t)
    BY <1>4, <1>5
  <2>5. ToSet(s) \subseteq ToSet(t)
    BY <1>5, <2>1
  <2> QED BY <2>3, <2>4, <2>5
<1> QED BY <1>4, <1>8, <1>9 DEF t

\* One owner in the place of another.
LEMMA SwappedFacts ==
  ASSUME NEW A, NEW s \in Seq(A), Distinct(s), NEW i \in 1 .. Len(s), NEW o \in A,
         o \notin ToSet(s)
  PROVE  /\ [s EXCEPT ![i] = o] \in Seq(A) /\ Distinct([s EXCEPT ![i] = o])
         /\ Len([s EXCEPT ![i] = o]) = Len(s)
         /\ ToSet([s EXCEPT ![i] = o]) = (ToSet(s) \ {s[i]}) \cup {o}
<1> DEFINE t == [s EXCEPT ![i] = o]
<1>1. /\ t \in Seq(A) /\ Len(t) = Len(s)
      /\ \A j \in 1 .. Len(s) : t[j] = IF j = i THEN o ELSE s[j]
  BY ExceptSeq
<1>2. ToSet(s) = {s[j] : j \in 1 .. Len(s)} /\ ToSet(t) = {t[j] : j \in 1 .. Len(t)}
  BY <1>1, ToSetIs
<1> HIDE DEF t
<1>3. Distinct(t)
  BY <1>1, <1>2 DEF Distinct
<1>4. ToSet(t) = (ToSet(s) \ {s[i]}) \cup {o}
  <2>1. ToSet(t) \subseteq (ToSet(s) \ {s[i]}) \cup {o}
    BY <1>1, <1>2 DEF Distinct
  <2>2. ToSet(s) \ {s[i]} \subseteq ToSet(t)
    BY <1>1, <1>2
  <2>3. o \in ToSet(t)
    BY <1>1, <1>2
  <2> QED BY <2>1, <2>2, <2>3
<1> QED BY <1>1, <1>3, <1>4 DEF t
-----------------------------------------------------------------------------
(* What is left of a list.                                                 *)

Keeps(s, S, k, f) ==
  f = [n \in 0 .. k |->
         IF n = 0 THEN <<>>
         ELSE IF s[n] \in S THEN f[n - 1] ELSE Append(f[n - 1], s[n])]

LEMMA KeepsStep ==
  ASSUME NEW s, NEW S, NEW k \in Nat, NEW f, Keeps(s, S, k, f), NEW n \in 1 .. k
  PROVE  f[n] = IF s[n] \in S THEN f[n - 1] ELSE Append(f[n - 1], s[n])
<1> DEFINE g == [m \in 0 .. k |->
                   IF m = 0 THEN <<>>
                   ELSE IF s[m] \in S THEN f[m - 1] ELSE Append(f[m - 1], s[m])]
<1>1. f = g
  BY DEF Keeps
<1>2. n \in 0 .. k /\ n # 0
  OBVIOUS
<1>3. g[n] = IF s[n] \in S THEN f[n - 1] ELSE Append(f[n - 1], s[n])
  BY <1>2
<1> HIDE DEF g
<1> QED BY <1>1, <1>3

LEMMA KeepsExists ==
  ASSUME NEW s, NEW S, NEW k \in Nat
  PROVE  \E f : Keeps(s, S, k, f)
<1> DEFINE T == {n \in 0 .. k : \E f : Keeps(s, S, n, f)}
<1>1. 0 \in T
  <2> DEFINE g == [n \in 0 .. 0 |-> <<>>]
  <2>1. Keeps(s, S, 0, g)
    BY DEF Keeps
  <2> QED BY <2>1
<1>2. ASSUME NEW n \in 0 .. k, n \in T, n < k PROVE n + 1 \in T
  <2>1. PICK f : Keeps(s, S, n, f)
    BY <1>2
  <2> DEFINE g == [m \in 0 .. n + 1 |-> IF m <= n THEN f[m]
                                        ELSE IF s[m] \in S THEN f[n] ELSE Append(f[n], s[m])]
             h == [m \in 0 .. n + 1 |->
                     IF m = 0 THEN <<>>
                     ELSE IF s[m] \in S THEN g[m - 1] ELSE Append(g[m - 1], s[m])]
  <2>2. ASSUME NEW m \in 0 .. n + 1 PROVE g[m] = h[m]
    <3>1. CASE m = 0
      <4>1. f[0] = <<>>
        BY <2>1 DEF Keeps
      <4> QED BY <3>1, <4>1
    <3>2. CASE m \in 1 .. n
      <4>1. m - 1 \in 0 .. n + 1 /\ m - 1 <= n /\ m \in 0 .. n /\ m > 0
        BY <3>2
      <4>2. g[m - 1] = f[m - 1] /\ g[m] = f[m]
        BY <3>2, <4>1
      <4>3. f[m] = IF s[m] \in S THEN f[m - 1] ELSE Append(f[m - 1], s[m])
        BY <2>1, <3>2, KeepsStep
      <4>4. h[m] = IF s[m] \in S THEN g[m - 1] ELSE Append(g[m - 1], s[m])
        BY <4>1
      <4> QED BY <4>2, <4>3, <4>4
    <3>3. CASE m = n + 1
      <4>1. m > 0 /\ m - 1 = n /\ ~(m <= n) /\ n \in 0 .. n + 1 /\ n <= n
        BY <3>3
      <4>2. g[m - 1] = f[n]
        BY <4>1
      <4>3. g[m] = IF s[m] \in S THEN f[n] ELSE Append(f[n], s[m])
        BY <4>1
      <4>4. h[m] = IF s[m] \in S THEN g[m - 1] ELSE Append(g[m - 1], s[m])
        BY <4>1
      <4> QED BY <4>2, <4>3, <4>4
    <3> QED BY <3>1, <3>2, <3>3
  <2>3. g = h
    BY <2>2
  <2>4. Keeps(s, S, n + 1, g)
    BY <2>3 DEF Keeps
  <2>5. n + 1 \in 0 .. k
    BY <1>2
  <2> HIDE DEF g
  <2> QED BY <2>4, <2>5
<1>3. \A n \in 0 .. k : n \in T
  <2> HIDE DEF T
  <2> QED BY <1>1, <1>2, UpTo
<1> QED BY <1>3

\* The owners that are left are those that are not in the set, each once.
LEMMA WithoutFacts ==
  ASSUME NEW A, NEW s \in Seq(A), Distinct(s), NEW S
  PROVE  /\ Without(s, S) \in Seq(A)
         /\ Distinct(Without(s, S))
         /\ ToSet(Without(s, S)) = ToSet(s) \ S
<1> DEFINE kept == CHOOSE f : Keeps(s, S, Len(s), f)
<1>1. Without(s, S) = kept[Len(s)]
  BY DEF Without, Keeps
<1>2. Len(s) \in Nat
  OBVIOUS
<1>3. Keeps(s, S, Len(s), kept)
  BY <1>2, KeepsExists
<1> HIDE DEF kept
<1> DEFINE Left(n) == {s[i] : i \in {j \in 1 .. n : s[j] \notin S}}
           Good(n) == /\ kept[n] \in Seq(A) /\ Distinct(kept[n])
                      /\ ToSet(kept[n]) = Left(n)
           T == {n \in 0 .. Len(s) : Good(n)}
<1>4. 0 \in T
  <2>1. kept[0] = <<>>
    BY <1>2, <1>3 DEF Keeps
  <2>2. Left(0) = {}
    OBVIOUS
  <2>3. <<>> \in Seq(A) /\ Distinct(<<>>) /\ ToSet(<<>>) = {}
    BY DEF Distinct, ToSet
  <2>4. Good(0)
    BY <2>1, <2>2, <2>3
  <2> HIDE DEF Good
  <2> QED BY <1>2, <2>4
<1>5. ASSUME NEW n \in 0 .. Len(s), n \in T, n < Len(s) PROVE n + 1 \in T
  <2>1. n + 1 \in 0 .. Len(s) /\ n + 1 > 0 /\ (n + 1) - 1 = n /\ n + 1 \in 1 .. Len(s)
    BY <1>2, <1>5
  <2>2. kept[n + 1] = IF s[n + 1] \in S THEN kept[n] ELSE Append(kept[n], s[n + 1])
    BY <1>2, <1>3, <2>1, KeepsStep
  <2>3. Good(n)
    BY <1>5
  <2>4. CASE s[n + 1] \in S
    <3>1. Left(n + 1) = Left(n)
      <4>1. {j \in 1 .. n + 1 : s[j] \notin S} = {j \in 1 .. n : s[j] \notin S}
        BY <2>1, <2>4
      <4> QED BY <4>1
    <3>2. kept[n + 1] = kept[n]
      BY <2>2, <2>4
    <3> HIDE DEF Left
    <3>3. Good(n + 1)
      BY <2>3, <3>1, <3>2
    <3> QED BY <2>1, <3>3
  <2>5. CASE s[n + 1] \notin S
    <3> DEFINE l == kept[n]
               o == s[n + 1]
    <3>1. o \in A
      BY <2>1
    <3>2. l \in Seq(A) /\ Distinct(l) /\ ToSet(l) = Left(n)
      BY <2>3
    <3>3. kept[n + 1] = Append(l, o)
      BY <2>2, <2>5
    <3>4. o \notin Left(n)
      BY <2>1 DEF Distinct
    <3>5. Left(n + 1) = Left(n) \cup {o}
      <4>1. {j \in 1 .. n + 1 : s[j] \notin S} = {j \in 1 .. n : s[j] \notin S} \cup {n + 1}
        BY <2>1, <2>5
      <4> QED BY <4>1
    <3> HIDE DEF l, o, Left
    <3>6. Append(l, o) \in Seq(A) /\ Distinct(Append(l, o)) /\ ToSet(Append(l, o)) = ToSet(l) \cup {o}
      BY <3>1, <3>2, <3>4, AppendedFacts
    <3>7. Good(n + 1)
      BY <3>2, <3>3, <3>5, <3>6
    <3> QED BY <2>1, <3>7
  <2> QED BY <2>4, <2>5
<1>6. Good(Len(s))
  <2>1. \A n \in 0 .. Len(s) : n \in T
    <3> HIDE DEF T
    <3> QED BY <1>2, <1>4, <1>5, UpTo
  <2>2. Len(s) \in T
    <3> HIDE DEF T
    <3> QED BY <1>2, <2>1
  <2> HIDE DEF Good
  <2> QED BY <2>2
<1>7. Left(Len(s)) = ToSet(s) \ S
  BY ToSetIs
<1> QED BY <1>1, <1>6, <1>7

-----------------------------------------------------------------------------
(* What the contract does with the calls of one transaction.               *)

After(safe0, r, c) ==
  IF r.ok /\ Accepts(r.safe, c) THEN [ok |-> TRUE, safe |-> Effect(r.safe, c)]
                                ELSE [ok |-> FALSE, safe |-> safe0]

Runs(safe0, calls, k, f) ==
  f = [n \in 0 .. k |-> IF n = 0 THEN [ok |-> TRUE, safe |-> safe0]
                        ELSE After(safe0, f[n - 1], calls[n])]

LEMMA RunsStep ==
  ASSUME NEW safe0, NEW calls, NEW k \in Nat, NEW f, Runs(safe0, calls, k, f)
  PROVE  /\ f[0] = [ok |-> TRUE, safe |-> safe0]
         /\ \A n \in 1 .. k : f[n] = After(safe0, f[n - 1], calls[n])
<1> DEFINE g == [m \in 0 .. k |-> IF m = 0 THEN [ok |-> TRUE, safe |-> safe0]
                                  ELSE After(safe0, f[m - 1], calls[m])]
<1>1. f = g
  BY DEF Runs
<1>2. g[0] = [ok |-> TRUE, safe |-> safe0]
  OBVIOUS
<1>3. ASSUME NEW n \in 1 .. k PROVE g[n] = After(safe0, f[n - 1], calls[n])
  <2>1. n \in 0 .. k /\ n # 0
    OBVIOUS
  <2> QED BY <2>1
<1> HIDE DEF g
<1> QED BY <1>1, <1>2, <1>3

LEMMA RunsExists ==
  ASSUME NEW safe0, NEW calls, NEW k \in Nat
  PROVE  \E f : Runs(safe0, calls, k, f)
<1> DEFINE T == {n \in 0 .. k : \E f : Runs(safe0, calls, n, f)}
           Start == [ok |-> TRUE, safe |-> safe0]
<1>1. 0 \in T
  <2> DEFINE g == [n \in 0 .. 0 |-> Start]
  <2>1. Runs(safe0, calls, 0, g)
    BY DEF Runs
  <2> QED BY <2>1
<1>2. ASSUME NEW n \in 0 .. k, n \in T, n < k PROVE n + 1 \in T
  <2>1. PICK f : Runs(safe0, calls, n, f)
    BY <1>2
  <2> DEFINE g == [m \in 0 .. n + 1 |-> IF m <= n THEN f[m]
                                        ELSE After(safe0, f[n], calls[m])]
             h == [m \in 0 .. n + 1 |-> IF m = 0 THEN Start
                                        ELSE After(safe0, g[m - 1], calls[m])]
  <2>6. f[0] = Start /\ \A m \in 1 .. n : f[m] = After(safe0, f[m - 1], calls[m])
    BY <2>1, RunsStep
  <2>2. ASSUME NEW m \in 0 .. n + 1 PROVE g[m] = h[m]
    <3>1. CASE m = 0
      BY <2>6, <3>1
    <3>2. CASE m \in 1 .. n
      <4>1. m - 1 \in 0 .. n + 1 /\ m - 1 <= n /\ m \in 0 .. n /\ m # 0
        BY <3>2
      <4>2. g[m - 1] = f[m - 1] /\ g[m] = f[m]
        BY <3>2, <4>1
      <4>3. h[m] = After(safe0, g[m - 1], calls[m])
        BY <4>1
      <4>4. f[m] = After(safe0, f[m - 1], calls[m])
        BY <2>6, <3>2
      <4> QED BY <4>2, <4>3, <4>4
    <3>3. CASE m = n + 1
      <4>1. m # 0 /\ m - 1 = n /\ ~(m <= n) /\ n \in 0 .. n + 1 /\ n <= n
        BY <3>3
      <4>2. g[m - 1] = f[n]
        BY <4>1
      <4>3. g[m] = After(safe0, f[n], calls[m])
        BY <4>1
      <4>4. h[m] = After(safe0, g[m - 1], calls[m])
        BY <4>1
      <4> QED BY <4>2, <4>3, <4>4
    <3> QED BY <3>1, <3>2, <3>3
  <2>3. g = h
    BY <2>2
  <2>4. Runs(safe0, calls, n + 1, g)
    BY <2>3 DEF Runs
  <2>5. n + 1 \in 0 .. k
    BY <1>2
  <2> HIDE DEF g
  <2> QED BY <2>4, <2>5
<1>3. \A n \in 0 .. k : n \in T
  <2> HIDE DEF T
  <2> QED BY <1>1, <1>2, UpTo
<1> QED BY <1>3

\* A transaction of one call, or of two, each accepted where it is executed.
LEMMA ExecuteIs ==
  ASSUME NEW safe0, NEW C, NEW calls \in Seq(C)
  PROVE  \E f : /\ Execute(safe0, calls) = f[Len(calls)]
                /\ f[0] = [ok |-> TRUE, safe |-> safe0]
                /\ \A n \in 1 .. Len(calls) : f[n] = After(safe0, f[n - 1], calls[n])
<1> DEFINE after == CHOOSE f : Runs(safe0, calls, Len(calls), f)
<1>1. Execute(safe0, calls) = after[Len(calls)]
  BY DEF Execute, Runs, After
<1>2. Len(calls) \in Nat
  OBVIOUS
<1>3. Runs(safe0, calls, Len(calls), after)
  BY <1>2, RunsExists
<1> HIDE DEF after
<1> QED BY <1>1, <1>2, <1>3, RunsStep

LEMMA ExecuteOne ==
  ASSUME NEW safe0, NEW c, Accepts(safe0, c)
  PROVE  Execute(safe0, <<c>>) = [ok |-> TRUE, safe |-> Effect(safe0, c)]
<1> DEFINE calls == <<c>>
<1>1. calls \in Seq({c}) /\ Len(calls) = 1 /\ calls[1] = c
  OBVIOUS
<1> HIDE DEF calls
<1>2. PICK f : /\ Execute(safe0, calls) = f[Len(calls)]
               /\ f[0] = [ok |-> TRUE, safe |-> safe0]
               /\ \A n \in 1 .. Len(calls) : f[n] = After(safe0, f[n - 1], calls[n])
  BY <1>1, ExecuteIs
<1>3. f[1] = After(safe0, f[0], c)
  BY <1>1, <1>2
<1>4. f[0].ok /\ f[0].safe = safe0
  BY <1>2
<1>5. f[1] = [ok |-> TRUE, safe |-> Effect(safe0, c)]
  BY <1>3, <1>4 DEF After
<1> QED BY <1>1, <1>2, <1>5 DEF calls

LEMMA ExecuteTwo ==
  ASSUME NEW safe0, NEW c, NEW d, Accepts(safe0, c), Accepts(Effect(safe0, c), d)
  PROVE  Execute(safe0, <<c, d>>) = [ok |-> TRUE, safe |-> Effect(Effect(safe0, c), d)]
<1> DEFINE calls == <<c, d>>
<1>1. calls \in Seq({c, d}) /\ Len(calls) = 2 /\ calls[1] = c /\ calls[2] = d
  OBVIOUS
<1> HIDE DEF calls
<1>2. PICK f : /\ Execute(safe0, calls) = f[Len(calls)]
               /\ f[0] = [ok |-> TRUE, safe |-> safe0]
               /\ \A n \in 1 .. Len(calls) : f[n] = After(safe0, f[n - 1], calls[n])
  BY <1>1, ExecuteIs
<1>3. f[1] = After(safe0, f[0], c) /\ f[2] = After(safe0, f[1], d)
  BY <1>1, <1>2
<1>4. f[0].ok /\ f[0].safe = safe0
  BY <1>2
<1>5. f[1] = [ok |-> TRUE, safe |-> Effect(safe0, c)]
  BY <1>3, <1>4 DEF After
<1>6. f[1].ok /\ f[1].safe = Effect(safe0, c)
  BY <1>5
<1>7. f[2] = [ok |-> TRUE, safe |-> Effect(Effect(safe0, c), d)]
  BY <1>3, <1>6 DEF After
<1> QED BY <1>1, <1>2, <1>7 DEF calls

-----------------------------------------------------------------------------
(* The accounts.                                                           *)

\* The addresses that are ever put into the list.
Member == Address \cup {SafeAddress, Fake[1], Fake[2]}
Apart == {NoOwner, Sentinel, SafeAddress, Fake[1], Fake[2]}

LEMMA SpecialFacts ==
  /\ NoOwner # Sentinel /\ SafeAddress \notin {NoOwner, Sentinel}
  /\ Fake[1] \notin {NoOwner, Sentinel, SafeAddress}
  /\ Fake[2] \notin {NoOwner, Sentinel, SafeAddress, Fake[1]}
<1> DEFINE n == <<"none">>
           s == <<"sentinel">>
           a == <<"safe">>
           f == <<"fake1">>
           g == <<"fake2">>
<1>1. n[1] = "none" /\ s[1] = "sentinel" /\ a[1] = "safe" /\ f[1] = "fake1" /\ g[1] = "fake2"
  OBVIOUS
<1>2. NoOwner = n /\ Sentinel = s /\ SafeAddress = a /\ Fake[1] = f /\ Fake[2] = g
  BY DEF NoOwner, Sentinel, SafeAddress, Fake
<1> HIDE DEF n, s, a, f, g
<1>3. /\ n # s /\ n # a /\ n # f /\ n # g /\ s # a /\ s # f /\ s # g
      /\ a # f /\ a # g /\ f # g
  BY <1>1
<1> QED BY <1>2, <1>3

LEMMA PhraseFacts ==
  ASSUME NEW p
  PROVE  /\ Paper(p) # Derived(p)
         /\ PhraseOwners(p) \cap Apart = {}
         /\ \A q : PhraseOwners(p) \cap PhraseOwners(q) # {} => p = q
<1>1. Paper(p) = <<p, "paper">> /\ Derived(p) = <<p, "derived">>
  BY DEF Paper, Derived
<1>2. Paper(p)[1] = p /\ Paper(p)[2] = "paper" /\ Derived(p)[1] = p /\ Derived(p)[2] = "derived"
      /\ Len(Paper(p)) = 2 /\ Len(Derived(p)) = 2
  BY <1>1
<1>3. \A x \in Apart : Len(x) = 1
  BY DEF Apart, NoOwner, Sentinel, SafeAddress, Fake
<1>4. ASSUME NEW q PROVE Paper(q)[1] = q /\ Paper(q)[2] = "paper" /\ Derived(q)[1] = q
                         /\ Derived(q)[2] = "derived"
  BY DEF Paper, Derived
<1>5. Paper(p) # Derived(p)
  BY <1>2
<1>6. PhraseOwners(p) \cap Apart = {}
  BY <1>2, <1>3 DEF PhraseOwners
<1>7. ASSUME NEW q, PhraseOwners(p) \cap PhraseOwners(q) # {} PROVE p = q
  BY <1>2, <1>4, <1>7 DEF PhraseOwners
<1> QED BY <1>5, <1>6, <1>7

LEMMA MemberFacts ==
  /\ Sentinel \notin Member /\ NoOwner \notin Member
  /\ Address \cap Apart = {} /\ Address \subseteq Member
  /\ Devices \cup Extensions \subseteq Address
  /\ \A p \in Phrase : PhraseOwners(p) \subseteq Address
<1>1. \A p \in Phrase : PhraseOwners(p) \cap Apart = {}
  BY PhraseFacts
<1>2. (Devices \cup Extensions) \cap Apart = {}
  BY SafeOwnersAssumption DEF Apart
<1>3. Address \cap Apart = {}
  BY <1>1, <1>2 DEF Address
<1>4. Sentinel \notin Member /\ NoOwner \notin Member
  BY <1>3, SpecialFacts DEF Member, Apart
<1> QED BY <1>3, <1>4 DEF Member, Address

-----------------------------------------------------------------------------
(* One call.                                                               *)

SafeOK(s) == s \in [owners : Seq(Member), threshold : Nat] /\ Distinct(s.owners)

LEMMA FollowsList ==
  ASSUME NEW s \in Seq(Member), Distinct(s), NEW o \in ToSet(s)
  PROVE  Follows(s, AddressBefore(Linked(s), o), o)
<1>1. PICK i \in 1 .. Len(s) : s[i] = o
  BY OwnerPlace
<1>2. o # Sentinel
  BY <1>1, MemberFacts
<1>3. ListIndex(s, s[i]) = i /\ Contains(s, s[i])
  BY PlaceInSafe
<1>4. AddressBefore(Linked(s), s[i]) = IF i = 1 THEN Sentinel ELSE s[i - 1]
  BY <1>1, <1>2, PlaceInList
<1>5. Head(s) = s[i] <=> i = 1
  <2>1. Head(s) = s[1] /\ 1 \in 1 .. Len(s)
    OBVIOUS
  <2> QED BY <2>1 DEF Distinct
<1> QED BY <1>1, <1>3, <1>4, <1>5 DEF Follows

\* A swap that is encoded against the list of the Safe's owners.
SwapOf(s, o, new) == SwapOwner(AddressBefore(Linked(s.owners), o), o, new)

Swapped(s, o, new, c, t) ==
  /\ Accepts(s, c)
  /\ SafeOK(t) /\ t.threshold = s.threshold /\ Len(t.owners) = Len(s.owners)
  /\ ToSet(t.owners) = (ToSet(s.owners) \ {o}) \cup {new}
  /\ ListReplace(Linked(s.owners), o, new) = Linked(t.owners)

LEMMA SwapAccepted ==
  ASSUME NEW s, SafeOK(s), NEW o \in ToSet(s.owners), NEW new \in Member,
         new \notin ToSet(s.owners)
  PROVE  Swapped(s, o, new, SwapOf(s, o, new), Effect(s, SwapOf(s, o, new)))
<1> DEFINE c == SwapOf(s, o, new)
           t == Effect(s, c)
           os == s.owners
<1>1. os \in Seq(Member) /\ Distinct(os)
  BY DEF SafeOK
<1>2. PICK i \in 1 .. Len(os) : os[i] = o
  BY <1>1, OwnerPlace
<1>3. /\ c.fn = "swap" /\ c.old = o /\ c.new = new
      /\ c.prev = AddressBefore(Linked(os), o)
  BY DEF SwapOf, SwapOwner
<1> HIDE DEF c
<1>4. Follows(os, c.prev, o)
  BY <1>1, <1>3, FollowsList
<1>5. ~Contains(os, new)
  BY <1>1, ContainsIs
<1>6. Accepts(s, c)
  BY <1>3, <1>4, <1>5 DEF Accepts
<1>7. ListIndex(os, o) = i
  BY <1>1, <1>2, PlaceInSafe
<1>8. t = [s EXCEPT !.owners = [os EXCEPT ![i] = new]]
  <2>1. t = [s EXCEPT !.owners[ListIndex(os, o)] = new]
    BY <1>3 DEF Effect
  <2> QED BY <1>7, <2>1 DEF SafeOK
<1>9. /\ [os EXCEPT ![i] = new] \in Seq(Member) /\ Distinct([os EXCEPT ![i] = new])
      /\ Len([os EXCEPT ![i] = new]) = Len(os)
      /\ ToSet([os EXCEPT ![i] = new]) = (ToSet(os) \ {os[i]}) \cup {new}
  BY <1>1, SwappedFacts
<1>10. ListReplace(Linked(os), os[i], new) = Linked([os EXCEPT ![i] = new])
  BY <1>1, <1>2, MemberFacts, ListFollows
<1> DEFINE ns == [os EXCEPT ![i] = new]
<1> HIDE DEF ns
<1>11. t.owners = ns /\ t.threshold = s.threshold /\ t \in [owners : Seq(Member), threshold : Nat]
  BY <1>8, <1>9 DEF SafeOK, ns
<1>12. Swapped(s, o, new, c, t)
  BY <1>2, <1>6, <1>9, <1>10, <1>11 DEF SafeOK, ns, Swapped
<1> QED BY <1>12 DEF c

Added(s, new, n, c, t) ==
  /\ Accepts(s, c)
  /\ SafeOK(t) /\ t.threshold = n
  /\ ToSet(t.owners) = ToSet(s.owners) \cup {new}

LEMMA AddAccepted ==
  ASSUME NEW s, SafeOK(s), NEW new \in Member, new \notin ToSet(s.owners),
         NEW n \in 1 .. Len(s.owners) + 1
  PROVE  Added(s, new, n, AddOwner(new, n), Effect(s, AddOwner(new, n)))
<1> DEFINE c == AddOwner(new, n)
           t == Effect(s, c)
           os == s.owners
<1>1. os \in Seq(Member) /\ Distinct(os)
  BY DEF SafeOK
<1>2. c.fn = "add" /\ c.new = new /\ c.count = n
  BY DEF AddOwner
<1> HIDE DEF c
<1>3. Accepts(s, c)
  BY <1>1, <1>2, ContainsIs DEF Accepts
<1>4. t = [s EXCEPT !.owners = Cons(new, os), !.threshold = n]
  BY <1>2 DEF Effect
<1> DEFINE ns == Cons(new, os)
<1>5. /\ ns \in Seq(Member) /\ Distinct(ns) /\ Len(ns) = Len(os) + 1
      /\ ToSet(ns) = ToSet(os) \cup {new}
  BY <1>1, ConsFacts
<1> HIDE DEF ns
<1>6. t.owners = ns /\ t.threshold = n /\ t \in [owners : Seq(Member), threshold : Nat]
  <2>1. t = [s EXCEPT !.owners = ns, !.threshold = n]
    BY <1>4 DEF ns
  <2>2. n \in Nat
    BY <1>1
  <2> QED BY <1>5, <2>1, <2>2 DEF SafeOK
<1>7. Added(s, new, n, c, t)
  BY <1>3, <1>5, <1>6 DEF SafeOK, Added
<1> QED BY <1>7 DEF c

RemoveOf(s, o, n) == RemoveOwner(AddressBefore(Linked(s.owners), o), o, n)

Dropped(s, o, n, c, t) ==
  /\ Accepts(s, c)
  /\ SafeOK(t) /\ t.threshold = n
  /\ ToSet(t.owners) = ToSet(s.owners) \ {o}

LEMMA RemoveAccepted ==
  ASSUME NEW s, SafeOK(s), NEW o \in ToSet(s.owners), NEW n \in 1 .. Len(s.owners) - 1
  PROVE  Dropped(s, o, n, RemoveOf(s, o, n), Effect(s, RemoveOf(s, o, n)))
<1> DEFINE c == RemoveOf(s, o, n)
           t == Effect(s, c)
           os == s.owners
<1>1. os \in Seq(Member) /\ Distinct(os)
  BY DEF SafeOK
<1>2. c.fn = "remove" /\ c.old = o /\ c.count = n /\ c.prev = AddressBefore(Linked(os), o)
  BY DEF RemoveOf, RemoveOwner
<1> HIDE DEF c
<1>3. Accepts(s, c)
  <2>1. Follows(os, c.prev, c.old)
    BY <1>1, <1>2, FollowsList
  <2> QED BY <1>2, <2>1 DEF Accepts
<1> DEFINE ns == Without(os, {o})
<1>4. t = [s EXCEPT !.owners = ns, !.threshold = n]
  BY <1>2 DEF Effect
<1>5. ns \in Seq(Member) /\ Distinct(ns) /\ ToSet(ns) = ToSet(os) \ {o}
  BY <1>1, WithoutFacts
<1> HIDE DEF ns
<1>6. t.owners = ns /\ t.threshold = n /\ t \in [owners : Seq(Member), threshold : Nat]
  <2>1. n \in Nat
    BY <1>1
  <2> QED BY <1>4, <1>5, <2>1 DEF SafeOK
<1>7. Dropped(s, o, n, c, t)
  BY <1>3, <1>5, <1>6 DEF SafeOK, Dropped
<1> QED BY <1>7 DEF c

-----------------------------------------------------------------------------
(* A Safe whose owners are a device, an extension or none, and the two     *)
(* accounts of a phrase.                                                   *)

OwnersOf(d, e, p) == ({d, e} \ {NoOwner}) \cup PhraseOwners(p)
Ext == Extensions \cup {NoOwner}

Agrees(s, d, e, p) ==
  /\ SafeOK(s)
  /\ ToSet(s.owners) = OwnersOf(d, e, p)
  /\ s.threshold = NewScheme(e).confirmations

LEMMA PairSize ==
  ASSUME NEW x, NEW y, x # y
  PROVE  IsFiniteSet({x, y}) /\ Cardinality({x, y}) = 2
<1>1. IsFiniteSet({x}) /\ Cardinality({x}) = 1
  BY FS_Singleton
<1>2. {x, y} = {x} \cup {y} /\ y \notin {x}
  OBVIOUS
<1> QED BY <1>1, <1>2, FS_AddElement

LEMMA OwnersFacts ==
  ASSUME NEW d \in Devices, NEW e \in Ext, NEW p \in Phrase
  PROVE  /\ d # e /\ d # NoOwner
         /\ OwnersOf(d, e, p) \subseteq Address
         /\ PhraseOwners(p) \cap {d, e} = {}
         /\ OwnersOf(d, e, p) \ PhraseOwners(p) = {d, e} \ {NoOwner}
         /\ OwnersOf(d, e, p) \ {d, e} = PhraseOwners(p)
         /\ IsFiniteSet(OwnersOf(d, e, p))
         /\ Cardinality(OwnersOf(d, e, p)) = IF e = NoOwner THEN 3 ELSE 4
<1>1. d # e /\ d # NoOwner
  BY SafeOwnersAssumption DEF Ext
<1>2. PhraseOwners(p) \cap {d, e} = {}
  BY SafeOwnersAssumption, PhraseFacts DEF Ext, Apart
<1>3. OwnersOf(d, e, p) \subseteq Address
  BY MemberFacts DEF OwnersOf, Ext
<1>4. NoOwner \notin PhraseOwners(p)
  BY PhraseFacts DEF Apart
<1>5. /\ OwnersOf(d, e, p) \ PhraseOwners(p) = {d, e} \ {NoOwner}
      /\ OwnersOf(d, e, p) \ {d, e} = PhraseOwners(p)
  BY <1>2, <1>4 DEF OwnersOf
<1> DEFINE P == PhraseOwners(p)
<1>6. IsFiniteSet(P) /\ Cardinality(P) = 2
  BY PairSize, PhraseFacts DEF PhraseOwners
<1> HIDE DEF P
<1>7. d \notin P /\ (e # NoOwner => e \notin P \cup {d})
  BY <1>1, <1>2 DEF P
<1>8. IsFiniteSet(P \cup {d}) /\ Cardinality(P \cup {d}) = 3
  BY <1>6, <1>7, FS_AddElement
<1>9. IsFiniteSet((P \cup {d}) \cup {e}) /\ (e # NoOwner => Cardinality((P \cup {d}) \cup {e}) = 4)
  <2> DEFINE Q == P \cup {d}
  <2>1. IsFiniteSet(Q) /\ Cardinality(Q) = 3 /\ (e # NoOwner => e \notin Q)
    BY <1>7, <1>8
  <2> HIDE DEF Q
  <2>2. IsFiniteSet(Q \cup {e}) /\ (e \notin Q => Cardinality(Q \cup {e}) = 4)
    BY <2>1, FS_AddElement
  <2> QED BY <2>1, <2>2 DEF Q
<1>10. OwnersOf(d, e, p) = IF e = NoOwner THEN P \cup {d} ELSE (P \cup {d}) \cup {e}
  <2>1. CASE e = NoOwner
    <3>1. {d, e} \ {NoOwner} = {d}
      BY <1>1, <2>1
    <3> QED BY <2>1, <3>1 DEF OwnersOf, P
  <2>2. CASE e # NoOwner
    <3>1. {d, e} \ {NoOwner} = {d, e}
      BY <1>1, <2>2
    <3> QED BY <2>2, <3>1 DEF OwnersOf, P
  <2> QED BY <2>1, <2>2
<1>11. /\ IsFiniteSet(OwnersOf(d, e, p))
       /\ Cardinality(OwnersOf(d, e, p)) = IF e = NoOwner THEN 3 ELSE 4
  BY <1>8, <1>9, <1>10
<1> QED BY <1>1, <1>2, <1>3, <1>5, <1>11

LEMMA SchemeFacts ==
  /\ WithoutExtension.confirmations = 1 /\ WithoutExtension.owners = 3
  /\ WithExtension.confirmations = 2 /\ WithExtension.owners = 4
  /\ WithoutExtension # WithExtension
  /\ NewScheme(NoOwner) = WithoutExtension
  /\ \A e : e # NoOwner => NewScheme(e) = WithExtension
BY DEF WithoutExtension, WithExtension, Scheme, NewScheme

LEMMA AgreesFacts ==
  ASSUME NEW d \in Devices, NEW e \in Ext, NEW p \in Phrase, NEW s, Agrees(s, d, e, p)
  PROVE  /\ SafeOK(s) /\ s.owners \in Seq(Member) /\ Distinct(s.owners)
         /\ Len(s.owners) = IF e = NoOwner THEN 3 ELSE 4
         /\ s.threshold = IF e = NoOwner THEN 1 ELSE 2
         /\ OldScheme(s) = NewScheme(e)
<1>1. SafeOK(s) /\ s.owners \in Seq(Member) /\ Distinct(s.owners)
  BY DEF Agrees, SafeOK
<1>2. Len(s.owners) = IF e = NoOwner THEN 3 ELSE 4
  BY <1>1, ListSize, OwnersFacts DEF Agrees
<1>3. s.threshold = IF e = NoOwner THEN 1 ELSE 2
  BY SchemeFacts DEF Agrees
<1>4. OldScheme(s) = NewScheme(e)
  BY <1>2, <1>3 DEF OldScheme, NewScheme, WithoutExtension, WithExtension
<1> QED BY <1>1, <1>2, <1>3, <1>4

\* The owners the builder may change: this wallet's.
LEMMA ModifiableFacts ==
  ASSUME NEW d \in Devices, NEW e \in Ext, NEW p \in Phrase, NEW s, Agrees(s, d, e, p)
  PROVE  LET m == ModifiableOwners(s, p)
         IN  /\ m \in Seq(Member) /\ Len(m) = IF e = NoOwner THEN 1 ELSE 2
             /\ m[1] \in {d, e} \ {NoOwner}
             /\ e # NoOwner => m[2] \in {d, e} /\ m[2] # m[1]
             /\ IsSupported(s, p)
<1> DEFINE m == ModifiableOwners(s, p)
           W == {d, e} \ {NoOwner}
<1>1. s.owners \in Seq(Member) /\ Distinct(s.owners)
  BY AgreesFacts
<1>2. m \in Seq(Member) /\ Distinct(m) /\ ToSet(m) = ToSet(s.owners) \ PhraseOwners(p)
  BY <1>1, WithoutFacts DEF ModifiableOwners
<1>3. ToSet(m) = W
  BY <1>2, OwnersFacts DEF Agrees
<1>4. Cardinality(W) = IF e = NoOwner THEN 1 ELSE 2
  <2>1. CASE e = NoOwner
    <3>1. W = {d}
      BY <2>1, OwnersFacts
    <3> QED BY <2>1, <3>1, FS_Singleton
  <2>2. CASE e # NoOwner
    <3>1. W = {d, e} /\ d # e
      BY <2>2, OwnersFacts
    <3> QED BY <2>2, <3>1, PairSize
  <2> QED BY <2>1, <2>2
<1> HIDE DEF m
<1>5. Len(m) = IF e = NoOwner THEN 1 ELSE 2
  BY <1>2, <1>3, <1>4, ListSize
<1>6. ToSet(m) = {m[i] : i \in 1 .. Len(m)}
  BY <1>2, ToSetIs
<1>7. m[1] \in W
  BY <1>3, <1>5, <1>6
<1>8. ASSUME e # NoOwner PROVE m[2] \in {d, e} /\ m[2] # m[1]
  <2>1. 1 \in 1 .. Len(m) /\ 2 \in 1 .. Len(m)
    BY <1>5, <1>8
  <2>2. m[1] # m[2]
    BY <1>2, <2>1 DEF Distinct
  <2>3. m[2] \in W
    BY <1>3, <1>6, <2>1
  <2> QED BY <2>2, <2>3
<1>9. IsSupported(s, p)
  <2>1. OldScheme(s) \in {WithoutExtension, WithExtension}
    BY AgreesFacts, SchemeFacts
  <2>2. Len(m) \in {1, 2}
    BY <1>5
  <2> QED BY <2>1, <2>2 DEF IsSupported, m
<1> QED BY <1>2, <1>5, <1>7, <1>8, <1>9 DEF m

LEMMA InLinked ==
  ASSUME NEW A, NEW s \in Seq(A), s # <<>>, NEW o, o # Sentinel
  PROVE  Contains(Linked(s), o) <=> o \in ToSet(s)
<1> DEFINE b == Between(s)
<1>1. Linked(s) = b
  BY LinkedIs
<1>2. DOMAIN b = 1 .. Len(s) + 2 /\ Len(b) = Len(s) + 2 /\ Len(s) \in Nat
  <2>1. Len(b) = Len(s) + 2
    BY BetweenFacts
  <2>2. Len(s) \in Nat
    OBVIOUS
  <2> QED BY <2>1, <2>2 DEF Between
<1>3. \A i \in 1 .. Len(s) + 2 :
        b[i] = IF i = 1 \/ i = Len(s) + 2 THEN Sentinel ELSE s[i - 1]
  BY DEF Between
<1>4. Contains(b, o) <=> \E i \in 1 .. Len(s) + 2 : b[i] = o
  BY <1>2 DEF Contains
<1> HIDE DEF b
<1>5. ASSUME NEW i \in 1 .. Len(s) + 2, b[i] = o PROVE o \in ToSet(s)
  <2>1. i - 1 \in 1 .. Len(s) /\ b[i] = s[i - 1]
    BY <1>2, <1>3, <1>5
  <2> QED BY <1>5, <2>1, ToSetIs
<1>6. ASSUME o \in ToSet(s) PROVE \E i \in 1 .. Len(s) + 2 : b[i] = o
  <2>1. PICK j \in 1 .. Len(s) : s[j] = o
    BY <1>6, OwnerPlace
  <2>2. j + 1 \in 1 .. Len(s) + 2 /\ j + 1 # 1 /\ j + 1 # Len(s) + 2 /\ (j + 1) - 1 = j
    BY <1>2
  <2>3. b[j + 1] = s[j]
    BY <1>3, <2>2
  <2> QED BY <2>1, <2>2, <2>3
<1> QED BY <1>1, <1>4, <1>5, <1>6

-----------------------------------------------------------------------------
(* RecoveryTransactionBuilder.                                             *)

\* The state of the builder, and what each of its steps makes of it.
State(l, m, k, n) == [list |-> l, mod |-> m, calls |-> k, count |-> n]

LEMMA SwapData ==
  ASSUME NEW l, NEW m, NEW k, NEW n, NEW new
  PROVE  LET old == Head(m) IN
         SwapOwnerData(State(l, m, k, n), new) =
           IF new = old THEN State(l, Tail(m), k, n)
           ELSE State(ListReplace(l, old, new), Tail(m),
                      Append(k, SwapOwner(AddressBefore(l, old), old, new)), n)
<1> DEFINE b == State(l, m, k, n)
<1>1. b = [list |-> l, mod |-> m, calls |-> k, count |-> n]
  BY DEF State
<1>2. b.list = l /\ b.mod = m /\ b.calls = k /\ b.count = n
  BY <1>1
<1>3. CASE new = Head(m)
  <2>1. SwapOwnerData(b, new) = [b EXCEPT !.mod = Tail(b.mod)]
    BY <1>2, <1>3 DEF SwapOwnerData
  <2>2. SwapOwnerData(b, new) = [list |-> l, mod |-> Tail(m), calls |-> k, count |-> n]
    BY <1>1, <1>2, <2>1
  <2> QED BY <1>3, <2>2 DEF State
<1>4. CASE new # Head(m)
  <2> DEFINE c == SwapOwner(AddressBefore(l, Head(m)), Head(m), new)
             r == ListReplace(l, Head(m), new)
  <2>1. SwapOwnerData(b, new) = [b EXCEPT !.mod = Tail(b.mod), !.list = r,
                                          !.calls = Append(b.calls, c)]
    BY <1>2, <1>4 DEF SwapOwnerData
  <2> HIDE DEF c, r
  <2>2. SwapOwnerData(b, new) =
          [list |-> r, mod |-> Tail(m), calls |-> Append(k, c), count |-> n]
    BY <1>1, <1>2, <2>1
  <2> QED BY <1>4, <2>2 DEF State, c, r
<1> QED BY <1>3, <1>4

\* The Safe once its first modifiable owner is the device that recovers.
Taken(s, d, p) == Effect(s, SwapOf(s, ModifiableOwners(s, p)[1], d))

LEMMA FirstSwap ==
  ASSUME NEW d0 \in Devices, NEW e0 \in Ext, NEW p \in Phrase, NEW s, Agrees(s, d0, e0, p),
         NEW d \in Devices, d \notin ToSet(s.owners)
  PROVE  LET m == ModifiableOwners(s, p)
             c == SwapOf(s, m[1], d)
             t == Taken(s, d, p)
         IN  /\ Swapped(s, m[1], d, c, t) /\ t = Effect(s, c)
             /\ SwapOwnerData(State(Linked(s.owners), m, <<>>, s.threshold), d) =
                  State(Linked(t.owners), Tail(m), <<c>>, s.threshold)
<1> DEFINE m == ModifiableOwners(s, p)
           o == m[1]
           c == SwapOf(s, o, d)
           t == Taken(s, d, p)
<1>1. m \in Seq(Member) /\ Len(m) >= 1 /\ o \in {d0, e0} \ {NoOwner}
  BY ModifiableFacts
<1>2. o \in ToSet(s.owners) /\ d # o
  BY <1>1 DEF Agrees, OwnersOf
<1>3. d \in Member /\ SafeOK(s)
  BY MemberFacts, AgreesFacts
<1>4. Head(m) = o
  BY <1>1
<1>5. t = Effect(s, c)
  BY DEF Taken
<1> HIDE DEF o, m
<1>6. Swapped(s, o, d, c, Effect(s, c))
  BY <1>2, <1>3, SwapAccepted
<1>7. c = SwapOwner(AddressBefore(Linked(s.owners), o), o, d)
  BY DEF SwapOf
<1> HIDE DEF t, c
<1>8. ListReplace(Linked(s.owners), o, d) = Linked(t.owners)
  BY <1>5, <1>6 DEF Swapped
<1> DEFINE L == Linked(s.owners)
           h == s.threshold
           z == <<>>
           b == SwapOwnerData(State(L, m, z, h), d)
           k == SwapOwner(AddressBefore(L, Head(m)), Head(m), d)
<1> HIDE DEF L, h, z
<1>9. b = IF d = Head(m) THEN State(L, Tail(m), z, h)
          ELSE State(ListReplace(L, Head(m), d), Tail(m), Append(z, k), h)
  BY SwapData
<1>10. k = c
  BY <1>4, <1>7 DEF L
<1> HIDE DEF k, b
<1>11. Append(z, c) = <<c>>
  BY DEF z
<1>12. b = State(ListReplace(L, o, d), Tail(m), <<c>>, h)
  BY <1>2, <1>4, <1>9, <1>10, <1>11
<1>13. b = State(Linked(t.owners), Tail(m), <<c>>, h)
  BY <1>8, <1>12 DEF L
<1>14. Swapped(s, o, d, c, t)
  BY <1>5, <1>6
<1> QED BY <1>5, <1>13, <1>14 DEF b, o, m, c, t, L, h, z

LEMMA AddData ==
  ASSUME NEW l, NEW m, NEW k, NEW n, NEW new, ~Contains(l, new)
  PROVE  AddOwnerData(State(l, m, k, n), new) =
           State(ListAdd(l, new), m, Append(k, AddOwner(new, 2)), 2)
<1> DEFINE b == State(l, m, k, n)
           c == AddOwner(new, 2)
<1>1. b = [list |-> l, mod |-> m, calls |-> k, count |-> n]
  BY DEF State
<1>2. b.list = l /\ b.mod = m /\ b.calls = k /\ b.count = n
  BY <1>1
<1>3. AddOwnerData(b, new) =
        [b EXCEPT !.calls = Append(b.calls, c), !.list = ListAdd(b.list, new), !.count = 2]
  BY <1>2, SchemeFacts DEF AddOwnerData
<1> HIDE DEF c
<1>4. AddOwnerData(b, new) =
        [list |-> ListAdd(l, new), mod |-> m, calls |-> Append(k, c), count |-> 2]
  BY <1>1, <1>2, <1>3
<1> QED BY <1>4 DEF State, c

LEMMA RemoveData ==
  ASSUME NEW l, NEW m, NEW k, NEW n
  PROVE  RemoveOwnerData(State(l, m, k, n)) =
           State(ListRemove(l, Head(m)), Tail(m),
                 Append(k, RemoveOwner(AddressBefore(l, Head(m)), Head(m), 1)), 1)
<1> DEFINE b == State(l, m, k, n)
           c == RemoveOwner(AddressBefore(l, Head(m)), Head(m), 1)
           r == ListRemove(l, Head(m))
<1>1. b = [list |-> l, mod |-> m, calls |-> k, count |-> n]
  BY DEF State
<1>2. b.list = l /\ b.mod = m /\ b.calls = k /\ b.count = n
  BY <1>1
<1>3. RemoveOwnerData(b) =
        [b EXCEPT !.mod = Tail(b.mod), !.list = r, !.calls = Append(b.calls, c), !.count = 1]
  BY <1>2, SchemeFacts DEF RemoveOwnerData
<1> HIDE DEF c, r
<1>4. RemoveOwnerData(b) = [list |-> r, mod |-> Tail(m), calls |-> Append(k, c), count |-> 1]
  BY <1>1, <1>2, <1>3
<1> QED BY <1>4 DEF State, c, r

LEMMA SecondIs ==
  ASSUME NEW A, NEW m \in Seq(A), Len(m) = 2
  PROVE  Head(Tail(m)) = m[2]
<1>1. m # <<>>
  BY EmptySeq
<1>2. /\ Tail(m) \in Seq(A) /\ Len(Tail(m)) = 1
      /\ \A i \in 1 .. Len(Tail(m)) : Tail(m)[i] = m[i + 1]
  BY <1>1, HeadTailProperties
<1>3. Tail(m)[1] = m[2]
  <2>1. 1 \in 1 .. Len(Tail(m)) /\ 1 + 1 = 2
    BY <1>2
  <2> QED BY <1>2, <2>1
<1>4. Head(Tail(m)) = Tail(m)[1]
  BY <1>2
<1> QED BY <1>3, <1>4

LEMMA TakenFacts ==
  ASSUME NEW d0 \in Devices, NEW e0 \in Ext, NEW p \in Phrase, NEW s, Agrees(s, d0, e0, p),
         NEW d \in Devices, d \notin ToSet(s.owners)
  PROVE  LET m == ModifiableOwners(s, p)
             t == Taken(s, d, p)
         IN  /\ SafeOK(t) /\ t.owners \in Seq(Member) /\ t.owners # <<>>
             /\ Len(t.owners) = IF e0 = NoOwner THEN 3 ELSE 4
             /\ t.threshold = IF e0 = NoOwner THEN 1 ELSE 2
             /\ e0 = NoOwner => ToSet(t.owners) = OwnersOf(d, NoOwner, p)
             /\ e0 # NoOwner => /\ ToSet(t.owners) = {m[2], d} \cup PhraseOwners(p)
                                /\ m[2] # d /\ m[2] \notin PhraseOwners(p)
<1> DEFINE m == ModifiableOwners(s, p)
           t == Taken(s, d, p)
           T == ToSet(t.owners)
<1>1. /\ m \in Seq(Member) /\ Len(m) = IF e0 = NoOwner THEN 1 ELSE 2
      /\ m[1] \in {d0, e0} \ {NoOwner}
      /\ e0 # NoOwner => m[2] \in {d0, e0} /\ m[2] # m[1]
  BY ModifiableFacts
<1>2. Swapped(s, m[1], d, SwapOf(s, m[1], d), t)
  BY FirstSwap
<1>3. SafeOK(t) /\ T = (ToSet(s.owners) \ {m[1]}) \cup {d}
      /\ t.threshold = s.threshold /\ Len(t.owners) = Len(s.owners)
  BY <1>2 DEF Swapped
<1> HIDE DEF m, t
<1>4. ToSet(s.owners) = OwnersOf(d0, e0, p)
  BY DEF Agrees
<1>5. Len(t.owners) = IF e0 = NoOwner THEN 3 ELSE 4
  BY <1>3, AgreesFacts
<1>6. t.threshold = IF e0 = NoOwner THEN 1 ELSE 2
  BY <1>3, AgreesFacts
<1>7. t.owners \in Seq(Member) /\ t.owners # <<>>
  <2>1. t.owners \in Seq(Member)
    BY <1>3 DEF SafeOK
  <2> QED BY <1>5, <2>1
<1> HIDE DEF T
<1>8. PhraseOwners(p) \cap {d0, e0} = {} /\ d0 # e0
  BY OwnersFacts
<1>9. ASSUME e0 = NoOwner PROVE T = OwnersOf(d, NoOwner, p)
  <2>1. m[1] = d0
    BY <1>1, <1>9
  <2>2. ToSet(s.owners) = {d0} \cup PhraseOwners(p)
    BY <1>4, <1>8, <1>9 DEF OwnersOf
  <2>3. T = {d} \cup PhraseOwners(p)
    BY <1>3, <1>8, <2>1, <2>2
  <2>4. d # NoOwner
    BY OwnersFacts
  <2> QED BY <2>3, <2>4 DEF OwnersOf
<1>10. ASSUME e0 # NoOwner
       PROVE  T = {m[2], d} \cup PhraseOwners(p) /\ m[2] # d
              /\ m[2] \notin PhraseOwners(p)
  <2>1. ToSet(s.owners) = {d0, e0} \cup PhraseOwners(p)
    <3>1. {d0, e0} \ {NoOwner} = {d0, e0}
      BY <1>10, OwnersFacts
    <3> QED BY <1>4, <3>1 DEF OwnersOf
  <2>2. {d0, e0} \ {m[1]} = {m[2]}
    BY <1>1, <1>8, <1>10
  <2>3. m[1] \notin PhraseOwners(p) /\ m[2] \notin PhraseOwners(p) /\ m[2] # d
    BY <1>1, <1>8, <1>10, <2>1
  <2>4. T = {m[2], d} \cup PhraseOwners(p)
    BY <1>3, <2>1, <2>2, <2>3
  <2> QED BY <2>3, <2>4
<1> QED BY <1>3, <1>5, <1>6, <1>7, <1>9, <1>10 DEF m, t, T

\* What a recovery has to end with.
Recovered(s, b, d, e, p) ==
  LET r == Execute(s, b.calls) IN r.ok /\ Agrees(r.safe, d, e, p) /\ b.count = r.safe.threshold

LEMMA ByOneCall ==
  ASSUME NEW s, NEW c, NEW t, Accepts(s, c), t = Effect(s, c), NEW l, NEW m, NEW n,
         NEW d, NEW e, NEW p, Agrees(t, d, e, p), t.threshold = n
  PROVE  Recovered(s, State(l, m, <<c>>, n), d, e, p)
<1> DEFINE b == State(l, m, <<c>>, n)
           r == Execute(s, b.calls)
<1>1. b.calls = <<c>> /\ b.count = n
  BY DEF State
<1>2. Execute(s, <<c>>) = [ok |-> TRUE, safe |-> t]
  BY ExecuteOne
<1> HIDE DEF b
<1>3. r = [ok |-> TRUE, safe |-> t]
  BY <1>1, <1>2
<1>4. r.ok /\ r.safe = t
  BY <1>3
<1> QED BY <1>1, <1>4 DEF Recovered, b

LEMMA AppendIs ==
  ASSUME NEW A, NEW s \in Seq(A), NEW o \in A
  PROVE  /\ Append(s, o) \in Seq(A) /\ Len(Append(s, o)) = Len(s) + 1
         /\ \A i \in 1 .. Len(s) : Append(s, o)[i] = s[i]
         /\ Append(s, o)[Len(s) + 1] = o
OBVIOUS

LEMMA AppendToOne ==
  ASSUME NEW c, NEW k
  PROVE  Append(<<c>>, k) = <<c, k>>
<1> DEFINE A == {c, k}
           s == <<c>>
           t == Append(s, k)
           u == <<c, k>>
<1>1. s \in Seq(A) /\ Len(s) = 1 /\ s[1] = c /\ k \in A
  OBVIOUS
<1>2. u \in Seq(A) /\ Len(u) = 2 /\ u[1] = c /\ u[2] = k
  OBVIOUS
<1> HIDE DEF s, u, A
<1>3. t \in Seq(A)
  BY <1>1, AppendIs
<1>4. Len(t) = Len(s) + 1
  BY <1>1, AppendIs
<1>5. t[Len(s) + 1] = k
  BY <1>1, AppendIs
<1>6. t[1] = s[1]
  <2>1. 1 \in 1 .. Len(s)
    BY <1>1
  <2>2. \A i \in 1 .. Len(s) : t[i] = s[i]
    BY <1>1, AppendIs
  <2> HIDE DEF t
  <2> QED BY <2>1, <2>2
<1> HIDE DEF t
<1>7. \A i \in 1 .. Len(t) : t[i] = u[i]
  <2>1. 1 .. Len(t) = {1, 2} /\ Len(s) + 1 = 2
    BY <1>1, <1>4
  <2> QED BY <1>1, <1>2, <1>5, <1>6, <2>1
<1>8. Len(t) = Len(u)
  BY <1>1, <1>2, <1>4
<1>9. t = u
  BY <1>2, <1>3, <1>7, <1>8, SeqEqual
<1> QED BY <1>9 DEF s, t, u

LEMMA ByTwoCalls ==
  ASSUME NEW s, NEW c, NEW t, Accepts(s, c), t = Effect(s, c),
         NEW k, NEW v, Accepts(t, k), v = Effect(t, k), NEW l, NEW m, NEW n,
         NEW d, NEW e, NEW p, Agrees(v, d, e, p), v.threshold = n
  PROVE  Recovered(s, State(l, m, Append(<<c>>, k), n), d, e, p)
<1> DEFINE b == State(l, m, Append(<<c>>, k), n)
           r == Execute(s, b.calls)
<1>1. b.calls = <<c, k>> /\ b.count = n
  <2>1. Append(<<c>>, k) = <<c, k>>
    BY AppendToOne
  <2> QED BY <2>1 DEF State
<1>2. Execute(s, <<c, k>>) = [ok |-> TRUE, safe |-> v]
  BY ExecuteTwo
<1> HIDE DEF b
<1>3. r = [ok |-> TRUE, safe |-> v]
  BY <1>1, <1>2
<1>4. r.ok /\ r.safe = v
  BY <1>3
<1> QED BY <1>1, <1>4 DEF Recovered, b

\* The builder, by the schemes of the Safe and of the wallet that recovers it.
LEMMA RecoveryIs ==
  ASSUME NEW s, NEW d, NEW e, NEW p, NEW e0, OldScheme(s) = NewScheme(e0)
  PROVE  LET b == SwapOwnerData(State(Linked(s.owners), ModifiableOwners(s, p), <<>>,
                                      s.threshold), d)
         IN  RecoveryData(s, d, e, p) =
               IF e0 = NoOwner
               THEN IF e = NoOwner THEN b ELSE AddOwnerData(b, e)
               ELSE IF e = NoOwner THEN RemoveOwnerData(b) ELSE SwapOwnerData(b, e)
<1> DEFINE b == SwapOwnerData(State(Linked(s.owners), ModifiableOwners(s, p), <<>>,
                                    s.threshold), d)
           old == OldScheme(s)
           new == NewScheme(e)
<1>1. RecoveryData(s, d, e, p) =
        CASE old = WithoutExtension /\ new = WithoutExtension -> b
          [] old = WithoutExtension /\ new = WithExtension -> AddOwnerData(b, e)
          [] old = WithExtension /\ new = WithExtension -> SwapOwnerData(b, e)
          [] old = WithExtension /\ new = WithoutExtension -> RemoveOwnerData(b)
  BY DEF RecoveryData, State
<1>2. /\ old = IF e0 = NoOwner THEN WithoutExtension ELSE WithExtension
      /\ new = IF e = NoOwner THEN WithoutExtension ELSE WithExtension
      /\ WithoutExtension # WithExtension
  BY SchemeFacts
<1> HIDE DEF b, old, new
<1> QED BY <1>1, <1>2 DEF b

LEMMA RecoverySucceeds ==
  ASSUME NEW d0 \in Devices, NEW e0 \in Ext, NEW p \in Phrase, NEW s, Agrees(s, d0, e0, p),
         NEW d \in Devices, d \notin ToSet(s.owners), NEW e \in Ext
  PROVE  Recovered(s, RecoveryData(s, d, e, p), d, e, p)
<1> DEFINE m == ModifiableOwners(s, p)
           c == SwapOf(s, m[1], d)
           t == Taken(s, d, p)
           h == s.threshold
           L == Linked(t.owners)
           b == State(L, Tail(m), <<c>>, h)
           x == RecoveryData(s, d, e, p)
           P == PhraseOwners(p)
           T == ToSet(t.owners)
<1>1. Swapped(s, m[1], d, c, t) /\ t = Effect(s, c)
  <2>1. Swapped(s, m[1], d, c, t)
    BY FirstSwap
  <2> QED BY <2>1 DEF Taken
<1>2. Accepts(s, c)
  BY <1>1 DEF Swapped
<1>3. SwapOwnerData(State(Linked(s.owners), m, <<>>, h), d) = b
  BY FirstSwap
<1>4. OldScheme(s) = NewScheme(e0) /\ h = IF e0 = NoOwner THEN 1 ELSE 2
  BY AgreesFacts
<1>5. x = IF e0 = NoOwner
          THEN IF e = NoOwner THEN b ELSE AddOwnerData(b, e)
          ELSE IF e = NoOwner THEN RemoveOwnerData(b) ELSE SwapOwnerData(b, e)
  <2> DEFINE y == SwapOwnerData(State(Linked(s.owners), m, <<>>, h), d)
  <2>1. x = IF e0 = NoOwner
            THEN IF e = NoOwner THEN y ELSE AddOwnerData(y, e)
            ELSE IF e = NoOwner THEN RemoveOwnerData(y) ELSE SwapOwnerData(y, e)
    BY <1>4, RecoveryIs
  <2> QED BY <1>3, <2>1
<1>6. /\ SafeOK(t) /\ t.owners \in Seq(Member) /\ t.owners # <<>>
      /\ Len(t.owners) = IF e0 = NoOwner THEN 3 ELSE 4
      /\ t.threshold = IF e0 = NoOwner THEN 1 ELSE 2
  BY TakenFacts
<1>7. e0 = NoOwner => T = OwnersOf(d, NoOwner, p)
  BY TakenFacts
<1>8. e0 # NoOwner => T = {m[2], d} \cup P /\ m[2] \notin {d} \cup P /\ Head(Tail(m)) = m[2]
  <2> SUFFICES ASSUME e0 # NoOwner
               PROVE  T = {m[2], d} \cup P /\ m[2] \notin {d} \cup P /\ Head(Tail(m)) = m[2]
    OBVIOUS
  <2>1. T = {m[2], d} \cup P
    BY TakenFacts
  <2>2. m[2] # d
    BY TakenFacts
  <2>3. m[2] \notin P
    BY TakenFacts
  <2>4. Head(Tail(m)) = m[2]
    <3>1. m \in Seq(Member) /\ Len(m) = 2
      BY ModifiableFacts
    <3> HIDE DEF m
    <3> QED BY <3>1, SecondIs
  <2> QED BY <2>1, <2>2, <2>3, <2>4
<1>9. d # e /\ d # NoOwner /\ d \in Member /\ P \cap {d, e} = {}
  BY OwnersFacts, MemberFacts
<1>10. e # NoOwner => e \in Member /\ e # Sentinel
  BY MemberFacts DEF Ext
<1>11. OwnersOf(d, e, p) = IF e = NoOwner THEN {d} \cup P ELSE {d, e} \cup P
  <2>1. CASE e = NoOwner
    <3>1. {d, e} \ {NoOwner} = {d}
      BY <1>9, <2>1
    <3> QED BY <2>1, <3>1 DEF OwnersOf
  <2>2. CASE e # NoOwner
    <3>1. {d, e} \ {NoOwner} = {d, e}
      BY <1>9, <2>2
    <3> QED BY <2>2, <3>1 DEF OwnersOf
  <2> QED BY <2>1, <2>2
<1>12. NewScheme(e).confirmations = IF e = NoOwner THEN 1 ELSE 2
  BY SchemeFacts
<1>13. OwnersOf(d, NoOwner, p) = {d} \cup P
  <2>1. {d, NoOwner} \ {NoOwner} = {d}
    BY <1>9
  <2> QED BY <2>1 DEF OwnersOf
<1> HIDE DEF m, c, t, h, L, x, P, T
<1>14. CASE e0 = NoOwner /\ e = NoOwner
  <2>1. x = b
    BY <1>5, <1>14
  <2>2. t.threshold = h /\ h = 1 /\ T = {d} \cup P
    BY <1>4, <1>6, <1>7, <1>13, <1>14
  <2>3. Agrees(t, d, e, p)
    BY <1>6, <1>11, <1>12, <1>14, <2>2 DEF Agrees, T
  <2>4. Recovered(s, b, d, e, p)
    BY <1>1, <1>2, <2>2, <2>3, ByOneCall
  <2> QED BY <2>1, <2>4 DEF x
<1>15. CASE e0 = NoOwner /\ e # NoOwner
  <2> DEFINE k == AddOwner(e, 2)
             v == Effect(t, k)
  <2>1. T = {d} \cup P /\ e \notin T
    BY <1>7, <1>9, <1>13, <1>15
  <2>2. ~Contains(L, e)
    <3>1. Contains(Linked(t.owners), e) <=> e \in ToSet(t.owners)
      BY <1>6, <1>10, <1>15, InLinked
    <3> QED BY <2>1, <3>1 DEF T, L
  <2>3. x = AddOwnerData(b, e)
    BY <1>5, <1>15
  <2>4. 2 \in 1 .. Len(t.owners) + 1
    BY <1>6, <1>15
  <2>5. Added(t, e, 2, k, v)
    BY <1>6, <1>10, <1>15, <2>1, <2>4, AddAccepted DEF T
  <2> HIDE DEF k, v
  <2>6. Accepts(t, k) /\ SafeOK(v) /\ v.threshold = 2 /\ ToSet(v.owners) = {d, e} \cup P
    <3>1. ToSet(v.owners) = T \cup {e}
      BY <2>5 DEF Added, T
    <3> QED BY <2>1, <2>5, <3>1 DEF Added
  <2>7. Agrees(v, d, e, p)
    BY <1>11, <1>12, <1>15, <2>6 DEF Agrees
  <2>8. AddOwnerData(b, e) = State(ListAdd(L, e), Tail(m), Append(<<c>>, k), 2)
    <3> DEFINE z == <<c>>
    <3> HIDE DEF z
    <3>1. AddOwnerData(State(L, Tail(m), z, h), e)
            = State(ListAdd(L, e), Tail(m), Append(z, AddOwner(e, 2)), 2)
      BY <2>2, AddData
    <3> QED BY <3>1 DEF z, k
  <2>9. Recovered(s, State(ListAdd(L, e), Tail(m), Append(<<c>>, k), 2), d, e, p)
    BY <1>1, <1>2, <2>6, <2>7, ByTwoCalls DEF v
  <2> QED BY <2>3, <2>8, <2>9 DEF x
<1>16. CASE e0 # NoOwner /\ e = NoOwner
  <2> DEFINE k == RemoveOf(t, m[2], 1)
             v == Effect(t, k)
  <2>1. T = {m[2], d} \cup P /\ m[2] \notin {d} \cup P /\ Head(Tail(m)) = m[2]
    BY <1>8, <1>16
  <2>2. x = RemoveOwnerData(b)
    BY <1>5, <1>16
  <2>3. 1 \in 1 .. Len(t.owners) - 1 /\ m[2] \in ToSet(t.owners)
    BY <1>6, <1>16, <2>1 DEF T
  <2>4. Dropped(t, m[2], 1, k, v)
    BY <1>6, <2>3, RemoveAccepted
  <2>5. k = RemoveOwner(AddressBefore(L, m[2]), m[2], 1)
    BY DEF RemoveOf, L
  <2> HIDE DEF k, v
  <2>6. Accepts(t, k) /\ SafeOK(v) /\ v.threshold = 1 /\ ToSet(v.owners) = {d} \cup P
    <3>1. ToSet(v.owners) = T \ {m[2]}
      BY <2>4 DEF Dropped, T
    <3> QED BY <2>1, <2>4, <3>1 DEF Dropped
  <2>7. Agrees(v, d, e, p)
    BY <1>11, <1>12, <1>16, <2>6 DEF Agrees
  <2> DEFINE l == ListRemove(L, Head(Tail(m)))
             w == Tail(Tail(m))
  <2>8. RemoveOwnerData(b) = State(l, w, Append(<<c>>, k), 1)
    <3> DEFINE z == <<c>>
    <3> HIDE DEF z
    <3>1. RemoveOwnerData(State(L, Tail(m), z, h))
            = State(l, w, Append(z, RemoveOwner(AddressBefore(L, Head(Tail(m))),
                                                Head(Tail(m)), 1)), 1)
      BY RemoveData
    <3> HIDE DEF l, w
    <3> QED BY <2>1, <2>5, <3>1 DEF z
  <2> HIDE DEF l, w
  <2>9. Recovered(s, State(l, w, Append(<<c>>, k), 1), d, e, p)
    BY <1>1, <1>2, <2>6, <2>7, ByTwoCalls DEF v
  <2> QED BY <2>2, <2>8, <2>9 DEF x
<1>17. CASE e0 # NoOwner /\ e # NoOwner
  <2>1. T = {m[2], d} \cup P /\ m[2] \notin {d} \cup P /\ Head(Tail(m)) = m[2]
    BY <1>8, <1>17
  <2>2. x = SwapOwnerData(b, e)
    BY <1>5, <1>17
  <2> DEFINE z == <<c>>
             l == ListReplace(L, Head(Tail(m)), e)
             w == Tail(Tail(m))
             k == SwapOf(t, m[2], e)
  <2>3. k = SwapOwner(AddressBefore(L, Head(Tail(m))), Head(Tail(m)), e)
    BY <2>1 DEF SwapOf, L
  <2>4. SwapOwnerData(State(L, Tail(m), z, h), e) =
          IF e = Head(Tail(m)) THEN State(L, w, z, h) ELSE State(l, w, Append(z, k), h)
    <3> DEFINE q == Tail(m)
    <3> HIDE DEF z, k, q
    <3>1. SwapOwnerData(State(L, q, z, h), e) =
            IF e = Head(q) THEN State(L, Tail(q), z, h)
            ELSE State(ListReplace(L, Head(q), e), Tail(q),
                       Append(z, SwapOwner(AddressBefore(L, Head(q)), Head(q), e)), h)
      BY SwapData
    <3>2. l = ListReplace(L, Head(q), e) /\ w = Tail(q)
      BY DEF q
    <3>3. k = SwapOwner(AddressBefore(L, Head(q)), Head(q), e)
      BY <2>3 DEF q
    <3> HIDE DEF l, w
    <3>4. SwapOwnerData(State(L, q, z, h), e) =
            IF e = Head(q) THEN State(L, w, z, h) ELSE State(l, w, Append(z, k), h)
      BY <3>1, <3>2, <3>3
    <3> QED BY <3>4 DEF q
  <2> HIDE DEF l, w
  <2>5. t.threshold = 2 /\ h = 2
    BY <1>4, <1>6, <1>17
  <2>6. CASE e = m[2]
    <3>1. Agrees(t, d, e, p)
      <4>1. T = {d, e} \cup P
        BY <2>1, <2>6
      <4> QED BY <1>6, <1>11, <1>12, <1>17, <2>5, <4>1 DEF Agrees, T
    <3>2. Recovered(s, State(L, w, <<c>>, h), d, e, p)
      BY <1>1, <1>2, <2>5, <3>1, ByOneCall
    <3>3. x = State(L, w, <<c>>, h)
      BY <2>1, <2>2, <2>4, <2>6
    <3> QED BY <3>2, <3>3 DEF x
  <2>7. CASE e # m[2]
    <3> DEFINE v == Effect(t, k)
    <3>1. e \notin T /\ m[2] \in T
      BY <1>9, <2>1, <2>7
    <3>2. Swapped(t, m[2], e, k, v)
      BY <1>6, <1>10, <1>17, <3>1, SwapAccepted DEF T
    <3> HIDE DEF k, v
    <3>3. Accepts(t, k) /\ SafeOK(v) /\ v.threshold = 2 /\ ToSet(v.owners) = {d, e} \cup P
      <4>1. ToSet(v.owners) = (T \ {m[2]}) \cup {e}
        BY <3>2 DEF Swapped, T
      <4> QED BY <2>1, <2>5, <3>2, <4>1 DEF Swapped
    <3>4. Agrees(v, d, e, p)
      BY <1>11, <1>12, <1>17, <3>3 DEF Agrees
    <3>5. Recovered(s, State(l, w, Append(<<c>>, k), h), d, e, p)
      BY <1>1, <1>2, <2>5, <3>3, <3>4, ByTwoCalls DEF v
    <3>6. x = State(l, w, Append(<<c>>, k), h)
      BY <2>1, <2>2, <2>4, <2>7
    <3> QED BY <3>5, <3>6 DEF x
  <2> QED BY <2>6, <2>7
<1> QED BY <1>14, <1>15, <1>16, <1>17

-----------------------------------------------------------------------------
(* The settings.                                                           *)

Gives(s, calls, d, e, p) ==
  LET r == Execute(s, calls) IN r.ok /\ Agrees(r.safe, d, e, p)

LEMMA OneCall ==
  ASSUME NEW s, NEW c, Accepts(s, c)
  PROVE  Execute(s, <<c>>).ok /\ Execute(s, <<c>>).safe = Effect(s, c)
<1> DEFINE r == Execute(s, <<c>>)
<1>1. r = [ok |-> TRUE, safe |-> Effect(s, c)]
  BY ExecuteOne
<1> HIDE DEF r
<1>2. r.ok /\ r.safe = Effect(s, c)
  BY <1>1
<1> QED BY <1>2 DEF r

LEMMA TwoCalls ==
  ASSUME NEW s, NEW c, NEW k, Accepts(s, c), Accepts(Effect(s, c), k)
  PROVE  Execute(s, <<c, k>>).ok /\ Execute(s, <<c, k>>).safe = Effect(Effect(s, c), k)
<1> DEFINE r == Execute(s, <<c, k>>)
           v == Effect(Effect(s, c), k)
<1>1. r = [ok |-> TRUE, safe |-> v]
  BY ExecuteTwo
<1> HIDE DEF r, v
<1>2. r.ok /\ r.safe = v
  BY <1>1
<1> QED BY <1>2 DEF r, v

LEMMA SetsOf ==
  ASSUME NEW d \in Devices, NEW e \in Ext, NEW p \in Phrase
  PROVE  /\ OwnersOf(d, e, p) = IF e = NoOwner THEN {d} \cup PhraseOwners(p)
                                               ELSE {d, e} \cup PhraseOwners(p)
         /\ NewScheme(e).confirmations = IF e = NoOwner THEN 1 ELSE 2
<1>1. d # NoOwner
  BY OwnersFacts
<1>2. CASE e = NoOwner
  <2>1. {d, e} \ {NoOwner} = {d}
    BY <1>1, <1>2
  <2> QED BY <1>2, <2>1, SchemeFacts DEF OwnersOf
<1>3. CASE e # NoOwner
  <2>1. {d, e} \ {NoOwner} = {d, e}
    BY <1>1, <1>3
  <2> QED BY <1>3, <2>1, SchemeFacts DEF OwnersOf
<1> QED BY <1>2, <1>3

LEMMA NewOwnerIs ==
  ASSUME NEW d \in Devices, NEW e \in Ext, NEW p \in Phrase, NEW s, Agrees(s, d, e, p),
         NEW o, o # Sentinel
  PROVE  IsNewOwner(s, o) <=> o \notin ToSet(s.owners)
<1>1. s.owners \in Seq(Member) /\ Len(s.owners) >= 3
  BY AgreesFacts
<1>2. s.owners # <<>>
  BY <1>1, EmptySeq
<1>3. Contains(Linked(s.owners), o) <=> o \in ToSet(s.owners)
  BY <1>1, <1>2, InLinked
<1> QED BY <1>3 DEF IsNewOwner

LEMMA ReplaceAccepted ==
  ASSUME NEW d \in Devices, NEW e \in Extensions, NEW p \in Phrase, NEW s, Agrees(s, d, e, p),
         NEW new \in Extensions, new \notin ToSet(s.owners)
  PROVE  Gives(s, ReplaceData(s, e, new), d, new, p)
<1> DEFINE c == SwapOf(s, e, new)
           t == Effect(s, c)
           P == PhraseOwners(p)
<1>1. e \in Ext /\ new \in Ext /\ new \in Member /\ e # NoOwner /\ new # NoOwner
  BY MemberFacts DEF Ext
<1>2. OwnersOf(d, e, p) = {d, e} \cup P /\ OwnersOf(d, new, p) = {d, new} \cup P
  BY <1>1, SetsOf
<1>3. NewScheme(e).confirmations = 2 /\ NewScheme(new).confirmations = 2
  BY <1>1, SetsOf
<1>4. ToSet(s.owners) = {d, e} \cup P /\ s.threshold = 2 /\ SafeOK(s)
  BY <1>2, <1>3 DEF Agrees
<1>5. Swapped(s, e, new, c, t)
  BY <1>1, <1>4, SwapAccepted
<1>6. d # e /\ P \cap {d, e} = {}
  BY <1>1, OwnersFacts
<1>7. ReplaceData(s, e, new) = <<c>>
  BY DEF ReplaceData, SwapOf
<1> HIDE DEF c, t, P
<1>8. ToSet(t.owners) = {d, new} \cup P
  <2>1. ToSet(t.owners) = (ToSet(s.owners) \ {e}) \cup {new}
    BY <1>5 DEF Swapped
  <2> QED BY <1>4, <1>6, <2>1
<1>9. Accepts(s, c) /\ Agrees(t, d, new, p)
  BY <1>2, <1>3, <1>4, <1>5, <1>8 DEF Swapped, Agrees
<1>10. Execute(s, <<c>>).ok /\ Execute(s, <<c>>).safe = t
  BY <1>9, OneCall DEF t
<1> QED BY <1>7, <1>9, <1>10 DEF Gives

LEMMA ConnectAccepted ==
  ASSUME NEW d \in Devices, NEW p \in Phrase, NEW s, Agrees(s, d, NoOwner, p),
         NEW new \in Extensions, new \notin ToSet(s.owners)
  PROVE  Gives(s, ConnectData(new), d, new, p)
<1> DEFINE c == AddOwner(new, 2)
           t == Effect(s, c)
           P == PhraseOwners(p)
<1>1. NoOwner \in Ext /\ new \in Ext /\ new \in Member /\ new # NoOwner
  BY MemberFacts DEF Ext
<1>2. OwnersOf(d, NoOwner, p) = {d} \cup P /\ OwnersOf(d, new, p) = {d, new} \cup P
  BY <1>1, SetsOf
<1>3. NewScheme(new).confirmations = 2
  BY <1>1, SetsOf
<1>4. ToSet(s.owners) = {d} \cup P /\ SafeOK(s)
  BY <1>2 DEF Agrees
<1>5. Len(s.owners) = 3
  BY <1>1, AgreesFacts
<1>6. 2 \in 1 .. Len(s.owners) + 1
  BY <1>5
<1>7. Added(s, new, 2, c, t)
  BY <1>1, <1>4, <1>6, AddAccepted
<1>8. ConnectData(new) = <<c>>
  BY DEF ConnectData
<1> HIDE DEF c, t, P
<1>9. ToSet(t.owners) = {d, new} \cup P
  <2>1. ToSet(t.owners) = ToSet(s.owners) \cup {new}
    BY <1>7 DEF Added
  <2> QED BY <1>4, <2>1
<1>10. Accepts(s, c) /\ Agrees(t, d, new, p)
  BY <1>2, <1>3, <1>7, <1>9 DEF Added, Agrees
<1>11. Execute(s, <<c>>).ok /\ Execute(s, <<c>>).safe = t
  BY <1>10, OneCall DEF t
<1> QED BY <1>8, <1>10, <1>11 DEF Gives

LEMMA DisconnectAccepted ==
  ASSUME NEW d \in Devices, NEW e \in Extensions, NEW p \in Phrase, NEW s, Agrees(s, d, e, p)
  PROVE  Gives(s, DisconnectData(s, e), d, NoOwner, p)
<1> DEFINE c == RemoveOf(s, e, 1)
           t == Effect(s, c)
           P == PhraseOwners(p)
<1>1. e \in Ext /\ NoOwner \in Ext /\ e # NoOwner
  BY MemberFacts DEF Ext
<1>2. OwnersOf(d, e, p) = {d, e} \cup P /\ OwnersOf(d, NoOwner, p) = {d} \cup P
  BY <1>1, SetsOf
<1>3. NewScheme(NoOwner).confirmations = 1
  BY <1>1, SetsOf
<1>4. ToSet(s.owners) = {d, e} \cup P /\ SafeOK(s)
  BY <1>2 DEF Agrees
<1>5. Len(s.owners) = 4
  BY <1>1, AgreesFacts
<1>6. 1 \in 1 .. Len(s.owners) - 1
  BY <1>5
<1>7. Dropped(s, e, 1, c, t)
  BY <1>4, <1>6, RemoveAccepted
<1>8. DisconnectData(s, e) = <<c>>
  BY DEF DisconnectData, RemoveOf
<1>9. d # e /\ P \cap {d, e} = {}
  BY <1>1, OwnersFacts
<1> HIDE DEF c, t, P
<1>10. ToSet(t.owners) = {d} \cup P
  <2>1. ToSet(t.owners) = ToSet(s.owners) \ {e}
    BY <1>7 DEF Dropped
  <2> QED BY <1>4, <1>9, <2>1
<1>11. Accepts(s, c) /\ Agrees(t, d, NoOwner, p)
  BY <1>2, <1>3, <1>7, <1>10 DEF Dropped, Agrees
<1>12. Execute(s, <<c>>).ok /\ Execute(s, <<c>>).safe = t
  BY <1>11, OneCall DEF t
<1> QED BY <1>8, <1>11, <1>12 DEF Gives

LEMMA LinkedAt ==
  ASSUME NEW A, NEW s \in Seq(A), s # <<>>, NEW i \in 1 .. Len(s)
  PROVE  Linked(s)[i + 1] = s[i]
<1>1. Linked(s) = Between(s)
  BY LinkedIs
<1>2. \A j \in 1 .. Len(s) : Between(s)[j + 1] = s[j]
  BY BetweenFacts
<1> QED BY <1>1, <1>2

\* Two swaps, the second encoded against the list that follows the first.
LEMMA TwoSwaps ==
  ASSUME NEW s, SafeOK(s), NEW o1 \in ToSet(s.owners), NEW n1 \in Member, n1 \notin ToSet(s.owners),
         NEW t, t = Effect(s, SwapOf(s, o1, n1)),
         NEW o2 \in ToSet(t.owners), NEW n2 \in Member, n2 \notin ToSet(t.owners)
  PROVE  LET one == Linked(s.owners)
             two == ListReplace(one, o1, n1)
             r == Execute(s, <<SwapOwner(AddressBefore(one, o1), o1, n1),
                               SwapOwner(AddressBefore(two, o2), o2, n2)>>)
         IN  /\ r.ok /\ SafeOK(r.safe) /\ r.safe.threshold = s.threshold
             /\ ToSet(r.safe.owners) = (ToSet(t.owners) \ {o2}) \cup {n2}
<1> DEFINE one == Linked(s.owners)
           two == ListReplace(one, o1, n1)
           c == SwapOf(s, o1, n1)
           k == SwapOf(t, o2, n2)
           v == Effect(t, k)
           r == Execute(s, <<c, k>>)
<1>1. Swapped(s, o1, n1, c, t)
  BY SwapAccepted
<1>2. SafeOK(t) /\ two = Linked(t.owners) /\ Accepts(s, c) /\ t.threshold = s.threshold
  BY <1>1 DEF Swapped
<1>3. Swapped(t, o2, n2, k, v)
  BY <1>2, SwapAccepted
<1>4. c = SwapOwner(AddressBefore(one, o1), o1, n1)
  BY DEF SwapOf
<1>5. k = SwapOwner(AddressBefore(two, o2), o2, n2)
  BY <1>2 DEF SwapOf
<1>6. Accepts(t, k) /\ SafeOK(v) /\ v.threshold = t.threshold
  BY <1>3 DEF Swapped
<1>7. ToSet(v.owners) = (ToSet(t.owners) \ {o2}) \cup {n2}
  BY <1>3 DEF Swapped
<1> HIDE DEF k, v, two, one
<1>8. t = Effect(s, c)
  OBVIOUS
<1> HIDE DEF c
<1>9. r.ok /\ r.safe = v
  BY <1>2, <1>6, <1>8, TwoCalls DEF v
<1> HIDE DEF r
<1>10. /\ r.ok /\ SafeOK(r.safe) /\ r.safe.threshold = s.threshold
       /\ ToSet(r.safe.owners) = (ToSet(t.owners) \ {o2}) \cup {n2}
  BY <1>2, <1>6, <1>7, <1>9
<1>11. r = Execute(s, <<SwapOwner(AddressBefore(one, o1), o1, n1),
                        SwapOwner(AddressBefore(two, o2), o2, n2)>>)
  BY <1>4, <1>5 DEF r
<1> QED BY <1>10, <1>11 DEF one, two

LEMMA PhraseAccepted ==
  ASSUME NEW d \in Devices, NEW e \in Ext, NEW p \in Phrase, NEW s, Agrees(s, d, e, p),
         NEW q \in Phrase, q # p
  PROVE  Gives(s, PhraseData(s, d, e, q), d, e, q)
<1> DEFINE os == s.owners
           m == Without(os, {d, e})
           P == PhraseOwners(p)
           Q == PhraseOwners(q)
           W == {d, e} \ {NoOwner}
           c == SwapOf(s, m[1], Paper(q))
           t == Effect(s, c)
           one == Linked(os)
           two == ListReplace(one, m[1], Paper(q))
           x == <<SwapOwner(AddressBefore(one, m[1]), m[1], Paper(q)),
                  SwapOwner(AddressBefore(two, m[2]), m[2], Derived(q))>>
           r == Execute(s, x)
<1>1. os \in Seq(Member) /\ Distinct(os) /\ SafeOK(s) /\ ToSet(os) = OwnersOf(d, e, p)
  BY AgreesFacts DEF Agrees
<1>2. m \in Seq(Member) /\ Distinct(m) /\ ToSet(m) = P
  <2>1. m \in Seq(Member) /\ Distinct(m) /\ ToSet(m) = ToSet(os) \ {d, e}
    BY <1>1, WithoutFacts
  <2> QED BY <1>1, <2>1, OwnersFacts
<1>3. PhraseData(s, d, e, q) = x
  BY DEF PhraseData
<1>4. Paper(q) # Derived(q) /\ Q = {Paper(q), Derived(q)} /\ P \cap Q = {}
  BY PhraseFacts DEF PhraseOwners
<1>5. IsFiniteSet(P) /\ Cardinality(P) = 2
  BY PairSize, PhraseFacts DEF PhraseOwners
<1>6. Q \subseteq Member
  BY MemberFacts
<1>7. W \cap P = {} /\ W \cap Q = {} /\ OwnersOf(d, e, p) = W \cup P /\ OwnersOf(d, e, q) = W \cup Q
  BY OwnersFacts DEF OwnersOf
<1> HIDE DEF m, P, W, x, os
<1>8. Len(m) = 2
  BY <1>2, <1>5, ListSize
<1>9. P = {m[1], m[2]} /\ m[1] # m[2]
  <2>1. 1 .. Len(m) = {1, 2}
    BY <1>8
  <2>2. P = {m[i] : i \in 1 .. Len(m)}
    BY <1>2, ToSetIs
  <2>3. m[1] # m[2]
    BY <1>2, <2>1 DEF Distinct
  <2> QED BY <2>1, <2>2, <2>3
<1>10. m[1] \in ToSet(os) /\ Paper(q) \in Member /\ Paper(q) \notin ToSet(os)
  BY <1>1, <1>4, <1>6, <1>7, <1>9
<1>11. Swapped(s, m[1], Paper(q), c, t)
  BY <1>1, <1>10, SwapAccepted DEF os
<1>12. ToSet(t.owners) = (ToSet(os) \ {m[1]}) \cup {Paper(q)}
  BY <1>11 DEF Swapped, os
<1> HIDE DEF Q
<1>13. m[2] \in ToSet(t.owners) /\ Derived(q) \in Member /\ Derived(q) \notin ToSet(t.owners)
  BY <1>1, <1>4, <1>6, <1>7, <1>9, <1>12
<1>14. /\ r.ok /\ SafeOK(r.safe) /\ r.safe.threshold = s.threshold
       /\ ToSet(r.safe.owners) = (ToSet(t.owners) \ {m[2]}) \cup {Derived(q)}
  <2> HIDE DEF t
  <2> DEFINE o1 == m[1]
             o2 == m[2]
             n1 == Paper(q)
             n2 == Derived(q)
  <2>1. /\ SafeOK(s) /\ o1 \in ToSet(s.owners) /\ n1 \in Member /\ n1 \notin ToSet(s.owners)
        /\ o2 \in ToSet(t.owners) /\ n2 \in Member /\ n2 \notin ToSet(t.owners)
    BY <1>1, <1>10, <1>13 DEF os
  <2>2. t = Effect(s, SwapOf(s, o1, n1))
    BY DEF t
  <2>3. r = Execute(s, <<SwapOwner(AddressBefore(Linked(s.owners), o1), o1, n1),
                 SwapOwner(AddressBefore(ListReplace(Linked(s.owners), o1, n1), o2), o2, n2)>>)
    BY DEF x, os
  <2> HIDE DEF o1, o2, n1, n2, r
  <2>4. /\ r.ok /\ SafeOK(r.safe) /\ r.safe.threshold = s.threshold
        /\ ToSet(r.safe.owners) = (ToSet(t.owners) \ {o2}) \cup {n2}
    BY <2>1, <2>2, <2>3, TwoSwaps
  <2> QED BY <2>4 DEF o2, n2
<1> HIDE DEF r, t
<1>15. ToSet(r.safe.owners) = W \cup Q
  <2> DEFINE R == ToSet(r.safe.owners)
             T == ToSet(t.owners)
             a == m[1]
             b == m[2]
             f == Paper(q)
             g == Derived(q)
  <2>1. R = (T \ {b}) \cup {g} /\ T = (ToSet(os) \ {a}) \cup {f}
    BY <1>12, <1>14
  <2>2. /\ ToSet(os) = W \cup {a, b} /\ a # b /\ a \notin W /\ b \notin W
        /\ Q = {f, g} /\ {a, b} \cap {f, g} = {}
    BY <1>1, <1>4, <1>7, <1>9
  <2> HIDE DEF R, T, a, b, f, g
  <2>3. T = W \cup {b, f}
    BY <2>1, <2>2
  <2>4. R = W \cup {f, g}
    BY <2>1, <2>2, <2>3
  <2> QED BY <2>2, <2>4 DEF R
<1>16. Agrees(r.safe, d, e, q)
  BY <1>7, <1>14, <1>15 DEF Agrees
<1> QED BY <1>3, <1>14, <1>16 DEF Gives, r

\* The probes: the first owner makes room for the Safe itself, or the first
\* two for the made-up addresses.
LEMMA ProbesAccepted ==
  ASSUME NEW d \in Devices, NEW e \in Ext, NEW p \in Phrase, NEW s, Agrees(s, d, e, p)
  PROVE  /\ Execute(s, ReplaceProbe(s)).ok
         /\ Execute(s, PhraseProbe(s)).ok
         /\ e = NoOwner => Execute(s, ConnectProbe).ok
<1> DEFINE os == s.owners
           one == Linked(os)
<1>1. os \in Seq(Member) /\ SafeOK(s) /\ ToSet(os) = OwnersOf(d, e, p)
  BY AgreesFacts DEF Agrees
<1>2. Len(os) \in {3, 4}
  BY AgreesFacts
<1>3. os # <<>>
  <2>1. Len(os) # 0
    BY <1>2
  <2> HIDE DEF os
  <2> QED BY <1>1, <2>1, EmptySeq
<1>4. SafeAddress \in Member /\ Fake[1] \in Member /\ Fake[2] \in Member /\ Fake[1] # Fake[2]
  BY SpecialFacts DEF Member
<1>5. ToSet(os) \cap {SafeAddress, Fake[1], Fake[2]} = {}
  <2>1. OwnersOf(d, e, p) \subseteq Address
    BY OwnersFacts
  <2> QED BY <1>1, <2>1, MemberFacts DEF Apart
<1>6. os[1] \in ToSet(os)
  BY <1>1, <1>2, ToSetIs
<1>7. one[2] = os[1]
  <2> HIDE DEF os
  <2>1. 1 \in 1 .. Len(os) /\ 1 + 1 = 2
    BY <1>2
  <2>2. Linked(os)[1 + 1] = os[1]
    BY <1>1, <1>3, <2>1, LinkedAt
  <2> QED BY <2>1, <2>2
<1> DEFINE o == os[1]
<1>8. Execute(s, ReplaceProbe(s)).ok
  <2> DEFINE c == SwapOf(s, o, SafeAddress)
  <2>1. ReplaceProbe(s) = <<c>>
    BY <1>7 DEF ReplaceProbe, ReplaceData, SwapOf
  <2> HIDE DEF o
  <2>2. Swapped(s, o, SafeAddress, c, Effect(s, c))
    BY <1>1, <1>4, <1>5, <1>6, SwapAccepted DEF o
  <2>3. Accepts(s, c)
    BY <2>2 DEF Swapped
  <2> HIDE DEF c
  <2> QED BY <2>1, <2>3, OneCall
<1>9. ASSUME e = NoOwner PROVE Execute(s, ConnectProbe).ok
  <2> DEFINE c == AddOwner(SafeAddress, 2)
  <2>1. ConnectProbe = <<c>>
    BY DEF ConnectProbe, ConnectData
  <2>2. 2 \in 1 .. Len(s.owners) + 1
    BY <1>2
  <2>3. Added(s, SafeAddress, 2, c, Effect(s, c))
    BY <1>1, <1>4, <1>5, <2>2, AddAccepted
  <2>4. Accepts(s, c)
    BY <2>3 DEF Added
  <2> HIDE DEF c
  <2> QED BY <2>1, <2>4, OneCall
<1>10. Execute(s, PhraseProbe(s)).ok
  <2> DEFINE f1 == Fake[1]
             f2 == Fake[2]
             t == Effect(s, SwapOf(s, o, f1))
             two == ListReplace(one, one[2], f1)
             o2 == t.owners[2]
  <2>1. PhraseProbe(s) = <<SwapOwner(AddressBefore(one, one[2]), one[2], f1),
                           SwapOwner(AddressBefore(two, two[3]), two[3], f2)>>
    BY DEF PhraseProbe
  <2> HIDE DEF o, f1, f2
  <2>2. /\ o \in ToSet(s.owners) /\ f1 \in Member /\ f1 \notin ToSet(s.owners)
        /\ f2 \in Member /\ f2 \notin ToSet(s.owners) /\ f1 # f2
    BY <1>4, <1>5, <1>6 DEF o, f1, f2
  <2>3. Swapped(s, o, f1, SwapOf(s, o, f1), t)
    BY <1>1, <2>2, SwapAccepted
  <2> HIDE DEF t
  <2>4. /\ ToSet(t.owners) = (ToSet(os) \ {o}) \cup {f1} /\ Len(t.owners) = Len(os)
        /\ ListReplace(one, o, f1) = Linked(t.owners) /\ SafeOK(t)
    BY <2>3 DEF Swapped
  <2>5. t.owners \in Seq(Member) /\ 2 \in 1 .. Len(t.owners)
    <3>1. t.owners \in Seq(Member)
      BY <2>4 DEF SafeOK
    <3>2. Len(t.owners) = 3 \/ Len(t.owners) = 4
      BY <1>2, <2>4
    <3>3. 2 \in 1 .. Len(t.owners)
      <4>1. ASSUME NEW n, n = 3 \/ n = 4 PROVE 2 \in 1 .. n
        BY <4>1
      <4> QED BY <3>2, <4>1
    <3> QED BY <3>1, <3>3
  <2>6. o2 \in ToSet(t.owners) /\ f2 \notin ToSet(t.owners)
    <3>1. o2 \in ToSet(t.owners)
      BY <2>5, ToSetIs
    <3>2. f2 \notin ToSet(t.owners)
      BY <2>2, <2>4
    <3> QED BY <3>1, <3>2
  <2>7. two = Linked(t.owners)
    BY <1>7, <2>4 DEF o
  <2>8. two[3] = o2
    <3>1. t.owners # <<>>
      BY <2>5, EmptySeq
    <3>2. Linked(t.owners)[2 + 1] = t.owners[2]
      BY <2>5, <3>1, LinkedAt
    <3> QED BY <2>7, <3>2
  <2> HIDE DEF two, o2
  <2> DEFINE r == Execute(s, <<SwapOwner(AddressBefore(one, o), o, f1),
                               SwapOwner(AddressBefore(ListReplace(one, o, f1), o2), o2, f2)>>)
  <2>9. t = Effect(s, SwapOf(s, o, f1))
    BY DEF t
  <2>10. r.ok
    BY <1>1, <2>2, <2>6, <2>9, TwoSwaps
  <2>11. ListReplace(one, o, f1) = two /\ one[2] = o
    BY <1>7, <2>4, <2>7 DEF o
  <2> HIDE DEF one
  <2> QED BY <2>1, <2>8, <2>10, <2>11
<1> QED BY <1>8, <1>9, <1>10

-----------------------------------------------------------------------------
(* The life of the Safe.                                                   *)

SInv ==
  /\ phone \in [device : Devices, ext : Ext, count : {1, 2}]
  /\ phone.count = NewScheme(phone.ext).confirmations
  /\ \E p \in Phrase : Agrees(safe, phone.device, phone.ext, p)

LEMMA KnownIs ==
  ASSUME NEW d \in Devices, NEW e \in Ext, NEW p \in Phrase, Agrees(safe, d, e, p),
         NEW q \in Phrase
  PROVE  Known(q) <=> q = p
<1>1. ToSet(safe.owners) = OwnersOf(d, e, p)
  BY DEF Agrees
<1>2. PhraseOwners(p) \subseteq OwnersOf(d, e, p)
  BY DEF OwnersOf
<1>3. ASSUME Known(q) PROVE q = p
  <2>1. Paper(q) \in PhraseOwners(q)
    BY DEF PhraseOwners
  <2>2. Paper(q) \in OwnersOf(d, e, p)
    BY <1>1, <1>3, <2>1 DEF Known
  <2>3. Paper(q) \notin {d, e}
    BY <2>1, OwnersFacts
  <2>4. Paper(q) \in PhraseOwners(p)
    BY <2>2, <2>3 DEF OwnersOf
  <2>5. PhraseOwners(p) \cap PhraseOwners(q) # {}
    BY <2>1, <2>4
  <2> QED BY <2>5, PhraseFacts
<1> QED BY <1>1, <1>2, <1>3 DEF Known

\* A Safe is deployed with each of its owners once.
LEMMA DeployedOwners ==
  ASSUME NEW S \in SUBSET Member, IsFiniteSet(S), NEW s \in SetToSeqs(S)
  PROVE  s \in Seq(Member) /\ Distinct(s) /\ ToSet(s) = S
<1> DEFINE n == Cardinality(S)
           D == 1 .. n
<1>1. n \in Nat
  BY FS_CardinalityType
<1>2. s \in [D -> S] /\ \A i, j \in D : i # j => s[i] # s[j]
  BY DEF SetToSeqs
<1>3. s \in Injection(D, S)
  BY <1>2 DEF Injection, IsInjective
<1>4. Cardinality(D) = n
  BY <1>1, FS_Interval
<1> HIDE DEF n
<1>5. s \in Surjection(D, S)
  BY <1>3, <1>4, FS_Injection DEF n
<1>6. s \in Seq(Member) /\ Len(s) = n
  BY <1>1, <1>2
<1>7. Distinct(s)
  BY <1>2, <1>6 DEF Distinct
<1>8. ToSet(s) = {s[i] : i \in 1 .. Len(s)}
  BY <1>6, ToSetIs
<1>9. ToSet(s) = S
  BY <1>2, <1>5, <1>6, <1>8 DEF Surjection
<1> QED BY <1>6, <1>7, <1>9

LEMMA SInvInit == OwnersInit => SInv
<1> SUFFICES ASSUME OwnersInit PROVE SInv
  OBVIOUS
<1>1. PICK d \in Devices, e \in Ext, p \in Phrase :
        /\ phone = [device |-> d, ext |-> e, count |-> NewScheme(e).confirmations]
        /\ safe \in [owners : SetToSeqs(Own(phone) \cup PhraseOwners(p)),
                     threshold : {phone.count}]
  BY DEF OwnersInit, Ext
<1>2. phone.device = d /\ phone.ext = e /\ phone.count = NewScheme(e).confirmations
  BY <1>1
<1>3. NewScheme(e).confirmations \in {1, 2}
  BY SchemeFacts
<1>4. phone \in [device : Devices, ext : Ext, count : {1, 2}]
  BY <1>1, <1>3
<1> DEFINE S == OwnersOf(d, e, p)
<1>5. Own(phone) \cup PhraseOwners(p) = S
  BY <1>2 DEF Own, OwnersOf
<1>6. S \in SUBSET Member /\ IsFiniteSet(S)
  BY OwnersFacts, MemberFacts
<1>7. safe \in [owners : SetToSeqs(S), threshold : {phone.count}]
  BY <1>1, <1>5
<1> HIDE DEF S
<1>8. safe.owners \in SetToSeqs(S) /\ safe.threshold = phone.count
  BY <1>7
<1>9. safe.owners \in Seq(Member) /\ Distinct(safe.owners) /\ ToSet(safe.owners) = S
  BY <1>6, <1>8, DeployedOwners
<1>10. safe \in [owners : Seq(Member), threshold : Nat]
  <2>1. safe.threshold \in Nat
    BY <1>2, <1>3, <1>8
  <2> QED BY <1>7, <1>9, <2>1
<1>11. Agrees(safe, d, e, p)
  BY <1>2, <1>8, <1>9, <1>10 DEF Agrees, SafeOK, S
<1> QED BY <1>2, <1>4, <1>11 DEF SInv

LEMMA SInvTransact ==
  ASSUME NEW calls, NEW w, Transact(calls, w), NEW p \in Phrase,
         w \in [device : Devices, ext : Ext, count : {1, 2}],
         w.count = NewScheme(w.ext).confirmations,
         Gives(safe, calls, w.device, w.ext, p)
  PROVE  SInv'
<1> DEFINE r == Execute(safe, calls)
<1>1. Agrees(r.safe, w.device, w.ext, p)
  BY DEF Gives
<1>2. safe' = r.safe /\ phone' = w
  BY DEF Transact
<1> HIDE DEF r
<1>3. Agrees(safe', phone'.device, phone'.ext, p)
  BY <1>1, <1>2
<1> QED BY <1>2, <1>3 DEF SInv

LEMMA RecoverKeeps ==
  ASSUME SInv, NEW d \in Devices, NEW e \in Ext, NEW q \in Phrase, Recover(d, e, q)
  PROVE  SInv'
<1> DEFINE b == RecoveryData(safe, d, e, q)
           w == [device |-> d, ext |-> e, count |-> b.count]
<1>1. PICK p \in Phrase : Agrees(safe, phone.device, phone.ext, p)
  BY DEF SInv
<1>2. phone.device \in Devices /\ phone.ext \in Ext
  BY DEF SInv
<1>3. Known(q) /\ d \notin ToSet(safe.owners) /\ Transact(b.calls, w)
  BY DEF Recover
<1>4. q = p
  BY <1>1, <1>2, <1>3, KnownIs
<1>5. Recovered(safe, b, d, e, q)
  BY <1>1, <1>2, <1>3, <1>4, RecoverySucceeds
<1> HIDE DEF b
<1>6. Gives(safe, b.calls, d, e, q) /\ b.count = NewScheme(e).confirmations
  BY <1>5 DEF Recovered, Gives, Agrees
<1>7. w.device = d /\ w.ext = e /\ w.count = b.count
  OBVIOUS
<1>8. NewScheme(e).confirmations \in {1, 2}
  BY SchemeFacts
<1>9. w \in [device : Devices, ext : Ext, count : {1, 2}]
  BY <1>6, <1>8
<1> HIDE DEF w
<1>10. w.count = NewScheme(w.ext).confirmations /\ Gives(safe, b.calls, w.device, w.ext, q)
  BY <1>6, <1>7
<1> QED BY <1>3, <1>9, <1>10, SInvTransact

LEMMA ReplaceKeeps ==
  ASSUME SInv, NEW n \in Extensions, Replace(n)
  PROVE  SInv'
<1> DEFINE w == [phone EXCEPT !.ext = n]
           d == phone.device
           e == phone.ext
           calls == ReplaceData(safe, e, n)
<1>1. PICK p \in Phrase : Agrees(safe, d, e, p)
  BY DEF SInv
<1>2. phone \in [device : Devices, ext : Ext, count : {1, 2}] /\ e \in Ext /\ d \in Devices
      /\ phone.count = NewScheme(e).confirmations
  BY DEF SInv
<1>3. e # NoOwner /\ IsNewOwner(safe, n) /\ Transact(calls, w)
  BY DEF Replace
<1>4. e \in Extensions /\ n # Sentinel /\ n # NoOwner /\ n \in Ext
  BY <1>2, <1>3, MemberFacts DEF Ext
<1>5. n \notin ToSet(safe.owners)
  BY <1>1, <1>2, <1>3, <1>4, NewOwnerIs
<1>6. Gives(safe, calls, d, n, p)
  BY <1>1, <1>2, <1>4, <1>5, ReplaceAccepted
<1>7. w.device = d /\ w.ext = n /\ w.count = phone.count
      /\ w \in [device : Devices, ext : Ext, count : {1, 2}]
  BY <1>2, <1>4
<1>8. NewScheme(n) = NewScheme(e)
  BY <1>3, <1>4, SchemeFacts
<1> HIDE DEF w, calls
<1>9. w.count = NewScheme(w.ext).confirmations /\ Gives(safe, calls, w.device, w.ext, p)
  BY <1>2, <1>6, <1>7, <1>8
<1> QED BY <1>3, <1>7, <1>9, SInvTransact

LEMMA ConnectKeeps ==
  ASSUME SInv, NEW n \in Extensions, Connect(n)
  PROVE  SInv'
<1> DEFINE w == [phone EXCEPT !.ext = n, !.count = 2]
           d == phone.device
           e == phone.ext
           calls == ConnectData(n)
<1>1. PICK p \in Phrase : Agrees(safe, d, e, p)
  BY DEF SInv
<1>2. phone \in [device : Devices, ext : Ext, count : {1, 2}] /\ e \in Ext /\ d \in Devices
  BY DEF SInv
<1>3. e = NoOwner /\ IsNewOwner(safe, n) /\ Transact(calls, w)
  BY DEF Connect
<1>4. n # Sentinel /\ n # NoOwner /\ n \in Ext
  BY MemberFacts DEF Ext
<1>5. n \notin ToSet(safe.owners)
  BY <1>1, <1>2, <1>3, <1>4, NewOwnerIs
<1>6. Gives(safe, calls, d, n, p)
  BY <1>1, <1>2, <1>3, <1>5, ConnectAccepted
<1>7. w.device = d /\ w.ext = n /\ w.count = 2
      /\ w \in [device : Devices, ext : Ext, count : {1, 2}]
  BY <1>2, <1>4
<1>8. NewScheme(n).confirmations = 2
  BY <1>4, SchemeFacts
<1> HIDE DEF w, calls
<1>9. w.count = NewScheme(w.ext).confirmations /\ Gives(safe, calls, w.device, w.ext, p)
  BY <1>6, <1>7, <1>8
<1> QED BY <1>3, <1>7, <1>9, SInvTransact

LEMMA DisconnectKeeps ==
  ASSUME SInv, Disconnect
  PROVE  SInv'
<1> DEFINE w == [phone EXCEPT !.ext = NoOwner, !.count = 1]
           d == phone.device
           e == phone.ext
           calls == DisconnectData(safe, e)
<1>1. PICK p \in Phrase : Agrees(safe, d, e, p)
  BY DEF SInv
<1>2. phone \in [device : Devices, ext : Ext, count : {1, 2}] /\ e \in Ext /\ d \in Devices
  BY DEF SInv
<1>3. e # NoOwner /\ Transact(calls, w)
  BY DEF Disconnect
<1>4. e \in Extensions /\ NoOwner \in Ext
  BY <1>2, <1>3 DEF Ext
<1>5. Gives(safe, calls, d, NoOwner, p)
  BY <1>1, <1>2, <1>4, DisconnectAccepted
<1>6. w.device = d /\ w.ext = NoOwner /\ w.count = 1
      /\ w \in [device : Devices, ext : Ext, count : {1, 2}]
  BY <1>2, <1>4
<1>7. NewScheme(NoOwner).confirmations = 1
  BY SchemeFacts
<1> HIDE DEF w, calls
<1>8. w.count = NewScheme(w.ext).confirmations /\ Gives(safe, calls, w.device, w.ext, p)
  BY <1>5, <1>6, <1>7
<1> QED BY <1>3, <1>6, <1>8, SInvTransact

LEMMA ReplacePhraseKeeps ==
  ASSUME SInv, NEW q \in Phrase, ReplacePhrase(q)
  PROVE  SInv'
<1> DEFINE d == phone.device
           e == phone.ext
           calls == PhraseData(safe, d, e, q)
<1>1. PICK p \in Phrase : Agrees(safe, d, e, p)
  BY DEF SInv
<1>2. phone \in [device : Devices, ext : Ext, count : {1, 2}] /\ e \in Ext /\ d \in Devices
      /\ phone.count = NewScheme(e).confirmations
  BY DEF SInv
<1>3. ~Known(q) /\ Transact(calls, phone)
  BY DEF ReplacePhrase
<1>4. q # p
  BY <1>1, <1>2, <1>3, KnownIs
<1>5. Gives(safe, calls, d, e, q)
  BY <1>1, <1>2, <1>4, PhraseAccepted
<1> HIDE DEF calls
<1> QED BY <1>2, <1>3, <1>5, SInvTransact

LEMMA SInvStep == SInv /\ [OwnersNext]_ownersVars => SInv'
<1> SUFFICES ASSUME SInv, [OwnersNext]_ownersVars PROVE SInv'
  OBVIOUS
<1>1. CASE UNCHANGED ownersVars
  BY <1>1 DEF SInv, ownersVars
<1>2. ASSUME NEW d \in Devices, NEW e \in Ext, NEW q \in Phrase, Recover(d, e, q) PROVE SInv'
  BY <1>2, RecoverKeeps
<1>3. ASSUME NEW n \in Extensions, Replace(n) PROVE SInv'
  BY <1>3, ReplaceKeeps
<1>4. ASSUME NEW n \in Extensions, Connect(n) PROVE SInv'
  BY <1>4, ConnectKeeps
<1>5. CASE Disconnect
  BY <1>5, DisconnectKeeps
<1>6. ASSUME NEW q \in Phrase, ReplacePhrase(q) PROVE SInv'
  BY <1>6, ReplacePhraseKeeps
<1> QED BY <1>1, <1>2, <1>3, <1>4, <1>5, <1>6 DEF OwnersNext, Ext

(* Between any two transactions the Safe and the phone agree: the owners of *)
(* the contract are, once each and in some order, this device, its          *)
(* extension and the two accounts of one phrase, and the threshold is the   *)
(* wallet's confirmation count.                                             *)
THEOREM SafeOwnersInvariant == OwnersSpec => []SInv
BY SInvInit, SInvStep, PTL DEF OwnersSpec

(* Whatever was done to the Safe before, in whatever order, its owners are *)
(* the wallet's and those of exactly one phrase, its threshold is the      *)
(* wallet's confirmation count and its scheme is one of the two that the   *)
(* app supports: what postProcessing() compares.                           *)
THEOREM OwnersMatch == OwnersSpec => []WalletMatchesSafe
<1>1. ASSUME SInv PROVE WalletMatchesSafe
  <2> DEFINE d == phone.device
             e == phone.ext
  <2>1. PICK p \in Phrase : Agrees(safe, d, e, p)
    BY <1>1 DEF SInv
  <2>2. d \in Devices /\ e \in Ext /\ phone.count = NewScheme(e).confirmations
    BY <1>1 DEF SInv
  <2>3. OldScheme(safe) = NewScheme(e)
    BY <2>1, <2>2, AgreesFacts
  <2>4. phone.count = safe.threshold /\ ToSet(safe.owners) = OwnersOf(d, e, p)
    BY <2>1, <2>2 DEF Agrees
  <2>5. ToSet(safe.owners) = Own(phone) \cup PhraseOwners(p)
    BY <2>4 DEF Own, OwnersOf
  <2>6. \A q \in Phrase \ {p} : ~Known(q)
    BY <2>1, <2>2, KnownIs
  <2> QED BY <2>3, <2>4, <2>5, <2>6 DEF WalletMatchesSafe
<1> QED BY <1>1, SafeOwnersInvariant, PTL

(* Whoever holds the phrase can recover the Safe on a new phone, with any  *)
(* extension or without one: what RecoveryTransactionBuilder encodes       *)
(* against its linked list is accepted call by call, leaves exactly the    *)
(* local owners and the threshold the wallet then has.                     *)
THEOREM RecoveryAlwaysPossible == OwnersSpec => []NewDeviceRecovers
<1>1. ASSUME SInv PROVE NewDeviceRecovers
  <2> SUFFICES ASSUME NEW q \in Phrase, Known(q), NEW e \in Ext, NEW d \in Devices,
                      d \notin ToSet(safe.owners)
               PROVE  Recovers(d, e, q)
    BY DEF NewDeviceRecovers, Ext
  <2>1. PICK p \in Phrase : Agrees(safe, phone.device, phone.ext, p)
    BY <1>1 DEF SInv
  <2>2. phone.device \in Devices /\ phone.ext \in Ext
    BY <1>1 DEF SInv
  <2>3. q = p
    BY <2>1, <2>2, KnownIs
  <2> DEFINE b == RecoveryData(safe, d, e, q)
             r == Execute(safe, b.calls)
  <2>4. Recovered(safe, b, d, e, q)
    BY <2>1, <2>2, <2>3, RecoverySucceeds
  <2>5. IsSupported(safe, q)
    BY <2>1, <2>2, <2>3, ModifiableFacts
  <2> HIDE DEF b
  <2>6. r.ok /\ Agrees(r.safe, d, e, q) /\ b.count = r.safe.threshold
    BY <2>4 DEF Recovered
  <2>7. ToSet(r.safe.owners) = ({d, e} \ {NoOwner}) \cup PhraseOwners(q)
    BY <2>6 DEF Agrees, OwnersOf
  <2> QED BY <2>5, <2>6, <2>7 DEF Recovers, b
<1> QED BY <1>1, SafeOwnersInvariant, PTL

(* What the settings offer is never refused by the contract, neither the   *)
(* transactions themselves nor the probes their fee is estimated with, so  *)
(* no estimate fails for a reason the user cannot see.                     *)
THEOREM SettingsNeverRefused == OwnersSpec => []SettingsAccepted
<1>1. ASSUME SInv PROVE SettingsAccepted
  <2> DEFINE d == phone.device
             e == phone.ext
             Ok(calls) == Execute(safe, calls).ok
  <2>1. PICK p \in Phrase : Agrees(safe, d, e, p)
    BY <1>1 DEF SInv
  <2>2. d \in Devices /\ e \in Ext
    BY <1>1 DEF SInv
  <2>3. Ok(ReplaceProbe(safe)) /\ Ok(PhraseProbe(safe)) /\ (e = NoOwner => Ok(ConnectProbe))
    BY <2>1, <2>2, ProbesAccepted
  <2>4. ASSUME NEW q \in Phrase, ~Known(q) PROVE Ok(PhraseData(safe, d, e, q))
    <3>1. q # p
      BY <2>1, <2>2, <2>4, KnownIs
    <3> QED BY <2>1, <2>2, <3>1, PhraseAccepted DEF Gives
  <2>5. ASSUME e # NoOwner PROVE Ok(DisconnectData(safe, e)) /\ Ok(DisconnectProbe(safe, e))
    <3>1. e \in Extensions
      BY <2>2, <2>5 DEF Ext
    <3> QED BY <2>1, <2>2, <3>1, DisconnectAccepted DEF Gives, DisconnectProbe
  <2>6. ASSUME NEW n \in Extensions, IsNewOwner(safe, n)
        PROVE  Ok(IF e = NoOwner THEN ConnectData(n) ELSE ReplaceData(safe, e, n))
    <3>1. n # Sentinel
      BY MemberFacts
    <3>2. n \notin ToSet(safe.owners)
      BY <2>1, <2>2, <2>6, <3>1, NewOwnerIs
    <3>3. CASE e = NoOwner
      BY <2>1, <2>2, <3>2, <3>3, ConnectAccepted DEF Gives
    <3>4. CASE e # NoOwner
      <4>1. e \in Extensions
        BY <2>2, <3>4 DEF Ext
      <4> QED BY <2>1, <2>2, <3>2, <3>4, <4>1, ReplaceAccepted DEF Gives
    <3> QED BY <3>3, <3>4
  <2> HIDE DEF Ok
  <2>7. /\ Ok(ReplaceProbe(safe)) /\ Ok(PhraseProbe(safe))
        /\ \A q \in Phrase : ~Known(q) => Ok(PhraseData(safe, phone.device, phone.ext, q))
        /\ e = NoOwner => Ok(ConnectProbe)
        /\ e # NoOwner => Ok(DisconnectProbe(safe, e)) /\ Ok(DisconnectData(safe, e))
        /\ \A n \in Extensions : IsNewOwner(safe, n) =>
             Ok(IF e = NoOwner THEN ConnectData(n) ELSE ReplaceData(safe, e, n))
    BY <2>3, <2>4, <2>5, <2>6
  <2> QED BY <2>7 DEF SettingsAccepted, Ok
<1> QED BY <1>1, SafeOwnersInvariant, PTL

-----------------------------------------------------------------------------
(* PART 2.  The recovery of the wallet.                                    *)

-----------------------------------------------------------------------------
(* The records.                                                            *)

IsWallet(w) == w = [state |-> w.state, addr |-> w.addr, unknown |-> w.unknown,
                    phrase |-> w.phrase, ext |-> w.ext, count |-> w.count]
IsPull(x) == x = [at |-> x.at, addr |-> x.addr, w |-> x.w]
IsCreation(x) == x = [at |-> x.at, w |-> x.w, calls |-> x.calls]
IsResume(r) == r = [at |-> r.at, seen |-> r.seen, w |-> r.w, tx |-> r.tx]
IsPost(p) == p = [at |-> p.at, w |-> p.w]
IsUi(u) == u = [stack |-> u.stack, fresh |-> u.fresh, next |-> u.next, review |-> u.review,
                shown |-> u.shown, busy |-> u.busy, alert |-> u.alert]
IsService(v) == v = [handler |-> v.handler, subs |-> v.subs, polled |-> v.polled]
IsApp(a) == a = [trap |-> a.trap, entries |-> a.entries, reviews |-> a.reviews,
                 fails |-> a.fails, kills |-> a.kills]
IsJob(j) ==
  /\ j = [pull |-> j.pull, create |-> j.create, provide |-> j.provide, pair |-> j.pair,
          deaf |-> j.deaf, cancel |-> j.cancel, resume |-> j.resume,
          notice |-> j.notice, post |-> j.post]
  /\ j.pull = [i \in Entry |-> j.pull[i]] /\ \A i \in Entry : IsPull(j.pull[i])
  /\ j.create = [k \in Id |-> j.create[k]] /\ \A k \in Id : IsCreation(j.create[k])

Shape == IsWallet(wallet) /\ IsJob(job) /\ IsUi(ui) /\ IsService(svc) /\ IsApp(app)

-----------------------------------------------------------------------------
(* Who is at work.                                                         *)

Draft(w) == IsWallet(w) /\ w.state = "recoveryDraft"
InProgress(w) == IsWallet(w) /\ w.state = "recoveryInProgress"
Finalizing(w) == IsWallet(w) /\ w.state = "recoveryPostProcessing"

\* The flow's screens up to the first, second, ... of them.
Flow(n) == SubSeq(<<"options", "intro", "address", "phrase", "pair", "progress">>, 1, n)
Stacks == {Flow(n) : n \in 1 .. 6} \cup {<<"options", "setup">>, <<"main">>}

Pulling == \E i \in Entry : job.pull[i].at \in {"check", "pull"}
CreatingNow == \E k \in Id : job.create[k].at \in {"begin", "pull", "estimate"}
Early == Pulling \/ CreatingNow \/ job.provide # NoSafe \/ job.pair # NoOwner \/ job.cancel # 0
Late == job.resume # {} \/ job.notice # {} \/ job.post # {} \/ svc.subs # {}
Calm == ui.alert = "none" /\ ui.review = 0

StackInv ==
  /\ ui.stack \in Stacks
  /\ ui.review # 0 => ui.stack = Flow(5)
  /\ ui.alert \in {"none", "review", "progress"}
  /\ ui.alert = "review" => ui.review # 0
  /\ ui.alert = "progress" => Top = "progress" /\ ~Late /\ Draft(wallet)
  /\ Top \in {"setup", "intro", "address", "phrase", "pair"} => Draft(wallet)
  /\ Top \in {"options", "progress"} => ~IsReadyToUse(wallet)

EarlyInv ==
  /\ Early => Top \in {"intro", "address", "phrase", "pair"} /\ ~Late
  /\ job.provide # NoSafe => Top = "phrase" /\ Calm /\ ~CreatingNow
  /\ job.pair # NoOwner => Top = "pair" /\ Calm /\ ~CreatingNow
  /\ \A i \in Entry : job.pull[i].at = "pull" => Draft(job.pull[i].w)
  /\ \A k \in Id : job.create[k].at \in {"pull", "estimate"} => Draft(job.create[k].w)

ResumeInv(r) ==
  /\ IsResume(r)
  /\ r.at \in {"begin", "submit", "proceed"} => Draft(wallet)
  /\ r.at \in {"submit", "proceed"} => Draft(r.w)
  /\ r.at = "check" => InProgress(wallet)
  /\ r.at = "subscribe" => InProgress(r.w)

PostInv(p) ==
  /\ IsPost(p) /\ Finalizing(p.w) /\ p.at \in {"answer", "ready"}
  /\ p.at = "ready" => p.w.phrase \notin keys

LateInv ==
  /\ Late => Top = "progress" /\ Calm
  /\ job.resume # {} => /\ \E r \in job.resume : job.resume = {r} /\ ResumeInv(r)
                        /\ job.notice = {} /\ job.post = {} /\ svc.subs = {}
  /\ job.notice \subseteq svc.subs
  /\ svc.subs # {} => /\ \E w \in svc.subs : svc.subs = {w} /\ InProgress(w)
                      /\ job.resume = {} /\ job.post = {}
  /\ job.post # {} => /\ \E p \in job.post : job.post = {p} /\ PostInv(p)
                      /\ job.resume = {} /\ job.notice = {} /\ svc.subs = {}

RInv == Shape /\ PhraseForgotten /\ (Alive => StackInv /\ EarlyInv /\ LateInv)

-----------------------------------------------------------------------------
(* The stack of screens.                                                   *)

AllScreens == <<"options", "intro", "address", "phrase", "pair", "progress">>

LEMMA AllScreensFacts ==
  /\ AllScreens \in Seq(Screen) /\ Len(AllScreens) = 6
  /\ AllScreens[1] = "options" /\ AllScreens[2] = "intro" /\ AllScreens[3] = "address"
  /\ AllScreens[4] = "phrase" /\ AllScreens[5] = "pair" /\ AllScreens[6] = "progress"
BY DEF AllScreens, Screen

LEMMA FlowIs ==
  ASSUME NEW n \in 1 .. 6
  PROVE  /\ Flow(n) \in Seq(Screen) /\ Len(Flow(n)) = n
         /\ \A i \in 1 .. n : Flow(n)[i] = AllScreens[i]
<1> DEFINE a == AllScreens
<1>1. a \in Seq(Screen) /\ Len(a) = 6
  BY AllScreensFacts
<1>2. Flow(n) = SubSeq(a, 1, n)
  BY DEF Flow, AllScreens
<1> HIDE DEF a
<1>3. n \in Nat /\ n <= Len(a) /\ 1 \in 1 .. Len(a)
  BY <1>1
<1> DEFINE u == SubSeq(a, 1, n)
<1>4. \A i \in 1 .. n : a[i] \in Screen
  <2>1. \A i \in 1 .. n : i \in 1 .. Len(a)
    BY <1>3
  <2>2. \A i \in 1 .. Len(a) : a[i] \in Screen
    BY <1>1, ElementOfSeq
  <2> QED BY <2>1, <2>2
<1>5. /\ u \in Seq(Screen) /\ Len(u) = n
      /\ \A i \in 1 .. n : u[i] = a[i]
  BY <1>3, <1>4
<1> HIDE DEF u
<1> QED BY <1>2, <1>5 DEF a, u

LEMMA FlowLast ==
  ASSUME NEW n \in 1 .. 6
  PROVE  Last(Flow(n)) = AllScreens[n]
<1>1. Len(Flow(n)) = n /\ \A i \in 1 .. n : Flow(n)[i] = AllScreens[i]
  BY FlowIs
<1>2. n \in 1 .. n
  OBVIOUS
<1> QED BY <1>1, <1>2 DEF Last

LEMMA FlowAppend ==
  ASSUME NEW n \in 1 .. 5
  PROVE  Append(Flow(n), AllScreens[n + 1]) = Flow(n + 1)
<1> DEFINE s == Flow(n)
           t == Flow(n + 1)
           o == AllScreens[n + 1]
           u == Append(s, o)
<1>1. n \in 1 .. 6 /\ n + 1 \in 1 .. 6
  OBVIOUS
<1>2. s \in Seq(Screen) /\ Len(s) = n /\ \A i \in 1 .. n : s[i] = AllScreens[i]
  BY <1>1, FlowIs
<1>3. t \in Seq(Screen) /\ Len(t) = n + 1 /\ \A i \in 1 .. n + 1 : t[i] = AllScreens[i]
  BY <1>1, FlowIs
<1>4. o \in Screen
  <2>1. AllScreens \in Seq(Screen) /\ n + 1 \in 1 .. Len(AllScreens)
    BY <1>1, AllScreensFacts
  <2> QED BY <2>1
<1> HIDE DEF s, t, o
<1>5. /\ u \in Seq(Screen) /\ Len(u) = Len(s) + 1
      /\ \A i \in 1 .. Len(s) : u[i] = s[i]
      /\ u[Len(s) + 1] = o
  BY <1>2, <1>4, AppendProperties
<1> HIDE DEF u
<1>6. ASSUME NEW i \in 1 .. n + 1 PROVE u[i] = t[i]
  <2>1. CASE i \in 1 .. n
    BY <1>2, <1>3, <1>5, <2>1
  <2>2. CASE i = n + 1
    BY <1>2, <1>3, <1>5, <2>2 DEF o
  <2> QED BY <2>1, <2>2
<1>7. u = t
  BY <1>2, <1>3, <1>5, <1>6, SeqEqual
<1> QED BY <1>7 DEF s, t, o, u

LEMMA FlowPrefix ==
  ASSUME NEW n \in 1 .. 6, NEW m \in 1 .. n
  PROVE  SubSeq(Flow(n), 1, m) = Flow(m)
<1> DEFINE s == Flow(n)
           t == Flow(m)
           u == SubSeq(s, 1, m)
<1>1. m \in 1 .. 6
  OBVIOUS
<1>2. s \in Seq(Screen) /\ Len(s) = n /\ \A i \in 1 .. n : s[i] = AllScreens[i]
  BY FlowIs
<1>3. t \in Seq(Screen) /\ Len(t) = m /\ \A i \in 1 .. m : t[i] = AllScreens[i]
  BY <1>1, FlowIs
<1> HIDE DEF s, t
<1>4. /\ u \in Seq(Screen) /\ Len(u) = m
      /\ \A i \in 1 .. m : u[i] = s[i]
  BY <1>1, <1>2
<1> HIDE DEF u
<1>5. \A i \in 1 .. m : u[i] = t[i]
  BY <1>2, <1>3, <1>4
<1>6. u = t
  BY <1>3, <1>4, <1>5, SeqEqual
<1> QED BY <1>6 DEF s, t, u

LEMMA FlowFront ==
  ASSUME NEW n \in 2 .. 6
  PROVE  Front(Flow(n)) = Flow(n - 1)
<1>1. n \in 1 .. 6 /\ n - 1 \in 1 .. n
  OBVIOUS
<1>2. Len(Flow(n)) = n
  BY <1>1, FlowIs
<1>3. SubSeq(Flow(n), 1, n - 1) = Flow(n - 1)
  BY <1>1, FlowPrefix
<1> QED BY <1>2, <1>3 DEF Front

\* What the screen in front tells of the stack.
LEMMA StackTop ==
  ASSUME NEW s \in Stacks
  PROVE  /\ Last(s) \in Screen
         /\ Last(s) = "options" => s = Flow(1)
         /\ Last(s) = "intro" => s = Flow(2)
         /\ Last(s) = "address" => s = Flow(3)
         /\ Last(s) = "phrase" => s = Flow(4)
         /\ Last(s) = "pair" => s = Flow(5)
         /\ Last(s) = "progress" => s = Flow(6)
         /\ Last(s) = "setup" => s = <<"options", "setup">>
<1>1. /\ Last(Flow(1)) = "options" /\ Last(Flow(2)) = "intro" /\ Last(Flow(3)) = "address"
      /\ Last(Flow(4)) = "phrase" /\ Last(Flow(5)) = "pair" /\ Last(Flow(6)) = "progress"
  BY FlowLast, AllScreensFacts
<1>2. Last(<<"options", "setup">>) = "setup" /\ Last(<<"main">>) = "main"
  BY DEF Last
<1>3. 1 .. 6 = {1, 2, 3, 4, 5, 6}
  OBVIOUS
<1>4. \/ s = Flow(1) \/ s = Flow(2) \/ s = Flow(3) \/ s = Flow(4) \/ s = Flow(5) \/ s = Flow(6)
      \/ s = <<"options", "setup">> \/ s = <<"main">>
  BY <1>3 DEF Stacks
<1> DEFINE a == <<"options", "setup">>
           b == <<"main">>
<1>5. (s = a => Last(s) = "setup") /\ (s = b => Last(s) = "main")
  BY <1>2
<1> HIDE DEF a, b
<1>6. \/ s = Flow(1) \/ s = Flow(2) \/ s = Flow(3) \/ s = Flow(4) \/ s = Flow(5) \/ s = Flow(6)
      \/ s = a \/ s = b
  BY <1>4 DEF a, b
<1>7. CASE s = a
  BY <1>5, <1>7 DEF a, Screen
<1>8. CASE s = b
  BY <1>5, <1>8 DEF Screen
<1>9. CASE s # a /\ s # b
  BY <1>1, <1>6, <1>9 DEF Screen
<1> QED BY <1>7, <1>8, <1>9

-----------------------------------------------------------------------------
(* Records.                                                                *)

LEMMA RecordFacts ==
  /\ Draft(RecoveryDraft) /\ IsWallet(NoWallet) /\ NoWallet.state = "none"
  /\ IsPull(NoPull) /\ NoPull.at = "none" /\ IsCreation(NoCreation) /\ NoCreation.at = "none"
  /\ \A s : IsUi(Opened(s)) /\ Opened(s).stack = <<s>> /\ Opened(s).review = 0
            /\ Opened(s).alert = "none"
  /\ IsService(NoService) /\ NoService.subs = {}
  /\ \A n : IsResume(Resumption(n)) /\ Resumption(n).at = "begin"
<1>1. Draft(RecoveryDraft)
  BY DEF Draft, IsWallet, RecoveryDraft
<1>2. IsWallet(NoWallet) /\ NoWallet.state = "none"
  BY DEF NoWallet, IsWallet, RecoveryDraft
<1>3. IsPull(NoPull) /\ NoPull.at = "none" /\ IsCreation(NoCreation) /\ NoCreation.at = "none"
  BY DEF NoPull, IsPull, NoCreation, IsCreation
<1>4. ASSUME NEW s PROVE IsUi(Opened(s)) /\ Opened(s).stack = <<s>> /\ Opened(s).review = 0
                         /\ Opened(s).alert = "none"
  BY DEF Opened, IsUi
<1>5. IsService(NoService) /\ NoService.subs = {}
  BY DEF NoService, IsService
<1>6. ASSUME NEW n PROVE IsResume(Resumption(n)) /\ Resumption(n).at = "begin"
  BY DEF Resumption, IsResume
<1> QED BY <1>1, <1>2, <1>3, <1>4, <1>5, <1>6

LEMMA NoJobFacts ==
  /\ IsJob(NoJob) /\ NoJob.provide = NoSafe /\ NoJob.pair = NoOwner /\ NoJob.cancel = 0
  /\ NoJob.resume = {} /\ NoJob.notice = {} /\ NoJob.post = {}
  /\ \A i \in Entry : NoJob.pull[i].at = "none"
  /\ \A k \in Id : NoJob.create[k].at = "none"
<1> DEFINE a == [i \in Entry |-> NoPull]
           b == [k \in Id |-> NoCreation]
<1>1. /\ \A i \in Entry : a[i] = NoPull
      /\ \A k \in Id : b[k] = NoCreation
      /\ a = [i \in Entry |-> a[i]] /\ b = [k \in Id |-> b[k]]
  OBVIOUS
<1>2. NoJob = [pull |-> a, create |-> b, provide |-> NoSafe, pair |-> NoOwner, deaf |-> {},
               cancel |-> 0, resume |-> {}, notice |-> {}, post |-> {}]
  BY DEF NoJob
<1> HIDE DEF a, b
<1>3. /\ NoJob.pull = a /\ NoJob.create = b /\ NoJob.provide = NoSafe /\ NoJob.pair = NoOwner
      /\ NoJob.deaf = {} /\ NoJob.cancel = 0
      /\ NoJob.resume = {} /\ NoJob.notice = {} /\ NoJob.post = {}
  BY <1>2
<1>4. IsJob(NoJob)
  BY <1>1, <1>2, <1>3, RecordFacts DEF IsJob
<1> QED BY <1>1, <1>3, <1>4, RecordFacts

LEMMA WalletFacts ==
  ASSUME NEW w, IsWallet(w), NEW x
  PROVE  /\ \A v \in {[w EXCEPT !.addr = x], [w EXCEPT !.unknown = x], [w EXCEPT !.ext = x],
                      [w EXCEPT !.phrase = x], [w EXCEPT !.count = x]} :
              IsWallet(v) /\ v.state = w.state
         /\ \A v \in {[w EXCEPT !.addr = x], [w EXCEPT !.unknown = x], [w EXCEPT !.ext = x],
                      [w EXCEPT !.count = x], [w EXCEPT !.state = x]} :
              IsWallet(v) /\ v.phrase = w.phrase
         /\ [w EXCEPT !.state = x].state = x
<1> DEFINE Sh(v) == v = [state |-> v.state, addr |-> v.addr, unknown |-> v.unknown,
                        phrase |-> v.phrase, ext |-> v.ext, count |-> v.count]
<1>1. w = [state |-> w.state, addr |-> w.addr, unknown |-> w.unknown,
           phrase |-> w.phrase, ext |-> w.ext, count |-> w.count]
  BY DEF IsWallet
<1>2. ASSUME NEW v, v = [w EXCEPT !.addr = x] PROVE Sh(v) /\ v.state = w.state /\ v.phrase = w.phrase
  BY <1>1, <1>2
<1>3. ASSUME NEW v, v = [w EXCEPT !.unknown = x] PROVE Sh(v) /\ v.state = w.state /\ v.phrase = w.phrase
  BY <1>1, <1>3
<1>4. ASSUME NEW v, v = [w EXCEPT !.ext = x] PROVE Sh(v) /\ v.state = w.state /\ v.phrase = w.phrase
  BY <1>1, <1>4
<1>5. ASSUME NEW v, v = [w EXCEPT !.count = x] PROVE Sh(v) /\ v.state = w.state /\ v.phrase = w.phrase
  BY <1>1, <1>5
<1>6. ASSUME NEW v, v = [w EXCEPT !.phrase = x] PROVE Sh(v) /\ v.state = w.state
  BY <1>1, <1>6
<1>7. ASSUME NEW v, v = [w EXCEPT !.state = x] PROVE Sh(v) /\ v.state = x /\ v.phrase = w.phrase
  BY <1>1, <1>7
<1>8. \A v : Sh(v) => IsWallet(v)
  BY DEF IsWallet
<1> HIDE DEF Sh
<1> QED BY <1>2, <1>3, <1>4, <1>5, <1>6, <1>7, <1>8

LEMMA ProceededFacts ==
  ASSUME NEW w, IsWallet(w)
  PROVE  /\ IsWallet(Proceeded(w)) /\ Proceeded(w).phrase = w.phrase
         /\ Draft(w) => InProgress(Proceeded(w))
         /\ InProgress(w) => Finalizing(Proceeded(w))
<1> DEFINE x == CASE w.state = "recoveryDraft" -> "recoveryInProgress"
                  [] w.state = "recoveryInProgress" -> "recoveryPostProcessing"
                  [] OTHER -> "readyToUse"
<1>1. Proceeded(w) = [w EXCEPT !.state = x]
  BY DEF Proceeded
<1>2. /\ w.state = "recoveryDraft" => x = "recoveryInProgress"
      /\ w.state = "recoveryInProgress" => x = "recoveryPostProcessing"
  OBVIOUS
<1> HIDE DEF x
<1>3. /\ IsWallet([w EXCEPT !.state = x]) /\ [w EXCEPT !.state = x].phrase = w.phrase
      /\ [w EXCEPT !.state = x].state = x
  BY WalletFacts
<1> QED BY <1>1, <1>2, <1>3 DEF Draft, InProgress, Finalizing

-----------------------------------------------------------------------------
(* Where a step may lead.                                                  *)

EarlyJobs ==
  /\ \A i \in Entry : job.pull[i].at = "pull" => Draft(job.pull[i].w)
  /\ \A k \in Id : job.create[k].at \in {"pull", "estimate"} => Draft(job.create[k].w)

LEMMA DraftFacts ==
  ASSUME NEW w
  PROVE  /\ Draft(w) => IsWallet(w) /\ w.state = "recoveryDraft" /\ ~IsReadyToUse(w)
         /\ InProgress(w) => IsWallet(w) /\ w.state = "recoveryInProgress" /\ ~IsReadyToUse(w)
         /\ Finalizing(w) => IsWallet(w) /\ w.state = "recoveryPostProcessing" /\ ~IsReadyToUse(w)
BY DEF Draft, InProgress, Finalizing, IsReadyToUse

\* To a state that is not alive.
LEMMA DeadKeeps ==
  ASSUME Shape', PhraseForgotten', ~Alive'
  PROVE  RInv'
BY DEF RInv

\* To one that differs where nothing looks.
LEMMA FrameKeeps ==
  ASSUME RInv, Shape', wallet' = wallet, keys' = keys, job' = job, ui' = ui,
         svc'.subs = svc.subs, app'.trap = app.trap
  PROVE  RInv'
<1>1. PhraseForgotten'
  BY DEF RInv, PhraseForgotten
<1>2. Alive' <=> Alive
  BY DEF Alive
<1>3. SUFFICES ASSUME Alive PROVE StackInv' /\ EarlyInv' /\ LateInv'
  BY <1>1, <1>2 DEF RInv
<1>4. (Top' = Top) /\ (Late' <=> Late) /\ (Early' <=> Early) /\ (CreatingNow' <=> CreatingNow)
      /\ (Calm' <=> Calm)
  BY DEF Top, Late, Early, Pulling, CreatingNow, Calm
<1>5. StackInv'
  BY <1>3, <1>4 DEF RInv, StackInv
<1>6. EarlyInv'
  BY <1>3, <1>4 DEF RInv, EarlyInv
<1>7. LateInv'
  BY <1>3, <1>4 DEF RInv, LateInv, ResumeInv, PostInv
<1> QED BY <1>5, <1>6, <1>7

\* To one of the screens on which the recovery is entered.
LEMMA FlowKeeps ==
  ASSUME Shape', Draft(wallet'), ~Late', EarlyJobs',
         NEW n \in 2 .. 5, ui'.stack = Flow(n), ui'.review # 0 => n = 5,
         ui'.alert \in {"none", "review"}, ui'.alert = "review" => ui'.review # 0,
         job'.provide # NoSafe => n = 4 /\ Calm' /\ ~CreatingNow',
         job'.pair # NoOwner => n = 5 /\ Calm' /\ ~CreatingNow'
  PROVE  RInv'
<1>1. ~IsReadyToUse(wallet')
  BY DraftFacts
<1>2. PhraseForgotten'
  BY <1>1 DEF PhraseForgotten
<1>3. n \in 1 .. 6 /\ n # 1 /\ n # 6
  OBVIOUS
<1>4. Top' = AllScreens[n]
  BY <1>3, FlowLast DEF Top
<1>5. Top' \in {"intro", "address", "phrase", "pair"} /\ (n = 4 => Top' = "phrase")
      /\ (n = 5 => Top' = "pair")
  BY <1>4, AllScreensFacts
<1>6. ui'.stack \in Stacks
  BY <1>3 DEF Stacks
<1>7. StackInv'
  BY <1>1, <1>5, <1>6 DEF StackInv
<1>8. EarlyInv'
  BY <1>5 DEF EarlyInv, EarlyJobs
<1>9. LateInv'
  BY DEF LateInv, Late
<1> QED BY <1>2, <1>7, <1>8, <1>9 DEF RInv

\* To the options or the main screen.
LEMMA EdgeKeeps ==
  ASSUME Shape', PhraseForgotten', ~Late', ~Early', EarlyJobs', ui'.review = 0, ui'.alert = "none",
         \/ ui'.stack = Flow(1) /\ ~IsReadyToUse(wallet')
         \/ ui'.stack = <<"options", "setup">> /\ Draft(wallet')
         \/ ui'.stack = <<"main">>
  PROVE  RInv'
<1>1. Last(Flow(1)) = "options"
  BY FlowLast, AllScreensFacts
<1>2. Last(<<"options", "setup">>) = "setup" /\ Last(<<"main">>) = "main"
  BY DEF Last
<1>3. Flow(1) \in Stacks /\ <<"options", "setup">> \in Stacks /\ <<"main">> \in Stacks
  BY DEF Stacks
<1>4. ui'.stack \in Stacks
  BY <1>3
<1>5. \/ Top' = "options" /\ ~IsReadyToUse(wallet')
      \/ Top' = "setup" /\ Draft(wallet')
      \/ Top' = "main"
  BY <1>1, <1>2 DEF Top
<1>6. StackInv'
  BY <1>4, <1>5 DEF StackInv
<1>7. EarlyInv'
  BY DEF EarlyInv, EarlyJobs, Early
<1>8. LateInv'
  BY DEF LateInv, Late
<1> QED BY <1>6, <1>7, <1>8 DEF RInv

\* To the progress screen.
LEMMA ProgressKeeps ==
  ASSUME Shape', ~IsReadyToUse(wallet'), ~Early', EarlyJobs', ui'.stack = Flow(6), ui'.review = 0,
         \/ ui'.alert = "none" /\ LateInv'
         \/ ui'.alert = "progress" /\ Draft(wallet') /\ ~Late'
  PROVE  RInv'
<1>1. Top' = "progress"
  BY FlowLast, AllScreensFacts DEF Top
<1>2. ui'.stack \in Stacks
  BY DEF Stacks
<1>3. PhraseForgotten'
  BY DEF PhraseForgotten
<1>4. StackInv'
  BY <1>1, <1>2 DEF StackInv
<1>5. EarlyInv'
  BY DEF EarlyInv, EarlyJobs, Early
<1>6. LateInv'
  BY DEF LateInv, Late
<1> QED BY <1>3, <1>4, <1>5, <1>6 DEF RInv

-----------------------------------------------------------------------------
(* What the steps have in common.                                          *)

LEMMA PushFacts ==
  ASSUME NEW u, IsUi(u), NEW s
  PROVE  /\ IsUi(Push(u, s)) /\ Push(u, s).stack = Append(u.stack, s)
         /\ Push(u, s).review = u.review /\ Push(u, s).alert = u.alert
<1> DEFINE x == Append(u.stack, s)
           v == Push(u, s)
<1>1. v = [u EXCEPT !.stack = x]
  BY DEF Push
<1> HIDE DEF x, v
<1>2. /\ v = [stack |-> x, fresh |-> u.fresh, next |-> u.next, review |-> u.review,
              shown |-> u.shown, busy |-> u.busy, alert |-> u.alert]
  BY <1>1 DEF IsUi
<1>3. IsUi(v) /\ v.stack = x /\ v.review = u.review /\ v.alert = u.alert
  BY <1>2 DEF IsUi
<1> QED BY <1>3 DEF x, v

LEMMA ClosedFacts ==
  ASSUME IsUi(ui)
  PROVE  /\ IsUi(Closed) /\ Closed.stack = ui.stack /\ Closed.review = 0
         /\ Closed.alert = ui.alert
<1> DEFINE v == Closed
<1>1. v = [ui EXCEPT !.review = 0, !.shown = 0, !.busy = FALSE]
  BY DEF Closed
<1> HIDE DEF v
<1>2. v = [stack |-> ui.stack, fresh |-> ui.fresh, next |-> ui.next, review |-> 0,
           shown |-> 0, busy |-> FALSE, alert |-> ui.alert]
  BY <1>1 DEF IsUi
<1>3. IsUi(v) /\ v.stack = ui.stack /\ v.review = 0 /\ v.alert = ui.alert
  BY <1>2 DEF IsUi
<1> QED BY <1>3 DEF v

LEMMA PoppedFacts ==
  ASSUME NEW u, IsUi(u), NEW n \in 3 .. 6, u.stack = Flow(n)
  PROVE  /\ IsUi(PoppedToCheckpoint(u)) /\ PoppedToCheckpoint(u).review = u.review
         /\ PoppedToCheckpoint(u).alert = u.alert
         /\ \E m \in 2 .. 5 : PoppedToCheckpoint(u).stack = Flow(m)
<1> DEFINE v == PoppedToCheckpoint(u)
<1>1. SubSeq(u.stack, 1, 2) = Flow(2)
  BY FlowPrefix
<1>2. Front(u.stack) = Flow(n - 1) /\ n - 1 \in 2 .. 5
  BY FlowFront
<1> DEFINE a == SubSeq(u.stack, 1, 2)
           b == Front(u.stack)
<1>3. v = IF u.fresh THEN [u EXCEPT !.stack = a, !.fresh = FALSE] ELSE [u EXCEPT !.stack = b]
  BY DEF PoppedToCheckpoint
<1> HIDE DEF a, b, v
<1>4. CASE u.fresh
  <2>1. v = [stack |-> a, fresh |-> FALSE, next |-> u.next, review |-> u.review,
             shown |-> u.shown, busy |-> u.busy, alert |-> u.alert]
    BY <1>3, <1>4 DEF IsUi
  <2>2. IsUi(v) /\ v.stack = a /\ v.review = u.review /\ v.alert = u.alert
    BY <2>1 DEF IsUi
  <2>3. 2 \in 2 .. 5 /\ a = Flow(2)
    BY <1>1 DEF a
  <2>4. \E m \in 2 .. 5 : v.stack = Flow(m)
    BY <2>2, <2>3
  <2> QED BY <2>2, <2>4 DEF v
<1>5. CASE ~u.fresh
  <2>1. v = [stack |-> b, fresh |-> u.fresh, next |-> u.next, review |-> u.review,
             shown |-> u.shown, busy |-> u.busy, alert |-> u.alert]
    BY <1>3, <1>5 DEF IsUi
  <2>2. IsUi(v) /\ v.stack = b /\ v.review = u.review /\ v.alert = u.alert
    BY <2>1 DEF IsUi
  <2>3. n - 1 \in 2 .. 5 /\ b = Flow(n - 1)
    BY <1>2 DEF b
  <2>4. \E m \in 2 .. 5 : v.stack = Flow(m)
    BY <2>2, <2>3
  <2> QED BY <2>2, <2>4 DEF v
<1> QED BY <1>4, <1>5

LEMMA ErrorFacts ==
  ASSUME IsUi(ui)
  PROVE  LET v == ErrorShown(ui)
         IN  /\ IsUi(v) /\ v.stack = ui.stack /\ v.review = ui.review
             /\ \/ v.alert = ui.alert
                \/ v.alert = "review" /\ ui.review # 0
                \/ v.alert = "progress" /\ Top = "progress"
<1> DEFINE v == ErrorShown(ui)
<1>1. CASE svc.handler = "review" /\ ui.review # 0
  <2>1. v = [ui EXCEPT !.alert = "review", !.busy = FALSE]
    BY <1>1 DEF ErrorShown
  <2> HIDE DEF v
  <2>2. v = [stack |-> ui.stack, fresh |-> ui.fresh, next |-> ui.next, review |-> ui.review,
             shown |-> ui.shown, busy |-> FALSE, alert |-> "review"]
    BY <2>1 DEF IsUi
  <2>3. IsUi(v) /\ v.stack = ui.stack /\ v.review = ui.review /\ v.alert = "review"
    BY <2>2 DEF IsUi
  <2> QED BY <1>1, <2>3 DEF v
<1>2. CASE ~(svc.handler = "review" /\ ui.review # 0)
           /\ svc.handler = "progress" /\ Last(ui.stack) = "progress"
  <2>1. v = [ui EXCEPT !.alert = "progress"]
    BY <1>2 DEF ErrorShown
  <2> HIDE DEF v
  <2>2. v = [stack |-> ui.stack, fresh |-> ui.fresh, next |-> ui.next, review |-> ui.review,
             shown |-> ui.shown, busy |-> ui.busy, alert |-> "progress"]
    BY <2>1 DEF IsUi
  <2>3. IsUi(v) /\ v.stack = ui.stack /\ v.review = ui.review /\ v.alert = "progress"
    BY <2>2 DEF IsUi
  <2> QED BY <1>2, <2>3 DEF v, Top
<1>3. CASE /\ ~(svc.handler = "review" /\ ui.review # 0)
           /\ ~(svc.handler = "progress" /\ Last(ui.stack) = "progress")
  <2>1. v = ui
    BY <1>3 DEF ErrorShown
  <2> HIDE DEF v
  <2> QED BY <2>1 DEF v
<1> QED BY <1>1, <1>2, <1>3

LEMMA AppFacts ==
  ASSUME IsApp(app)
  PROVE  /\ Fail => IsApp(app') /\ app'.trap = app.trap
         /\ \A x : Trap(x) => IsApp(app') /\ app'.trap = x
         /\ app' = Reviewed => IsApp(app') /\ app'.trap = app.trap
<1>1. ASSUME NEW n, app' = [app EXCEPT !.fails = n] PROVE IsApp(app') /\ app'.trap = app.trap
  <2>1. app' = [trap |-> app.trap, entries |-> app.entries, reviews |-> app.reviews,
                fails |-> n, kills |-> app.kills]
    BY <1>1 DEF IsApp
  <2> QED BY <2>1 DEF IsApp
<1>2. ASSUME NEW x, app' = [app EXCEPT !.trap = x] PROVE IsApp(app') /\ app'.trap = x
  <2>1. app' = [trap |-> x, entries |-> app.entries, reviews |-> app.reviews,
                fails |-> app.fails, kills |-> app.kills]
    BY <1>2 DEF IsApp
  <2> QED BY <2>1 DEF IsApp
<1>3. ASSUME NEW n, app' = [app EXCEPT !.reviews = n] PROVE IsApp(app') /\ app'.trap = app.trap
  <2>1. app' = [trap |-> app.trap, entries |-> app.entries, reviews |-> n,
                fails |-> app.fails, kills |-> app.kills]
    BY <1>3 DEF IsApp
  <2> QED BY <2>1 DEF IsApp
<1>4. Fail => app' = [app EXCEPT !.fails = app.fails + 1]
  BY DEF Fail
<1>5. Reviewed = [app EXCEPT !.reviews = app.reviews + 1]
  BY DEF Reviewed
<1> QED BY <1>1, <1>2, <1>3, <1>4, <1>5 DEF Trap

LEMMA RunningIs == Running <=> Early \/ job.resume # {} \/ job.notice # {} \/ job.post # {}
BY DEF Running, Early, Pulling, CreatingNow

\* The user acts while nothing is at work.
LEMMA UserFacts ==
  ASSUME Patient, RInv, NEW s, UserActs(s)
  PROVE  /\ Alive /\ Shape /\ StackInv /\ EarlyInv /\ LateInv
         /\ Top = s /\ ui.review = 0 /\ ui.alert = "none" /\ ~Early
         /\ s # "progress" => ~Late
<1>1. Alive /\ Top = s /\ ui.review = 0 /\ ui.alert = "none" /\ ~Running
  BY DEF UserActs
<1>2. Shape /\ StackInv /\ EarlyInv /\ LateInv
  BY <1>1 DEF RInv
<1>3. s # "progress" => ~Late
  BY <1>1, <1>2 DEF LateInv
<1> QED BY <1>1, <1>2, <1>3, RunningIs

-----------------------------------------------------------------------------
(* The jobs.                                                               *)

LEMMA JobOf ==
  ASSUME NEW j, NEW a, NEW b, NEW c, NEW d, NEW e, NEW f, NEW g, NEW h, NEW q,
         j = [pull |-> a, create |-> b, provide |-> c, pair |-> d, deaf |-> e, cancel |-> f,
              resume |-> g, notice |-> h, post |-> q],
         a = [i \in Entry |-> a[i]], \A i \in Entry : IsPull(a[i]),
         b = [k \in Id |-> b[k]], \A k \in Id : IsCreation(b[k])
  PROVE  /\ IsJob(j) /\ j.pull = a /\ j.create = b /\ j.provide = c /\ j.pair = d /\ j.deaf = e
         /\ j.cancel = f /\ j.resume = g /\ j.notice = h /\ j.post = q
<1>1. /\ j.pull = a /\ j.create = b /\ j.provide = c /\ j.pair = d /\ j.deaf = e
      /\ j.cancel = f /\ j.resume = g /\ j.notice = h /\ j.post = q
  OBVIOUS
<1>2. j = [pull |-> j.pull, create |-> j.create, provide |-> j.provide, pair |-> j.pair,
           deaf |-> j.deaf, cancel |-> j.cancel, resume |-> j.resume,
           notice |-> j.notice, post |-> j.post]
  BY <1>1
<1>3. IsJob(j)
  BY <1>1, <1>2 DEF IsJob
<1> QED BY <1>1, <1>3

LEMMA JobParts ==
  ASSUME IsJob(job)
  PROVE  /\ job = [pull |-> job.pull, create |-> job.create, provide |-> job.provide,
                   pair |-> job.pair, deaf |-> job.deaf, cancel |-> job.cancel,
                   resume |-> job.resume, notice |-> job.notice, post |-> job.post]
         /\ job.pull = [i \in Entry |-> job.pull[i]] /\ \A i \in Entry : IsPull(job.pull[i])
         /\ job.create = [k \in Id |-> job.create[k]] /\ \A k \in Id : IsCreation(job.create[k])
BY DEF IsJob

\* The pulls and creations are the same.
SameWork == job'.pull = job.pull /\ job'.create = job.create

LEMMA SameWorkKeeps ==
  ASSUME SameWork
  PROVE  /\ EarlyJobs => EarlyJobs'
         /\ Pulling' <=> Pulling
         /\ CreatingNow' <=> CreatingNow
<1>1. EarlyJobs => EarlyJobs'
  BY DEF SameWork, EarlyJobs
<1>2. Pulling' <=> Pulling
  BY DEF SameWork, Pulling
<1>3. CreatingNow' <=> CreatingNow
  BY DEF SameWork, CreatingNow
<1> QED BY <1>1, <1>2, <1>3

\* Only the small fields of the jobs differ.
LEMMA SmallJobs ==
  ASSUME IsJob(job), NEW c, NEW d, NEW e, NEW f, NEW g, NEW h, NEW q,
         job' = [pull |-> job.pull, create |-> job.create, provide |-> c, pair |-> d,
                 deaf |-> e, cancel |-> f, resume |-> g, notice |-> h, post |-> q]
  PROVE  /\ IsJob(job)' /\ SameWork /\ job'.provide = c /\ job'.pair = d /\ job'.deaf = e
         /\ job'.cancel = f /\ job'.resume = g /\ job'.notice = h /\ job'.post = q
<1>1. /\ job.pull = [i \in Entry |-> job.pull[i]] /\ \A i \in Entry : IsPull(job.pull[i])
      /\ job.create = [k \in Id |-> job.create[k]] /\ \A k \in Id : IsCreation(job.create[k])
  BY JobParts
<1> DEFINE j == job'
           a == job.pull
           b == job.create
<1>2. /\ a = [i \in Entry |-> a[i]] /\ \A i \in Entry : IsPull(a[i])
      /\ b = [k \in Id |-> b[k]] /\ \A k \in Id : IsCreation(b[k])
      /\ j = [pull |-> a, create |-> b, provide |-> c, pair |-> d, deaf |-> e, cancel |-> f,
              resume |-> g, notice |-> h, post |-> q]
  BY <1>1
<1> HIDE DEF j, a, b
<1>3. /\ IsJob(j) /\ j.pull = a /\ j.create = b /\ j.provide = c /\ j.pair = d /\ j.deaf = e
      /\ j.cancel = f /\ j.resume = g /\ j.notice = h /\ j.post = q
  BY <1>2, JobOf
<1>4. IsJob(j) <=> IsJob(job)'
  BY DEF j, IsJob
<1> QED BY <1>3, <1>4 DEF SameWork, j, a, b

\* One pull differs.
LEMMA PullJobs ==
  ASSUME IsJob(job), EarlyJobs, NEW i \in Entry, NEW x, IsPull(x), x.at = "pull" => Draft(x.w),
         NEW e,
         job' = [pull |-> [job.pull EXCEPT ![i] = x], create |-> job.create,
                 provide |-> job.provide, pair |-> job.pair, deaf |-> e, cancel |-> job.cancel,
                 resume |-> job.resume, notice |-> job.notice, post |-> job.post]
  PROVE  /\ IsJob(job)' /\ EarlyJobs' /\ (CreatingNow' <=> CreatingNow)
         /\ job'.provide = job.provide /\ job'.pair = job.pair /\ job'.cancel = job.cancel
         /\ job'.resume = job.resume /\ job'.notice = job.notice /\ job'.post = job.post
<1>1. /\ job.pull = [m \in Entry |-> job.pull[m]] /\ \A m \in Entry : IsPull(job.pull[m])
      /\ job.create = [k \in Id |-> job.create[k]] /\ \A k \in Id : IsCreation(job.create[k])
  BY JobParts
<1> DEFINE j == job'
           a == [job.pull EXCEPT ![i] = x]
           b == job.create
<1>2. /\ a = [m \in Entry |-> a[m]] /\ \A m \in Entry : a[m] = IF m = i THEN x ELSE job.pull[m]
  BY <1>1
<1>3. /\ b = [k \in Id |-> b[k]] /\ \A k \in Id : IsCreation(b[k])
      /\ j = [pull |-> a, create |-> b, provide |-> job.provide, pair |-> job.pair,
              deaf |-> e, cancel |-> job.cancel,
              resume |-> job.resume, notice |-> job.notice, post |-> job.post]
  BY <1>1
<1> HIDE DEF j, a, b
<1>4. \A m \in Entry : IsPull(a[m])
  BY <1>1, <1>2
<1>5. /\ IsJob(j) /\ j.pull = a /\ j.create = b /\ j.provide = job.provide /\ j.pair = job.pair
      /\ j.cancel = job.cancel
      /\ j.resume = job.resume /\ j.notice = job.notice /\ j.post = job.post
  BY <1>2, <1>3, <1>4, JobOf
<1>6. IsJob(j) <=> IsJob(job)'
  BY DEF j, IsJob
<1>7. EarlyJobs'
  <2>1. \A m \in Entry : a[m].at = "pull" => Draft(a[m].w)
    BY <1>2 DEF EarlyJobs
  <2>2. job'.pull = a /\ job'.create = job.create
    BY <1>5 DEF j, b
  <2> QED BY <2>1, <2>2 DEF EarlyJobs
<1>8. CreatingNow' <=> CreatingNow
  BY <1>5 DEF CreatingNow, j, b
<1> QED BY <1>5, <1>6, <1>7, <1>8 DEF j

\* One creation differs.
LEMMA CreateJobs ==
  ASSUME IsJob(job), EarlyJobs, NEW k \in Id, NEW x, IsCreation(x),
         x.at \in {"pull", "estimate"} => Draft(x.w), NEW d, NEW e,
         job' = [pull |-> job.pull, create |-> [job.create EXCEPT ![k] = x],
                 provide |-> job.provide, pair |-> d, deaf |-> e, cancel |-> job.cancel,
                 resume |-> job.resume, notice |-> job.notice, post |-> job.post]
  PROVE  /\ IsJob(job)' /\ EarlyJobs'
         /\ job'.provide = job.provide /\ job'.pair = d /\ job'.cancel = job.cancel
         /\ job'.resume = job.resume /\ job'.notice = job.notice /\ job'.post = job.post
<1>1. /\ job.pull = [m \in Entry |-> job.pull[m]] /\ \A m \in Entry : IsPull(job.pull[m])
      /\ job.create = [m \in Id |-> job.create[m]] /\ \A m \in Id : IsCreation(job.create[m])
  BY JobParts
<1> DEFINE j == job'
           a == job.pull
           b == [job.create EXCEPT ![k] = x]
<1>2. /\ b = [m \in Id |-> b[m]] /\ \A m \in Id : b[m] = IF m = k THEN x ELSE job.create[m]
  BY <1>1
<1>3. /\ a = [m \in Entry |-> a[m]] /\ \A m \in Entry : IsPull(a[m])
      /\ j = [pull |-> a, create |-> b, provide |-> job.provide, pair |-> d,
              deaf |-> e, cancel |-> job.cancel,
              resume |-> job.resume, notice |-> job.notice, post |-> job.post]
  BY <1>1
<1> HIDE DEF j, a, b
<1>4. \A m \in Id : IsCreation(b[m])
  BY <1>1, <1>2
<1>5. /\ IsJob(j) /\ j.pull = a /\ j.create = b /\ j.provide = job.provide /\ j.pair = d
      /\ j.cancel = job.cancel
      /\ j.resume = job.resume /\ j.notice = job.notice /\ j.post = job.post
  BY <1>2, <1>3, <1>4, JobOf
<1>6. IsJob(j) <=> IsJob(job)'
  BY DEF j, IsJob
<1>7. EarlyJobs'
  <2>1. \A m \in Id : b[m].at \in {"pull", "estimate"} => Draft(b[m].w)
    BY <1>2 DEF EarlyJobs
  <2>2. job'.create = b /\ job'.pull = job.pull
    BY <1>5 DEF j, a
  <2> QED BY <2>1, <2>2 DEF EarlyJobs
<1> QED BY <1>5, <1>6, <1>7 DEF j

LEMMA ServiceFacts ==
  ASSUME IsService(svc)
  PROVE  /\ \A x : svc' = [svc EXCEPT !.handler = x] => IsService(svc') /\ svc'.subs = svc.subs
         /\ \A x : svc' = [svc EXCEPT !.polled = x] => IsService(svc') /\ svc'.subs = svc.subs
         /\ \A x : svc' = [svc EXCEPT !.subs = x] => IsService(svc') /\ svc'.subs = x
<1>1. ASSUME NEW x, svc' = [svc EXCEPT !.handler = x] PROVE IsService(svc') /\ svc'.subs = svc.subs
  <2>1. svc' = [handler |-> x, subs |-> svc.subs, polled |-> svc.polled]
    BY <1>1 DEF IsService
  <2> QED BY <2>1 DEF IsService
<1>2. ASSUME NEW x, svc' = [svc EXCEPT !.polled = x] PROVE IsService(svc') /\ svc'.subs = svc.subs
  <2>1. svc' = [handler |-> svc.handler, subs |-> svc.subs, polled |-> x]
    BY <1>2 DEF IsService
  <2> QED BY <2>1 DEF IsService
<1>3. ASSUME NEW x, svc' = [svc EXCEPT !.subs = x] PROVE IsService(svc') /\ svc'.subs = x
  <2>1. svc' = [handler |-> svc.handler, subs |-> x, polled |-> svc.polled]
    BY <1>3 DEF IsService
  <2> QED BY <2>1 DEF IsService
<1> QED BY <1>1, <1>2, <1>3

\* What is known while the recovery is entered, and while it is under way.
LEMMA EarlyFacts ==
  ASSUME RInv, Alive, Early
  PROVE  /\ Shape /\ StackInv /\ EarlyInv /\ LateInv /\ ~Late /\ Draft(wallet) /\ EarlyJobs
         /\ \E n \in 2 .. 5 : ui.stack = Flow(n) /\ Top = AllScreens[n]
         /\ Top \in {"intro", "address", "phrase", "pair"}
<1>1. Shape /\ StackInv /\ EarlyInv /\ LateInv
  BY DEF RInv
<1>2. ~Late /\ Top \in {"intro", "address", "phrase", "pair"}
  BY <1>1 DEF EarlyInv
<1>3. Draft(wallet) /\ ui.stack \in Stacks
  BY <1>1, <1>2 DEF StackInv
<1>4. EarlyJobs
  BY <1>1 DEF EarlyInv, EarlyJobs
<1>5. \/ Top = "intro" /\ ui.stack = Flow(2)
      \/ Top = "address" /\ ui.stack = Flow(3)
      \/ Top = "phrase" /\ ui.stack = Flow(4)
      \/ Top = "pair" /\ ui.stack = Flow(5)
  BY <1>2, <1>3, StackTop DEF Top
<1>6. 2 \in 2 .. 5 /\ 3 \in 2 .. 5 /\ 4 \in 2 .. 5 /\ 5 \in 2 .. 5
  OBVIOUS
<1>7. \E n \in 2 .. 5 : ui.stack = Flow(n) /\ Top = AllScreens[n]
  BY <1>5, <1>6, AllScreensFacts
<1> QED BY <1>1, <1>2, <1>3, <1>4, <1>7

LEMMA LateFacts ==
  ASSUME RInv, Alive, Late
  PROVE  /\ Shape /\ StackInv /\ EarlyInv /\ LateInv /\ ~Early /\ EarlyJobs
         /\ ui.stack = Flow(6) /\ Top = "progress" /\ ui.review = 0 /\ ui.alert = "none"
         /\ ~IsReadyToUse(wallet)
<1>1. Shape /\ StackInv /\ EarlyInv /\ LateInv
  BY DEF RInv
<1>2. ~Early /\ Top = "progress" /\ Calm
  BY <1>1 DEF EarlyInv, LateInv
<1>3. ui.stack \in Stacks /\ ~IsReadyToUse(wallet)
  BY <1>1, <1>2 DEF StackInv
<1>4. ui.stack = Flow(6)
  BY <1>2, <1>3, StackTop DEF Top
<1>5. EarlyJobs
  BY <1>1 DEF EarlyInv, EarlyJobs
<1> QED BY <1>1, <1>2, <1>3, <1>4, <1>5 DEF Calm

LEMMA ShapeOf ==
  ASSUME IsWallet(wallet'), IsJob(job)', IsUi(ui'), IsService(svc'), IsApp(app')
  PROVE  Shape'
BY DEF Shape

LEMMA FlowOneTwo == Flow(1) = <<"options">> /\ Flow(2) = <<"options", "intro">>
<1> DEFINE a == <<"options">>
           b == <<"options", "intro">>
<1>1. /\ Flow(1) \in Seq(Screen) /\ Len(Flow(1)) = 1 /\ Flow(1)[1] = "options"
      /\ Flow(2) \in Seq(Screen) /\ Len(Flow(2)) = 2 /\ Flow(2)[1] = "options"
      /\ Flow(2)[2] = "intro"
  BY FlowIs, AllScreensFacts
<1>2. /\ a \in Seq(Screen) /\ Len(a) = 1 /\ a[1] = "options"
      /\ b \in Seq(Screen) /\ Len(b) = 2 /\ b[1] = "options" /\ b[2] = "intro"
  BY DEF Screen
<1> HIDE DEF a, b
<1>3. Flow(1) = a
  BY <1>1, <1>2, SeqEqual
<1>4. \A i \in 1 .. 2 : Flow(2)[i] = b[i]
  BY <1>1, <1>2
<1>5. Flow(2) = b
  BY <1>1, <1>2, <1>4, SeqEqual
<1> QED BY <1>3, <1>5 DEF a, b

LEMMA OptionsSetup == Append(<<"options">>, "setup") = <<"options", "setup">>
<1> DEFINE s == <<"options">>
           t == <<"options", "setup">>
           e == "setup"
           u == Append(s, e)
<1>1. /\ s \in Seq(Screen) /\ Len(s) = 1 /\ s[1] = "options" /\ e \in Screen
      /\ t \in Seq(Screen) /\ Len(t) = 2 /\ t[1] = "options" /\ t[2] = e
  BY DEF Screen
<1> HIDE DEF s, t, e
<1>0. s \in Seq(Screen) /\ e \in Screen
  BY <1>1
<1>2. /\ u \in Seq(Screen) /\ Len(u) = Len(s) + 1
      /\ \A i \in 1 .. Len(s) : u[i] = s[i]
      /\ u[Len(s) + 1] = e
  BY <1>0, AppendProperties
<1> HIDE DEF u
<1>3. Len(u) = 2 /\ u[1] = "options" /\ u[2] = e
  BY <1>1, <1>2
<1>4. \A i \in 1 .. 2 : u[i] = t[i]
  BY <1>1, <1>3
<1>5. u = t
  BY <1>1, <1>2, <1>3, <1>4, SeqEqual
<1> QED BY <1>5 DEF s, t, e, u

\* The user acts on a screen on which the recovery is entered.
LEMMA UserFlow ==
  ASSUME Patient, RInv, NEW n \in 2 .. 5, UserActs(AllScreens[n])
  PROVE  /\ Alive /\ Shape /\ ui.stack = Flow(n) /\ Draft(wallet) /\ ~Late /\ ~Early /\ EarlyJobs
         /\ ui.review = 0 /\ ui.alert = "none" /\ ~CreatingNow /\ ~Pulling
         /\ job.provide = NoSafe /\ job.pair = NoOwner /\ job.cancel = 0
<1> DEFINE s == AllScreens[n]
<1>1. s \in {"intro", "address", "phrase", "pair"}
      /\ (n = 2 <=> s = "intro") /\ (n = 3 <=> s = "address") /\ (n = 4 <=> s = "phrase")
      /\ (n = 5 <=> s = "pair")
  BY AllScreensFacts
<1> HIDE DEF s
<1>2. UserActs(s)
  BY DEF s
<1>3. /\ Alive /\ Shape /\ StackInv /\ EarlyInv /\ LateInv
      /\ Top = s /\ ui.review = 0 /\ ui.alert = "none" /\ ~Early
      /\ s # "progress" => ~Late
  BY <1>2, UserFacts
<1>4. ui.stack \in Stacks /\ Draft(wallet)
  BY <1>1, <1>3 DEF StackInv
<1>5. ui.stack = Flow(n)
  BY <1>1, <1>3, <1>4, StackTop DEF Top
<1>6. EarlyJobs
  BY <1>3 DEF EarlyInv, EarlyJobs
<1> QED BY <1>1, <1>3, <1>4, <1>5, <1>6 DEF Early

LEMMA TapRecoverKeeps ==
  ASSUME Patient, RInv, TapRecover
  PROVE  RInv'
<1>1. /\ UserActs("options") /\ wallet' = RecoveryDraft /\ ui' = Push(ui, "setup")
      /\ keys' = keys /\ job' = job /\ svc' = svc /\ app' = app
  BY DEF TapRecover
<1>2. /\ Shape /\ StackInv /\ EarlyInv
      /\ Top = "options" /\ ui.review = 0 /\ ui.alert = "none" /\ ~Early /\ ~Late
  BY <1>1, UserFacts
<1>3. ui.stack = <<"options">>
  BY <1>2, StackTop, FlowOneTwo DEF StackInv, Top
<1>4. Append(ui.stack, "setup") = <<"options", "setup">>
  BY <1>3, OptionsSetup
<1>5. /\ IsUi(ui') /\ ui'.stack = <<"options", "setup">>
      /\ ui'.review = 0 /\ ui'.alert = "none"
  BY <1>1, <1>2, <1>4, PushFacts DEF Shape
<1>6. Draft(wallet') /\ ~IsReadyToUse(wallet')
  BY <1>1, RecordFacts, DraftFacts
<1>7. Shape'
  BY <1>1, <1>2, <1>5, <1>6, DraftFacts, ShapeOf DEF Shape
<1>8. PhraseForgotten'
  BY <1>6 DEF PhraseForgotten
<1>9. ~Late' /\ ~Early' /\ EarlyJobs'
  <2>1. EarlyJobs
    BY <1>2 DEF EarlyInv, EarlyJobs
  <2>2. ~Late'
    BY <1>1, <1>2 DEF Late
  <2>3. ~Early'
    BY <1>1, <1>2 DEF Early, Pulling, CreatingNow
  <2> QED BY <1>1, <2>1, <2>2, <2>3 DEF EarlyJobs
<1> HIDE DEF Shape, PhraseForgotten
<1> QED BY <1>5, <1>6, <1>7, <1>8, <1>9, EdgeKeeps

LEMMA SetUpKeeps ==
  ASSUME RInv, SetUp
  PROVE  RInv'
<1>1. Alive /\ Top = "setup"
  BY DEF SetUp
<1>2. Shape /\ StackInv /\ EarlyInv /\ LateInv
  BY <1>1 DEF RInv
<1>3. ~Late /\ ~Early /\ Draft(wallet) /\ ui.stack = <<"options", "setup">>
  BY <1>1, <1>2, StackTop DEF LateInv, EarlyInv, StackInv, Top
<1>4. ui.review = 0 /\ ui.alert = "none"
  <2>1. ui.stack = Flow(5) => Top = "pair"
    BY FlowLast, AllScreensFacts DEF Top
  <2> QED BY <1>1, <1>2, <2>1 DEF StackInv
<1>5. ~IsReadyToUse(wallet) /\ ~IsRecoveryInProgress(wallet)
  BY <1>3, DraftFacts DEF IsRecoveryInProgress
<1>6. /\ ui' = [ui EXCEPT !.stack[Len(ui.stack)] = "intro", !.fresh = TRUE]
      /\ wallet' = wallet /\ keys' = keys /\ job' = job /\ svc' = svc /\ app' = app
  BY <1>5 DEF SetUp, database
<1> DEFINE x == [ui.stack EXCEPT ![Len(ui.stack)] = "intro"]
<1>7. x = Flow(2)
  <2>1. [<<"options", "setup">> EXCEPT ![2] = "intro"] = <<"options", "intro">>
    OBVIOUS
  <2>2. Len(ui.stack) = 2
    BY <1>3
  <2> QED BY <1>3, <2>1, <2>2, FlowOneTwo
<1>8. ui' = [ui EXCEPT !.stack = x, !.fresh = TRUE]
  BY <1>6
<1> HIDE DEF x
<1>9. ui' = [stack |-> x, fresh |-> TRUE, next |-> ui.next, review |-> ui.review,
             shown |-> ui.shown, busy |-> ui.busy, alert |-> ui.alert]
  BY <1>2, <1>8 DEF Shape, IsUi
<1>10. IsUi(ui') /\ ui'.stack = Flow(2) /\ ui'.review = 0 /\ ui'.alert = "none"
  BY <1>4, <1>7, <1>9 DEF IsUi
<1>11. Shape'
  BY <1>2, <1>6, <1>10, ShapeOf DEF Shape
<1>12. ~Late' /\ EarlyJobs'
  BY <1>2, <1>3, <1>6 DEF Late, EarlyInv, EarlyJobs
<1>13. job.provide = NoSafe /\ job.pair = NoOwner
  BY <1>3 DEF Early
<1>14. 2 \in 2 .. 5
  OBVIOUS
<1>15. job'.provide = NoSafe /\ job'.pair = NoOwner /\ Draft(wallet')
  BY <1>3, <1>6, <1>13
<1> QED BY <1>10, <1>11, <1>12, <1>14, <1>15, FlowKeeps

LEMMA BackKeeps ==
  ASSUME Patient, RInv, Back
  PROVE  RInv'
<1>1. PICK screen \in {"intro", "address", "phrase", "pair", "progress"} : UserActs(screen)
  BY DEF Back
<1>2. Top = screen /\ Top # "progress"
  BY <1>1 DEF Back, UserActs
<1>3. PICK n \in 2 .. 5 : screen = AllScreens[n]
  <2>1. 2 \in 2 .. 5 /\ 3 \in 2 .. 5 /\ 4 \in 2 .. 5 /\ 5 \in 2 .. 5
    OBVIOUS
  <2> QED BY <1>2, <2>1, AllScreensFacts
<1>4. /\ Shape /\ ui.stack = Flow(n) /\ Draft(wallet) /\ ~Late /\ ~Early /\ EarlyJobs
      /\ ui.review = 0 /\ ui.alert = "none"
      /\ job.provide = NoSafe /\ job.pair = NoOwner /\ job.cancel = 0
  BY <1>1, <1>3, UserFlow
<1> DEFINE x == Front(ui.stack)
           f == ui.fresh /\ Top # "intro"
           e == job.deaf \cup ({"phrase" : y \in {job.provide} \ {NoSafe}}
                                 \cup {"pair" : y \in {job.pair} \ {NoOwner}})
<1>5. /\ ui' = [ui EXCEPT !.stack = x, !.fresh = f] /\ job' = [job EXCEPT !.deaf = e]
      /\ wallet' = wallet /\ keys' = keys /\ svc' = svc /\ app' = app
  BY DEF Back, database
<1>6. x = Flow(n - 1)
  BY <1>4, FlowFront
<1> HIDE DEF x, f, e
<1>7. ui' = [stack |-> x, fresh |-> f, next |-> ui.next, review |-> ui.review,
             shown |-> ui.shown, busy |-> ui.busy, alert |-> ui.alert]
  BY <1>4, <1>5 DEF Shape, IsUi
<1>8. IsUi(ui') /\ ui'.stack = Flow(n - 1) /\ ui'.review = 0 /\ ui'.alert = "none"
  BY <1>4, <1>6, <1>7 DEF IsUi
<1>9. job' = [pull |-> job.pull, create |-> job.create, provide |-> job.provide,
              pair |-> job.pair, deaf |-> e, cancel |-> job.cancel, resume |-> job.resume,
              notice |-> job.notice, post |-> job.post]
  BY <1>4, <1>5, JobParts DEF Shape
<1>10. /\ IsJob(job)' /\ SameWork /\ job'.provide = job.provide /\ job'.pair = job.pair
       /\ job'.cancel = job.cancel /\ job'.resume = job.resume /\ job'.notice = job.notice
       /\ job'.post = job.post
  BY <1>4, <1>9, SmallJobs DEF Shape
<1>11. EarlyJobs' /\ (Pulling' <=> Pulling) /\ (CreatingNow' <=> CreatingNow)
  BY <1>4, <1>10, SameWorkKeeps
<1>12. ~Late' /\ ~Early'
  BY <1>4, <1>5, <1>10, <1>11 DEF Late, Early
<1>13. Shape'
  BY <1>4, <1>5, <1>8, <1>10, ShapeOf DEF Shape
<1>14. Draft(wallet') /\ ~IsReadyToUse(wallet')
  BY <1>4, <1>5, DraftFacts
<1>15. CASE n = 2
  <2>1. ui'.stack = Flow(1)
    BY <1>8, <1>15
  <2>2. PhraseForgotten'
    BY <1>14 DEF PhraseForgotten
  <2> QED BY <1>8, <1>11, <1>12, <1>13, <1>14, <2>1, <2>2, EdgeKeeps
<1>16. CASE n # 2
  <2>1. n - 1 \in 2 .. 5
    BY <1>16
  <2>2. job'.provide = NoSafe /\ job'.pair = NoOwner
    BY <1>4, <1>10
  <2> QED BY <1>8, <1>11, <1>12, <1>13, <1>14, <2>1, <2>2, FlowKeeps
<1> QED BY <1>15, <1>16

LEMMA StartEntryKeeps ==
  ASSUME Patient, RInv, StartEntry
  PROVE  RInv'
<1>1. UserActs("intro")
  BY DEF StartEntry
<1>2. 2 \in 2 .. 5 /\ 3 \in 2 .. 5 /\ AllScreens[2] = "intro"
  BY AllScreensFacts
<1>3. /\ Shape /\ ui.stack = Flow(2) /\ Draft(wallet) /\ ~Late /\ EarlyJobs
      /\ ui.review = 0 /\ ui.alert = "none" /\ job.provide = NoSafe /\ job.pair = NoOwner
  BY <1>1, <1>2, UserFlow
<1> DEFINE u == Push(ui, "address")
           e == job.deaf \cup {"address"}
<1>4. /\ ui' = [u EXCEPT !.next = FALSE] /\ job' = [job EXCEPT !.deaf = e]
      /\ wallet' = wallet /\ keys' = keys /\ svc' = svc /\ app' = app
  BY DEF StartEntry, database
<1>5. IsUi(u) /\ u.stack = Append(ui.stack, "address") /\ u.review = 0 /\ u.alert = "none"
  BY <1>3, PushFacts DEF Shape
<1>6. u.stack = Flow(3)
  <2>1. 2 \in 1 .. 5 /\ AllScreens[2 + 1] = "address"
    BY AllScreensFacts
  <2>2. Append(Flow(2), AllScreens[2 + 1]) = Flow(2 + 1)
    BY <2>1, FlowAppend
  <2> QED BY <1>3, <1>5, <2>1, <2>2
<1> HIDE DEF u, e
<1>7. ui' = [stack |-> u.stack, fresh |-> u.fresh, next |-> FALSE, review |-> u.review,
             shown |-> u.shown, busy |-> u.busy, alert |-> u.alert]
  BY <1>4, <1>5 DEF IsUi
<1>8. IsUi(ui') /\ ui'.stack = Flow(3) /\ ui'.review = 0 /\ ui'.alert = "none"
  BY <1>5, <1>6, <1>7 DEF IsUi
<1>9. job' = [pull |-> job.pull, create |-> job.create, provide |-> job.provide,
              pair |-> job.pair, deaf |-> e, cancel |-> job.cancel, resume |-> job.resume,
              notice |-> job.notice, post |-> job.post]
  BY <1>3, <1>4, JobParts DEF Shape
<1>10. /\ IsJob(job)' /\ SameWork /\ job'.provide = job.provide /\ job'.pair = job.pair
       /\ job'.cancel = job.cancel /\ job'.resume = job.resume /\ job'.notice = job.notice
       /\ job'.post = job.post
  BY <1>3, <1>9, SmallJobs DEF Shape
<1>11. EarlyJobs'
  BY <1>3, <1>10, SameWorkKeeps
<1>12. ~Late' /\ Draft(wallet')
  BY <1>3, <1>4, <1>10 DEF Late
<1>13. Shape'
  BY <1>3, <1>4, <1>8, <1>10, ShapeOf DEF Shape
<1>14. job'.provide = NoSafe /\ job'.pair = NoOwner
  BY <1>3, <1>10
<1> QED BY <1>2, <1>8, <1>11, <1>12, <1>13, <1>14, FlowKeeps

LEMMA PullRecords ==
  /\ \A s : /\ IsPull([NoPull EXCEPT !.at = "check", !.addr = s])
           /\ [NoPull EXCEPT !.at = "check", !.addr = s].at = "check"
  /\ IsPull([NoPull EXCEPT !.at = "done"]) /\ [NoPull EXCEPT !.at = "done"].at = "done"
  /\ \A p, v : IsPull(p) => /\ IsPull([p EXCEPT !.at = "pull", !.w = v])
                            /\ [p EXCEPT !.at = "pull", !.w = v].w = v
<1>1. ASSUME NEW p, NEW s, p = [NoPull EXCEPT !.at = "check", !.addr = s]
      PROVE  IsPull(p) /\ p.at = "check"
  <2>1. p = [at |-> "check", addr |-> s, w |-> NoWallet]
    BY <1>1 DEF NoPull
  <2> QED BY <2>1 DEF IsPull
<1>2. ASSUME NEW p, p = [NoPull EXCEPT !.at = "done"]
      PROVE  IsPull(p) /\ p.at = "done"
  <2>1. p = [at |-> "done", addr |-> NoSafe, w |-> NoWallet]
    BY <1>2 DEF NoPull
  <2> QED BY <2>1 DEF IsPull
<1>3. ASSUME NEW p, NEW v, IsPull(p), NEW q, q = [p EXCEPT !.at = "pull", !.w = v]
      PROVE  IsPull(q) /\ q.w = v
  <2>1. q = [at |-> "pull", addr |-> p.addr, w |-> v]
    BY <1>3 DEF IsPull
  <2> QED BY <2>1 DEF IsPull
<1> QED BY <1>1, <1>2, <1>3

LEMMA CreationDone ==
  IsCreation([NoCreation EXCEPT !.at = "done"]) /\ [NoCreation EXCEPT !.at = "done"].at = "done"
<1> DEFINE c == [NoCreation EXCEPT !.at = "done"]
<1>1. c = [at |-> "done", w |-> NoWallet, calls |-> <<>>]
  BY DEF NoCreation
<1> HIDE DEF c
<1>2. IsCreation(c) /\ c.at = "done"
  BY <1>1 DEF IsCreation
<1> QED BY <1>2 DEF c

LEMMA CreationAt ==
  ASSUME NEW c, NEW x, IsCreation(c)
  PROVE  /\ IsCreation([c EXCEPT !.at = x])
         /\ [c EXCEPT !.at = x].at = x /\ [c EXCEPT !.at = x].w = c.w
<1> DEFINE d == [c EXCEPT !.at = x]
<1>1. d = [at |-> x, w |-> c.w, calls |-> c.calls]
  BY DEF IsCreation
<1> HIDE DEF d
<1>2. IsCreation(d) /\ d.at = x /\ d.w = c.w
  BY <1>1 DEF IsCreation
<1> QED BY <1>2 DEF d

LEMMA CreationWith ==
  ASSUME NEW c, NEW x, NEW v, IsCreation(c)
  PROVE  /\ IsCreation([c EXCEPT !.at = x, !.w = v])
         /\ [c EXCEPT !.at = x, !.w = v].w = v
<1> DEFINE d == [c EXCEPT !.at = x, !.w = v]
<1>0. d = [c EXCEPT !.at = x, !.w = v]
  OBVIOUS
<1> HIDE DEF d
<1>1. d = [at |-> x, w |-> v, calls |-> c.calls]
  BY <1>0 DEF IsCreation
<1>2. IsCreation(d) /\ d.w = v
  BY <1>1 DEF IsCreation
<1> QED BY <1>2 DEF d

LEMMA CreationNew ==
  ASSUME NEW x, NEW v, NEW y
  PROVE  /\ IsCreation([at |-> x, calls |-> y, w |-> v])
         /\ [at |-> x, calls |-> y, w |-> v].w = v
<1> DEFINE d == [at |-> x, calls |-> y, w |-> v]
<1>1. IsCreation(d) /\ d.w = v
  BY DEF IsCreation
<1> QED BY <1>1

LEMMA EnterAddressKeeps ==
  ASSUME Patient, RInv, NEW s \in Safe, EnterAddress(s)
  PROVE  RInv'
<1>1. UserActs("address") /\ app.entries < MaxEntries
  BY DEF EnterAddress
<1>2. 3 \in 2 .. 5 /\ AllScreens[3] = "address"
  BY AllScreensFacts
<1>3. /\ Shape /\ ui.stack = Flow(3) /\ Draft(wallet) /\ ~Late /\ EarlyJobs
      /\ ui.review = 0 /\ ui.alert = "none" /\ job.provide = NoSafe /\ job.pair = NoOwner
  BY <1>1, <1>2, UserFlow
<1> DEFINE x == [NoPull EXCEPT !.at = "check", !.addr = s]
           i == app.entries + 1
           a == [job.pull EXCEPT ![i] = x]
           e == job.deaf \ {"address"}
<1>4. /\ ui' = [ui EXCEPT !.next = FALSE] /\ job' = [job EXCEPT !.pull = a, !.deaf = e]
      /\ wallet' = wallet /\ keys' = keys /\ svc' = [svc EXCEPT !.handler = "address"]
      /\ app' = [app EXCEPT !.entries = @ + 1]
  <2>1. job' = [job EXCEPT !.pull[i] = x, !.deaf = e]
    BY DEF EnterAddress
  <2>2. job' = [job EXCEPT !.pull = a, !.deaf = e]
    BY <2>1
  <2> HIDE DEF a, i, x, e
  <2>3. ui' = [ui EXCEPT !.next = FALSE] /\ svc' = [svc EXCEPT !.handler = "address"]
        /\ app' = [app EXCEPT !.entries = @ + 1] /\ UNCHANGED <<database, world>>
    BY Zenon DEF EnterAddress
  <2> QED BY <2>2, <2>3 DEF database
<1>5. IsPull(x) /\ x.at = "check"
  BY PullRecords
<1> HIDE DEF x, i, e
<1>6. ui' = [stack |-> ui.stack, fresh |-> ui.fresh, next |-> FALSE, review |-> ui.review,
             shown |-> ui.shown, busy |-> ui.busy, alert |-> ui.alert]
  BY <1>3, <1>4 DEF Shape, IsUi
<1>7. IsUi(ui') /\ ui'.stack = ui.stack /\ ui'.review = 0 /\ ui'.alert = "none"
  BY <1>3, <1>6 DEF IsUi
<1>8. job' = [pull |-> a, create |-> job.create, provide |-> job.provide,
              pair |-> job.pair, deaf |-> e, cancel |-> job.cancel, resume |-> job.resume,
              notice |-> job.notice, post |-> job.post]
  <2> HIDE DEF a
  <2> QED BY <1>3, <1>4, JobParts DEF Shape
<1>9. IsJob(job)' /\ EarlyJobs' /\ job'.provide = NoSafe /\ job'.pair = NoOwner
      /\ job'.resume = job.resume /\ job'.notice = job.notice /\ job'.post = job.post
  <2>1. CASE i \in Entry
    BY <1>3, <1>5, <1>8, <2>1, PullJobs DEF Shape
  <2>2. CASE i \notin Entry
    <3>1. a = job.pull
      BY <1>3, <2>2, JobParts DEF Shape
    <3> HIDE DEF a
    <3>2. job' = [pull |-> job.pull, create |-> job.create, provide |-> job.provide,
                  pair |-> job.pair, deaf |-> e, cancel |-> job.cancel, resume |-> job.resume,
                  notice |-> job.notice, post |-> job.post]
      BY <1>8, <3>1
    <3>3. /\ IsJob(job)' /\ SameWork /\ job'.provide = job.provide /\ job'.pair = job.pair
          /\ job'.resume = job.resume /\ job'.notice = job.notice /\ job'.post = job.post
      BY <1>3, <3>2, SmallJobs DEF Shape
    <3> QED BY <1>3, <3>3, SameWorkKeeps
  <2> QED BY <2>1, <2>2
<1>10. IsService(svc') /\ svc'.subs = svc.subs
  BY <1>3, <1>4, ServiceFacts DEF Shape
<1>11. IsApp(app')
  <2> DEFINE z == app.entries + 1
  <2>1. app' = [app EXCEPT !.entries = z]
    BY <1>4
  <2> HIDE DEF z
  <2>2. app' = [trap |-> app.trap, entries |-> z, reviews |-> app.reviews,
                fails |-> app.fails, kills |-> app.kills]
    BY <1>3, <2>1 DEF Shape, IsApp
  <2> QED BY <2>2 DEF IsApp
<1>12. ~Late' /\ Draft(wallet')
  BY <1>3, <1>4, <1>9, <1>10 DEF Late
<1>13. Shape'
  BY <1>3, <1>4, <1>7, <1>9, <1>10, <1>11, ShapeOf DEF Shape
<1> QED BY <1>2, <1>3, <1>7, <1>9, <1>12, <1>13, FlowKeeps


\* A job of the entry goes on: the wallet remains a draft.
LEMMA EarlyStep ==
  ASSUME RInv, Alive, Early, Shape', Draft(wallet'), EarlyJobs',
         job'.resume = job.resume, job'.notice = job.notice, job'.post = job.post,
         svc'.subs = svc.subs, ui'.stack = ui.stack, ui'.review = ui.review,
         \/ ui'.alert = ui.alert
         \/ ui'.alert = "review" /\ ui.review # 0,
         job'.provide # NoSafe => job.provide # NoSafe,
         job'.pair # NoOwner => job.pair # NoOwner,
         CreatingNow' => CreatingNow
  PROVE  RInv'
<1>1. /\ Shape /\ StackInv /\ EarlyInv /\ LateInv /\ ~Late /\ Draft(wallet) /\ EarlyJobs
      /\ \E n \in 2 .. 5 : ui.stack = Flow(n) /\ Top = AllScreens[n]
      /\ Top \in {"intro", "address", "phrase", "pair"}
  BY EarlyFacts
<1>2. PICK n \in 2 .. 5 : ui.stack = Flow(n) /\ Top = AllScreens[n]
  BY <1>1
<1>3. (Top = "phrase" => n = 4) /\ (Top = "pair" => n = 5)
  BY <1>2, AllScreensFacts
<1>4. ui.review # 0 => n = 5
  <2>1. Last(Flow(5)) = "pair"
    BY FlowLast, AllScreensFacts
  <2> QED BY <1>1, <1>3, <2>1 DEF StackInv, Top
<1>5. ui'.stack = Flow(n) /\ (ui'.review # 0 => n = 5)
  BY <1>2, <1>4
<1>6. ui'.alert \in {"none", "review"} /\ (ui'.alert = "review" => ui'.review # 0)
  BY <1>1 DEF StackInv
<1>7. ~Late'
  BY <1>1 DEF Late
<1>8. job'.provide # NoSafe => n = 4 /\ Calm' /\ ~CreatingNow'
  BY <1>1, <1>3 DEF EarlyInv, Calm
<1>9. job'.pair # NoOwner => n = 5 /\ Calm' /\ ~CreatingNow'
  BY <1>1, <1>3 DEF EarlyInv, Calm
<1> QED BY <1>5, <1>6, <1>7, <1>8, <1>9, FlowKeeps

\* A pull is at work.
LEMMA PullFacts ==
  ASSUME RInv, Alive, NEW i \in Entry, job.pull[i].at \in {"check", "pull"}
  PROVE  Early /\ Shape /\ Draft(wallet) /\ EarlyJobs /\ IsPull(job.pull[i])
<1>1. Early
  BY DEF Early, Pulling
<1>2. Shape /\ Draft(wallet) /\ EarlyJobs
  BY <1>1, EarlyFacts
<1> QED BY <1>1, <1>2, JobParts DEF Shape

LEMMA PullStep ==
  ASSUME RInv, Alive, NEW i \in Entry, job.pull[i].at \in {"check", "pull"},
         NEW x, IsPull(x), x.at = "pull" => Draft(x.w),
         job' = [job EXCEPT !.pull[i] = x], Draft(wallet'), svc' = svc,
         IsApp(app'), IsUi(ui'), ui'.stack = ui.stack, ui'.review = ui.review,
         ui'.alert = ui.alert
  PROVE  RInv'
<1>1. Early /\ Shape /\ Draft(wallet) /\ EarlyJobs
  BY PullFacts
<1> DEFINE a == [job.pull EXCEPT ![i] = x]
<1>2. job' = [job EXCEPT !.pull = a]
  OBVIOUS
<1>3. job' = [pull |-> a, create |-> job.create, provide |-> job.provide,
              pair |-> job.pair, deaf |-> job.deaf, cancel |-> job.cancel, resume |-> job.resume,
              notice |-> job.notice, post |-> job.post]
  <2> HIDE DEF a
  <2> QED BY <1>1, <1>2, JobParts DEF Shape
<1>4. /\ IsJob(job)' /\ EarlyJobs' /\ (CreatingNow' <=> CreatingNow)
      /\ job'.provide = job.provide /\ job'.pair = job.pair
      /\ job'.resume = job.resume /\ job'.notice = job.notice /\ job'.post = job.post
  BY <1>1, <1>3, PullJobs DEF Shape
<1>5. Shape'
  BY <1>1, <1>4, DraftFacts, ShapeOf DEF Shape
<1> QED BY <1>1, <1>4, <1>5, EarlyStep

LEMMA ChangeAddressKeeps ==
  ASSUME RInv, NEW i \in Entry, ChangeAddress(i)
  PROVE  RInv'
<1>1. Alive /\ job.pull[i].at = "check"
  BY DEF ChangeAddress
<1>2. Early /\ Shape /\ Draft(wallet) /\ EarlyJobs /\ IsPull(job.pull[i])
  BY <1>1, PullFacts
<1>3. CanChangeAddress(wallet)
  BY <1>2, DraftFacts DEF CanChangeAddress
<1> DEFINE w == [wallet EXCEPT !.addr = job.pull[i].addr]
           x == [job.pull[i] EXCEPT !.at = "pull", !.w = w]
           m == ui.next \/ "address" \notin job.deaf
<1>4. /\ wallet' = w /\ app' = app /\ svc' = svc
      /\ job' = [job EXCEPT !.pull[i] = x] /\ ui' = [ui EXCEPT !.next = m]
  BY <1>3 DEF ChangeAddress
<1>5. Draft(w)
  <2>1. IsWallet(w) /\ w.state = wallet.state
    BY <1>2, DraftFacts, WalletFacts
  <2> HIDE DEF w
  <2> QED BY <1>2, <2>1 DEF Draft
<1> HIDE DEF w, m
<1>6. IsPull(x) /\ x.w = w
  BY <1>2, PullRecords
<1> HIDE DEF x
<1>7. ui' = [stack |-> ui.stack, fresh |-> ui.fresh, next |-> m, review |-> ui.review,
             shown |-> ui.shown, busy |-> ui.busy, alert |-> ui.alert]
  BY <1>2, <1>4 DEF Shape, IsUi
<1>8. IsUi(ui') /\ ui'.stack = ui.stack /\ ui'.review = ui.review /\ ui'.alert = ui.alert
  BY <1>7 DEF IsUi
<1>9. IsApp(app') /\ Draft(wallet')
  BY <1>2, <1>4, <1>5 DEF Shape
<1> QED BY <1>1, <1>4, <1>5, <1>6, <1>8, <1>9, PullStep

LEMMA PullWalletDataKeeps ==
  ASSUME RInv, NEW i \in Entry, PullWalletData(i)
  PROVE  RInv'
<1>1. Alive /\ job.pull[i].at = "pull"
  BY DEF PullWalletData
<1>2. Early /\ Shape /\ Draft(wallet) /\ EarlyJobs /\ IsPull(job.pull[i])
  BY <1>1, PullFacts
<1> DEFINE w == job.pull[i].w
           a == w.unknown \cup RemoteOwners(w.addr)
           n == chain[w.addr].safe.threshold
           v == [w EXCEPT !.unknown = a]
           x == [NoPull EXCEPT !.at = "done"]
<1>3. /\ wallet' = [v EXCEPT !.count = n] /\ app' = app /\ svc' = svc /\ ui' = ui
      /\ job' = [job EXCEPT !.pull[i] = x]
  BY DEF PullWalletData
<1>4. Draft(w)
  BY <1>1, <1>2 DEF EarlyJobs
<1> HIDE DEF w, a, n
<1>5. IsWallet(v) /\ v.state = w.state
  BY <1>4, DraftFacts, WalletFacts
<1> HIDE DEF v
<1>6. IsWallet(wallet') /\ wallet'.state = v.state
  BY <1>3, <1>5, WalletFacts
<1>7. Draft(wallet')
  BY <1>4, <1>5, <1>6 DEF Draft
<1>8. IsPull(x) /\ x.at = "done"
  BY PullRecords
<1> HIDE DEF x
<1>9. IsApp(app') /\ IsUi(ui')
  BY <1>2, <1>3 DEF Shape
<1> QED BY <1>1, <1>3, <1>7, <1>8, <1>9, PullStep

LEMMA AddressFailsKeeps ==
  ASSUME RInv, NEW i \in Entry, AddressFails(i)
  PROVE  RInv'
<1> DEFINE x == [NoPull EXCEPT !.at = "done"]
<1>1. Alive /\ job.pull[i].at \in {"check", "pull"} /\ Fail
      /\ wallet' = wallet /\ ui' = ui /\ svc' = svc /\ job' = [job EXCEPT !.pull[i] = x]
  BY DEF AddressFails, database
<1>2. Shape /\ Draft(wallet)
  BY <1>1, PullFacts
<1>3. IsPull(x) /\ x.at = "done"
  BY PullRecords
<1> HIDE DEF x
<1>4. IsApp(app') /\ IsUi(ui') /\ Draft(wallet')
  BY <1>1, <1>2, AppFacts DEF Shape
<1> QED BY <1>1, <1>3, <1>4, PullStep

LEMMA NextAddressKeeps ==
  ASSUME Patient, RInv, NextAddress
  PROVE  RInv'
<1>1. /\ UserActs("address") /\ ui' = Push(ui, "phrase")
      /\ wallet' = wallet /\ job' = job /\ svc' = svc /\ app' = app
  BY DEF NextAddress, database
<1>2. 3 \in 2 .. 5 /\ 4 \in 2 .. 5 /\ AllScreens[3] = "address"
  BY AllScreensFacts
<1>3. /\ Shape /\ ui.stack = Flow(3) /\ Draft(wallet) /\ ~Late /\ EarlyJobs
      /\ ui.review = 0 /\ ui.alert = "none" /\ job.provide = NoSafe /\ job.pair = NoOwner
  BY <1>1, <1>2, UserFlow
<1>4. /\ IsUi(ui') /\ ui'.stack = Append(ui.stack, "phrase") /\ ui'.review = 0
      /\ ui'.alert = "none"
  BY <1>1, <1>3, PushFacts DEF Shape
<1>5. ui'.stack = Flow(4)
  <2>1. 3 \in 1 .. 5 /\ AllScreens[3 + 1] = "phrase"
    BY AllScreensFacts
  <2>2. Append(Flow(3), AllScreens[3 + 1]) = Flow(3 + 1)
    BY <2>1, FlowAppend
  <2> QED BY <1>3, <1>4, <2>1, <2>2
<1>6. Shape'
  BY <1>1, <1>3, <1>4, ShapeOf DEF Shape
<1>7. ~Late' /\ EarlyJobs' /\ Draft(wallet') /\ job'.provide = NoSafe /\ job'.pair = NoOwner
  BY <1>1, <1>3 DEF Late, EarlyJobs
<1> QED BY <1>2, <1>4, <1>5, <1>6, <1>7, FlowKeeps

LEMMA EnterPhraseKeeps ==
  ASSUME Patient, RInv, NEW s \in Safe, EnterPhrase(s)
  PROVE  RInv'
<1>1. /\ UserActs("phrase") /\ job' = [job EXCEPT !.provide = s]
      /\ svc' = [svc EXCEPT !.handler = "phrase"]
      /\ wallet' = wallet /\ ui' = ui /\ app' = app
  BY DEF EnterPhrase, database
<1>2. 4 \in 2 .. 5 /\ AllScreens[4] = "phrase"
  BY AllScreensFacts
<1>3. /\ Shape /\ ui.stack = Flow(4) /\ Draft(wallet) /\ ~Late /\ EarlyJobs /\ ~CreatingNow
      /\ ui.review = 0 /\ ui.alert = "none" /\ job.pair = NoOwner
  BY <1>1, <1>2, UserFlow
<1>4. job' = [pull |-> job.pull, create |-> job.create, provide |-> s,
              pair |-> job.pair, deaf |-> job.deaf, cancel |-> job.cancel,
              resume |-> job.resume, notice |-> job.notice, post |-> job.post]
  BY <1>1, <1>3, JobParts DEF Shape
<1>5. /\ IsJob(job)' /\ SameWork /\ job'.pair = job.pair
      /\ job'.resume = job.resume /\ job'.notice = job.notice /\ job'.post = job.post
  BY <1>3, <1>4, SmallJobs DEF Shape
<1>6. IsService(svc') /\ svc'.subs = svc.subs
  BY <1>1, <1>3, ServiceFacts DEF Shape
<1>7. Shape'
  BY <1>1, <1>3, <1>5, <1>6, ShapeOf DEF Shape
<1>8. EarlyJobs' /\ ~CreatingNow'
  BY <1>3, <1>5, SameWorkKeeps
<1>9. ~Late' /\ Draft(wallet') /\ Calm' /\ job'.pair = NoOwner
  BY <1>1, <1>3, <1>5, <1>6 DEF Late, Calm
<1>10. ui'.stack = Flow(4) /\ ui'.review = 0 /\ ui'.alert = "none"
  BY <1>1, <1>3
<1> QED BY <1>2, <1>7, <1>8, <1>9, <1>10, FlowKeeps

LEMMA ProvideKeeps ==
  ASSUME RInv, Provide
  PROVE  RInv'
<1>1. Alive /\ job.provide # NoSafe
  BY DEF Provide
<1>2. Early
  BY <1>1 DEF Early
<1>3. Shape /\ StackInv /\ EarlyInv /\ ~Late /\ Draft(wallet) /\ EarlyJobs
  BY <1>1, <1>2, EarlyFacts
<1>4. Top = "phrase" /\ Calm /\ ~CreatingNow /\ job.pair = NoOwner
  BY <1>1, <1>3 DEF EarlyInv
<1>5. ui.stack = Flow(4)
  BY <1>3, <1>4, StackTop DEF StackInv, Top
<1>6. CanChangeOwners(wallet)
  BY <1>3, DraftFacts DEF CanChangeOwners
<1> DEFINE ok == PhraseOwners(job.provide) \subseteq wallet.unknown
           e == job.deaf \ {"phrase"}
<1>7. /\ wallet' = IF ok THEN [wallet EXCEPT !.phrase = job.provide] ELSE wallet
      /\ ui' = IF ok /\ "phrase" \notin job.deaf THEN Push(ui, "pair") ELSE ui
      /\ job' = [job EXCEPT !.provide = NoSafe, !.deaf = e]
      /\ app' = app /\ svc' = svc
  BY <1>6 DEF Provide
<1> HIDE DEF ok, e
<1>8. Draft(wallet')
  <2>1. CASE ok
    <3>1. IsWallet([wallet EXCEPT !.phrase = job.provide])
          /\ [wallet EXCEPT !.phrase = job.provide].state = wallet.state
      BY <1>3, DraftFacts, WalletFacts
    <3>2. wallet' = [wallet EXCEPT !.phrase = job.provide]
      BY <1>7, <2>1
    <3>3. IsWallet(wallet') /\ wallet'.state = wallet.state
      BY <3>1, <3>2
    <3> QED BY <1>3, <3>3 DEF Draft
  <2>2. CASE ~ok
    BY <1>3, <1>7, <2>2
  <2> QED BY <2>1, <2>2
<1>9. job' = [pull |-> job.pull, create |-> job.create, provide |-> NoSafe,
              pair |-> job.pair, deaf |-> e, cancel |-> job.cancel,
              resume |-> job.resume, notice |-> job.notice, post |-> job.post]
  BY <1>3, <1>7, JobParts DEF Shape
<1>10. /\ IsJob(job)' /\ SameWork /\ job'.provide = NoSafe /\ job'.pair = NoOwner
       /\ job'.resume = job.resume /\ job'.notice = job.notice /\ job'.post = job.post
  BY <1>3, <1>4, <1>9, SmallJobs DEF Shape
<1>11. EarlyJobs' /\ ~Late'
  BY <1>3, <1>7, <1>10, SameWorkKeeps DEF Late
<1>12. IsUi(ui') /\ ui'.review = 0 /\ ui'.alert = "none" /\ (ui'.stack = Flow(4) \/ ui'.stack = Flow(5))
  <2>1. /\ IsUi(Push(ui, "pair")) /\ Push(ui, "pair").stack = Append(ui.stack, "pair")
        /\ Push(ui, "pair").review = 0 /\ Push(ui, "pair").alert = "none"
    BY <1>3, <1>4, PushFacts DEF Shape, Calm
  <2>2. Append(ui.stack, "pair") = Flow(5)
    <3>1. 4 \in 1 .. 5 /\ AllScreens[4 + 1] = "pair"
      BY AllScreensFacts
    <3>2. Append(Flow(4), AllScreens[4 + 1]) = Flow(4 + 1)
      BY <3>1, FlowAppend
    <3> QED BY <1>5, <3>1, <3>2
  <2>3. IsUi(ui) /\ ui.review = 0 /\ ui.alert = "none"
    BY <1>3, <1>4 DEF Shape, Calm
  <2> QED BY <1>5, <1>7, <2>1, <2>2, <2>3
<1>13. Shape'
  BY <1>3, <1>7, <1>8, <1>10, <1>12, DraftFacts, ShapeOf DEF Shape
<1>14. 4 \in 2 .. 5 /\ 5 \in 2 .. 5
  OBVIOUS
<1> QED BY <1>8, <1>10, <1>11, <1>12, <1>13, <1>14, FlowKeeps

LEMMA ScanKeeps ==
  ASSUME Patient, RInv, NEW s, Scan(s)
  PROVE  RInv'
<1>1. /\ UserActs("pair") /\ job' = [job EXCEPT !.pair = s]
      /\ wallet' = wallet /\ ui' = ui /\ app' = app /\ svc' = svc
  BY DEF Scan, database
<1>2. 5 \in 2 .. 5 /\ AllScreens[5] = "pair"
  BY AllScreensFacts
<1>3. /\ Shape /\ ui.stack = Flow(5) /\ Draft(wallet) /\ ~Late /\ EarlyJobs /\ ~CreatingNow
      /\ ui.review = 0 /\ ui.alert = "none" /\ job.provide = NoSafe
  BY <1>1, <1>2, UserFlow
<1>4. job' = [pull |-> job.pull, create |-> job.create, provide |-> job.provide,
              pair |-> s, deaf |-> job.deaf, cancel |-> job.cancel,
              resume |-> job.resume, notice |-> job.notice, post |-> job.post]
  BY <1>1, <1>3, JobParts DEF Shape
<1>5. /\ IsJob(job)' /\ SameWork /\ job'.provide = NoSafe
      /\ job'.resume = job.resume /\ job'.notice = job.notice /\ job'.post = job.post
  BY <1>3, <1>4, SmallJobs DEF Shape
<1>6. Shape'
  BY <1>1, <1>3, <1>5, ShapeOf DEF Shape
<1>7. EarlyJobs' /\ ~CreatingNow'
  BY <1>3, <1>5, SameWorkKeeps
<1>8. ~Late' /\ Draft(wallet') /\ Calm'
  BY <1>1, <1>3, <1>5 DEF Late, Calm
<1>9. ui'.stack = Flow(5) /\ ui'.review = 0 /\ ui'.alert = "none"
  BY <1>1, <1>3
<1> QED BY <1>2, <1>5, <1>6, <1>7, <1>8, <1>9, FlowKeeps

\* The review screen opens and its creation begins.
LEMMA ReviewKeeps ==
  ASSUME Shape, Draft(wallet), EarlyJobs, ~Late, ui.stack = Flow(5), Calm, job.provide = NoSafe,
         NEW e, NEW v, wallet' = [wallet EXCEPT !.ext = v], ui' = OpenReview(ui),
         job' = Creating([job EXCEPT !.pair = NoOwner, !.deaf = e]),
         app' = Reviewed, svc' = svc
  PROVE  RInv'
<1> DEFINE k == app.reviews + 1
           x == [job.create[k] EXCEPT !.at = "begin"]
           b == [job.create EXCEPT ![k] = x]
           j == [job EXCEPT !.pair = NoOwner, !.deaf = e]
<1>0. j = [job EXCEPT !.pair = NoOwner, !.deaf = e]
  OBVIOUS
<1>1. j = [pull |-> job.pull, create |-> job.create, provide |-> job.provide,
           pair |-> NoOwner, deaf |-> e, cancel |-> job.cancel,
           resume |-> job.resume, notice |-> job.notice, post |-> job.post]
  <2> HIDE DEF j
  <2> QED BY <1>0, JobParts DEF Shape
<1>2. job' = [j EXCEPT !.create[k].at = "begin"]
  BY DEF Creating
<1> HIDE DEF j, k
<1>3. job' = [j EXCEPT !.create = b]
  <2>1. j.create = job.create
    BY <1>1
  <2>2. [j EXCEPT !.create[k].at = "begin"]
          = [j EXCEPT !.create = [j.create EXCEPT ![k] = [j.create[k] EXCEPT !.at = "begin"]]]
    OBVIOUS
  <2> QED BY <1>2, <2>1, <2>2
<1> HIDE DEF x
<1>4. job' = [pull |-> job.pull, create |-> b, provide |-> job.provide,
              pair |-> NoOwner, deaf |-> e, cancel |-> job.cancel,
              resume |-> job.resume, notice |-> job.notice, post |-> job.post]
  <2> HIDE DEF b
  <2> QED BY <1>1, <1>3
<1>5. IsJob(job)' /\ EarlyJobs' /\ job'.provide = NoSafe /\ job'.pair = NoOwner
      /\ job'.resume = job.resume /\ job'.notice = job.notice /\ job'.post = job.post
  <2>1. CASE k \in Id
    <3>1. IsCreation(x) /\ x.at = "begin"
      BY <2>1, JobParts, CreationAt DEF Shape, x
    <3> QED BY <1>4, <2>1, <3>1, CreateJobs DEF Shape
  <2>2. CASE k \notin Id
    <3>1. b = job.create
      BY <2>2, JobParts DEF Shape
    <3> HIDE DEF b
    <3>2. job' = [pull |-> job.pull, create |-> job.create, provide |-> job.provide,
                  pair |-> NoOwner, deaf |-> e, cancel |-> job.cancel,
                  resume |-> job.resume, notice |-> job.notice, post |-> job.post]
      BY <1>4, <3>1
    <3>3. /\ IsJob(job)' /\ SameWork /\ job'.provide = job.provide /\ job'.pair = NoOwner
          /\ job'.resume = job.resume /\ job'.notice = job.notice /\ job'.post = job.post
      BY <3>2, SmallJobs DEF Shape
    <3> QED BY <3>3, SameWorkKeeps
  <2> QED BY <2>1, <2>2
<1>6. IsUi(ui') /\ ui'.stack = Flow(5) /\ ui'.alert = "none"
  <2>1. ui' = [ui EXCEPT !.review = k, !.busy = TRUE]
    BY DEF OpenReview, k
  <2>2. ui' = [stack |-> ui.stack, fresh |-> ui.fresh, next |-> ui.next, review |-> k,
               shown |-> ui.shown, busy |-> TRUE, alert |-> ui.alert]
    BY <2>1 DEF Shape, IsUi
  <2> QED BY <2>2 DEF IsUi, Calm
<1>7. Draft(wallet')
  <2>1. IsWallet(wallet') /\ wallet'.state = wallet.state
    BY DraftFacts, WalletFacts
  <2> QED BY <2>1 DEF Draft
<1>8. IsApp(app') /\ IsService(svc')
  BY AppFacts DEF Shape
<1>9. Shape'
  BY <1>5, <1>6, <1>7, <1>8, DraftFacts, ShapeOf
<1>10. ~Late' /\ 5 \in 2 .. 5
  BY <1>5 DEF Late
<1> QED BY <1>5, <1>6, <1>7, <1>9, <1>10, FlowKeeps

LEMMA PairingFacts ==
  ASSUME RInv, Alive, job.pair # NoOwner
  PROVE  /\ Early /\ Shape /\ Draft(wallet) /\ EarlyJobs /\ ~Late /\ ui.stack = Flow(5) /\ Calm
         /\ job.provide = NoSafe
<1>1. Early
  BY DEF Early
<1>2. Shape /\ StackInv /\ EarlyInv /\ ~Late /\ Draft(wallet) /\ EarlyJobs
  BY <1>1, EarlyFacts
<1>3. Top = "pair" /\ Calm /\ job.provide = NoSafe
  BY <1>2 DEF EarlyInv
<1>4. ui.stack = Flow(5)
  BY <1>2, <1>3, StackTop DEF StackInv, Top
<1> QED BY <1>1, <1>2, <1>3, <1>4

\* The pairing ends and the screen stays as it is.
LEMMA PairingEnds ==
  ASSUME RInv, Alive, job.pair # NoOwner, NEW e,
         job' = [job EXCEPT !.pair = NoOwner, !.deaf = e], Draft(wallet'), ui' = ui, svc' = svc,
         IsApp(app')
  PROVE  RInv'
<1>1. Early /\ Shape /\ EarlyJobs
  BY PairingFacts
<1>2. job' = [pull |-> job.pull, create |-> job.create, provide |-> job.provide,
              pair |-> NoOwner, deaf |-> e, cancel |-> job.cancel,
              resume |-> job.resume, notice |-> job.notice, post |-> job.post]
  BY <1>1, JobParts DEF Shape
<1>3. /\ IsJob(job)' /\ SameWork /\ job'.provide = job.provide /\ job'.pair = NoOwner
      /\ job'.resume = job.resume /\ job'.notice = job.notice /\ job'.post = job.post
  BY <1>1, <1>2, SmallJobs DEF Shape
<1>4. EarlyJobs' /\ (CreatingNow' => CreatingNow)
  BY <1>1, <1>3, SameWorkKeeps
<1>5. Shape'
  BY <1>1, <1>3, DraftFacts, ShapeOf DEF Shape
<1>6. /\ ui'.stack = ui.stack /\ ui'.review = ui.review /\ ui'.alert = ui.alert
      /\ svc'.subs = svc.subs
  OBVIOUS
<1> QED BY <1>1, <1>3, <1>4, <1>5, <1>6, EarlyStep

LEMMA PairedKeeps ==
  ASSUME RInv, Paired
  PROVE  RInv'
<1>1. Alive /\ job.pair # NoOwner
  BY DEF Paired
<1>2. /\ Early /\ Shape /\ Draft(wallet) /\ EarlyJobs /\ ~Late /\ ui.stack = Flow(5) /\ Calm
      /\ job.provide = NoSafe
  BY <1>1, PairingFacts
<1>3. CanChangeOwners(wallet)
  BY <1>2, DraftFacts DEF CanChangeOwners
<1> DEFINE e == job.deaf \ {"pair"}
           j == [job EXCEPT !.pair = NoOwner, !.deaf = e]
           shows == "pair" \notin job.deaf
<1>4. /\ wallet' = [wallet EXCEPT !.ext = job.pair]
      /\ ui' = IF shows THEN OpenReview(ui) ELSE ui
      /\ job' = IF shows THEN Creating(j) ELSE j
      /\ app' = IF shows THEN Reviewed ELSE app
      /\ svc' = svc
  BY <1>3 DEF Paired
<1> HIDE DEF e, shows
<1>5. CASE shows
  <2>1. ui' = OpenReview(ui) /\ job' = Creating(j) /\ app' = Reviewed
    BY <1>4, <1>5
  <2> QED BY <1>2, <1>4, <2>1, ReviewKeeps
<1>6. CASE ~shows
  <2>1. ui' = ui /\ job' = j /\ app' = app
    BY <1>4, <1>6
  <2>2. IsWallet(wallet') /\ wallet'.state = wallet.state
    BY <1>2, <1>4, DraftFacts, WalletFacts
  <2>3. Draft(wallet') /\ IsApp(app')
    BY <1>2, <2>1, <2>2 DEF Draft, Shape
  <2> QED BY <1>1, <1>4, <2>1, <2>3, PairingEnds
<1> QED BY <1>5, <1>6

LEMMA PairFailsKeeps ==
  ASSUME RInv, PairFails
  PROVE  RInv'
<1> DEFINE e == job.deaf \ {"pair"}
<1>1. /\ Alive /\ job.pair # NoOwner /\ Fail /\ job' = [job EXCEPT !.pair = NoOwner, !.deaf = e]
      /\ wallet' = wallet /\ ui' = ui /\ svc' = svc
  BY DEF PairFails, database
<1>2. Shape /\ Draft(wallet)
  BY <1>1, PairingFacts
<1>3. IsApp(app') /\ Draft(wallet')
  BY <1>1, <1>2, AppFacts DEF Shape
<1> HIDE DEF e
<1> QED BY <1>1, <1>3, PairingEnds

LEMMA SkipKeeps ==
  ASSUME Patient, RInv, Skip
  PROVE  RInv'
<1>1. UserActs("pair") /\ svc' = svc
  BY DEF Skip
<1>2. 5 \in 2 .. 5 /\ AllScreens[5] = "pair"
  BY AllScreensFacts
<1>3. /\ Shape /\ ui.stack = Flow(5) /\ Draft(wallet) /\ ~Late /\ EarlyJobs
      /\ ui.review = 0 /\ ui.alert = "none" /\ job.provide = NoSafe /\ job.pair = NoOwner
  BY <1>1, <1>2, UserFlow
<1>4. CanChangeOwners(wallet) /\ Calm
  BY <1>3, DraftFacts DEF CanChangeOwners, Calm
<1>5. /\ wallet' = [wallet EXCEPT !.ext = NoOwner] /\ ui' = OpenReview(ui)
      /\ job' = Creating(job) /\ app' = Reviewed
  BY <1>4 DEF Skip
<1> DEFINE e == job.deaf
           j == [job EXCEPT !.pair = NoOwner, !.deaf = e]
<1>6. j = job
  <2>1. j = [job EXCEPT !.pair = NoOwner, !.deaf = e]
    OBVIOUS
  <2> HIDE DEF j
  <2>2. job = [pull |-> job.pull, create |-> job.create, provide |-> job.provide,
               pair |-> NoOwner, deaf |-> job.deaf, cancel |-> job.cancel,
               resume |-> job.resume, notice |-> job.notice, post |-> job.post]
    BY <1>3, JobParts DEF Shape
  <2>3. j = [pull |-> job.pull, create |-> job.create, provide |-> job.provide,
             pair |-> NoOwner, deaf |-> e, cancel |-> job.cancel,
             resume |-> job.resume, notice |-> job.notice, post |-> job.post]
    <3> HIDE DEF e
    <3> QED BY <1>3, <2>1, JobParts DEF Shape
  <2> QED BY <2>2, <2>3, Zenon
<1>7. job' = Creating(j)
  BY <1>5, <1>6
<1> HIDE DEF e
<1> QED BY <1>1, <1>3, <1>4, <1>5, <1>7, ReviewKeeps

\* A creation is at work.
LEMMA CreatingFacts ==
  ASSUME RInv, Alive, NEW k \in Id, job.create[k].at \in {"begin", "pull", "estimate"}
  PROVE  /\ Early /\ CreatingNow /\ Shape /\ Draft(wallet) /\ EarlyJobs /\ IsCreation(job.create[k])
         /\ job.create[k].at \in {"pull", "estimate"} => Draft(job.create[k].w)
<1>1. Early /\ CreatingNow
  BY DEF Early, CreatingNow
<1>2. Shape /\ Draft(wallet) /\ EarlyJobs
  BY <1>1, EarlyFacts
<1> QED BY <1>1, <1>2, JobParts DEF Shape, EarlyJobs

LEMMA CreateStep ==
  ASSUME RInv, Alive, NEW k \in Id, job.create[k].at \in {"begin", "pull", "estimate"},
         NEW x, IsCreation(x), x.at \in {"pull", "estimate"} => Draft(x.w),
         job' = [job EXCEPT !.create[k] = x], Draft(wallet'), IsService(svc'), svc'.subs = svc.subs,
         IsApp(app'), IsUi(ui'), ui'.stack = ui.stack, ui'.review = ui.review,
         \/ ui'.alert = ui.alert
         \/ ui'.alert = "review" /\ ui.review # 0
  PROVE  RInv'
<1>1. Early /\ CreatingNow /\ Shape /\ Draft(wallet) /\ EarlyJobs
  BY CreatingFacts
<1> DEFINE b == [job.create EXCEPT ![k] = x]
<1>2. job' = [job EXCEPT !.create = b]
  OBVIOUS
<1>3. job' = [pull |-> job.pull, create |-> b, provide |-> job.provide,
              pair |-> job.pair, deaf |-> job.deaf, cancel |-> job.cancel, resume |-> job.resume,
              notice |-> job.notice, post |-> job.post]
  <2> HIDE DEF b
  <2> QED BY <1>1, <1>2, JobParts DEF Shape
<1>4. /\ IsJob(job)' /\ EarlyJobs' /\ job'.provide = job.provide /\ job'.pair = job.pair
      /\ job'.resume = job.resume /\ job'.notice = job.notice /\ job'.post = job.post
  BY <1>1, <1>3, CreateJobs DEF Shape
<1>5. Shape'
  BY <1>1, <1>4, DraftFacts, ShapeOf DEF Shape
<1> QED BY <1>1, <1>4, <1>5, EarlyStep

\* The process ends while the wallet is a draft.
LEMMA TrapKeeps ==
  ASSUME Shape, Draft(wallet), NEW x, x # "no", Trap(x), wallet' = wallet, ui' = ui, job' = job,
         IsService(svc')
  PROVE  RInv'
<1>1. IsApp(app') /\ app'.trap = x
  BY AppFacts DEF Shape
<1>2. Shape'
  BY <1>1, ShapeOf DEF Shape
<1>3. PhraseForgotten'
  BY DraftFacts DEF PhraseForgotten
<1>4. ~Alive'
  BY <1>1 DEF Alive
<1> QED BY <1>2, <1>3, <1>4, DeadKeeps

\* An error that is shown while a recovery is entered is the review screen's.
LEMMA EarlyError ==
  ASSUME RInv, Alive, Early, ui' = ErrorShown(ui)
  PROVE  /\ IsUi(ui') /\ ui'.stack = ui.stack /\ ui'.review = ui.review
         /\ \/ ui'.alert = ui.alert
            \/ ui'.alert = "review" /\ ui.review # 0
<1>1. IsUi(ui) /\ Top \in {"intro", "address", "phrase", "pair"}
  BY EarlyFacts DEF Shape
<1>2. Top # "progress"
  BY <1>1
<1> QED BY <1>1, <1>2, ErrorFacts

LEMMA CreateBeginKeeps ==
  ASSUME RInv, NEW k \in Id, CreateBegin(k)
  PROVE  RInv'
<1>1. /\ Alive /\ job.create[k].at = "begin" /\ svc' = [svc EXCEPT !.handler = "review"]
      /\ wallet' = wallet /\ keys' = keys /\ ui' = ui
  BY DEF CreateBegin
<1>2. /\ Early /\ CreatingNow /\ Shape /\ Draft(wallet) /\ EarlyJobs /\ IsCreation(job.create[k])
  BY <1>1, CreatingFacts
<1>3. IsService(svc') /\ svc'.subs = svc.subs
  BY <1>1, <1>2, ServiceFacts DEF Shape
<1> DEFINE v == [wallet EXCEPT !.unknown = {}]
           x == [job.create[k] EXCEPT !.at = "pull", !.w = v]
<1>4. \/ Trap("address") /\ job' = job
      \/ Trap("owners") /\ job' = job
      \/ Trap("unknown") /\ job' = job
      \/ job' = [job EXCEPT !.create[k] = x] /\ app' = app
  BY DEF CreateBegin
<1>5. CASE job' = job /\ (Trap("address") \/ Trap("owners") \/ Trap("unknown"))
  BY <1>1, <1>2, <1>3, <1>5, TrapKeeps
<1>6. CASE job' = [job EXCEPT !.create[k] = x] /\ app' = app
  <2>1. IsWallet(v) /\ v.state = wallet.state
    BY <1>2, DraftFacts, WalletFacts
  <2> HIDE DEF v
  <2>2. Draft(v)
    BY <1>2, <2>1 DEF Draft
  <2>3. IsCreation(x) /\ x.w = v
    BY <1>2, CreationWith
  <2> HIDE DEF x
  <2>4. Draft(wallet') /\ IsApp(app') /\ IsUi(ui') /\ ui'.stack = ui.stack
        /\ ui'.review = ui.review /\ ui'.alert = ui.alert
    BY <1>1, <1>2, <1>6 DEF Shape
  <2> QED BY <1>1, <1>3, <1>6, <2>2, <2>3, <2>4, CreateStep
<1> QED BY <1>4, <1>5, <1>6

LEMMA CreatePullKeeps ==
  ASSUME RInv, NEW k \in Id, CreatePull(k)
  PROVE  RInv'
<1>1. /\ Alive /\ job.create[k].at = "pull"
      /\ wallet' = wallet /\ keys' = keys /\ svc' = svc
  BY DEF CreatePull, database
<1>2. /\ Early /\ CreatingNow /\ Shape /\ Draft(wallet) /\ EarlyJobs /\ IsCreation(job.create[k])
      /\ Draft(job.create[k].w)
  BY <1>1, CreatingFacts
<1> DEFINE w == job.create[k].w
           sf == chain[w.addr].safe
           bd == RecoveryData(sf, Device, w.ext, w.phrase)
           o == ToSet(sf.owners)
           v == [w EXCEPT !.unknown = o]
           c == bd.count
           z == [v EXCEPT !.count = c]
           x == [at |-> "estimate", calls |-> bd.calls, w |-> z]
           y == [job.create[k] EXCEPT !.at = "done"]
<1>3. \/ /\ job' = [job EXCEPT !.create[k] = x]
         /\ (ui' = ui /\ app' = app) \/ (Fail /\ ui' = ErrorShown(ui))
      \/ /\ job' = [job EXCEPT !.create[k].at = "done"]
         /\ ui' = ErrorShown(ui) /\ app' = app
  <2>1. z = [w EXCEPT !.unknown = o, !.count = c]
    OBVIOUS
  <2>2. CASE /\ job' = [job EXCEPT !.create[k] =
                          [at |-> "estimate", calls |-> bd.calls,
                           w |-> [w EXCEPT !.unknown = o, !.count = c]]]
             /\ (ui' = ui /\ app' = app) \/ (Fail /\ ui' = ErrorShown(ui))
    <3> HIDE DEF z, o, bd, c, w
    <3> QED BY <2>1, <2>2
  <2>3. CASE /\ job' = [job EXCEPT !.create[k].at = "done"]
             /\ ui' = ErrorShown(ui) /\ app' = app
    BY <2>3, Zenon
  <2> QED BY <2>2, <2>3, Zenon DEF CreatePull
<1> HIDE DEF o, bd, c, sf, w
<1>14. IsWallet(w)
  BY <1>2, DraftFacts DEF w
<1>4. IsWallet(v) /\ v.state = w.state
  BY <1>14, WalletFacts
<1> HIDE DEF v
<1>5. IsWallet(z) /\ z.state = v.state
  BY <1>4, WalletFacts
<1> HIDE DEF z
<1>6. Draft(z)
  BY <1>2, <1>4, <1>5 DEF Draft, w
<1>7. IsCreation(x) /\ x.w = z
  BY CreationNew
<1> HIDE DEF x
<1>8. IsCreation(y) /\ y.at = "done"
  BY <1>2, CreationAt
<1>9. Draft(wallet') /\ IsService(svc') /\ svc'.subs = svc.subs
  BY <1>1, <1>2 DEF Shape
<1>10. ASSUME ui' = ui \/ ui' = ErrorShown(ui)
       PROVE  /\ IsUi(ui') /\ ui'.stack = ui.stack /\ ui'.review = ui.review
              /\ \/ ui'.alert = ui.alert
                 \/ ui'.alert = "review" /\ ui.review # 0
  <2>1. CASE ui' = ui
    BY <1>2, <2>1 DEF Shape
  <2>2. CASE ui' = ErrorShown(ui)
    BY <1>1, <1>2, <2>2, EarlyError
  <2> QED BY <1>10, <2>1, <2>2
<1>11. ASSUME app' = app \/ Fail PROVE IsApp(app')
  BY <1>2, <1>11, AppFacts DEF Shape
<1>12. CASE job' = [job EXCEPT !.create[k] = x] /\ (ui' = ui \/ ui' = ErrorShown(ui))
            /\ (app' = app \/ Fail)
  BY <1>1, <1>6, <1>7, <1>9, <1>10, <1>11, <1>12, CreateStep
<1>13. CASE job' = [job EXCEPT !.create[k].at = "done"] /\ ui' = ErrorShown(ui) /\ app' = app
  <2>1. job' = [job EXCEPT !.create[k] = y]
    BY <1>13
  <2> HIDE DEF y
  <2> QED BY <1>1, <1>8, <1>9, <1>10, <1>11, <1>13, <2>1, CreateStep
<1> QED BY <1>3, <1>12, <1>13

LEMMA CreatePullFailsKeeps ==
  ASSUME RInv, NEW k \in Id, CreatePullFails(k)
  PROVE  RInv'
<1> DEFINE n == app.fails + 1
<1>1. /\ Alive /\ job.create[k].at = "pull" /\ app' = [app EXCEPT !.fails = n, !.trap = "pull"]
      /\ wallet' = wallet /\ keys' = keys /\ ui' = ui /\ job' = job /\ svc' = svc
  BY DEF CreatePullFails, database
<1>2. Shape /\ Draft(wallet)
  BY <1>1, CreatingFacts
<1> HIDE DEF n
<1>3. app' = [trap |-> "pull", entries |-> app.entries, reviews |-> app.reviews,
              fails |-> n, kills |-> app.kills]
  BY <1>1, <1>2 DEF Shape, IsApp
<1>4. IsApp(app') /\ ~Alive'
  BY <1>3 DEF IsApp, Alive
<1>5. Shape'
  BY <1>1, <1>2, <1>4, ShapeOf DEF Shape
<1>6. PhraseForgotten'
  BY <1>1, <1>2, DraftFacts DEF PhraseForgotten
<1> QED BY <1>4, <1>5, <1>6, DeadKeeps

LEMMA CreateEstimateKeeps ==
  ASSUME RInv, NEW k \in Id, CreateEstimate(k)
  PROVE  RInv'
<1>1. /\ Alive /\ job.create[k].at = "estimate" /\ keys' = keys /\ svc' = svc
  BY DEF CreateEstimate
<1>2. /\ Early /\ CreatingNow /\ Shape /\ Draft(wallet) /\ EarlyJobs
      /\ Draft(job.create[k].w)
  BY <1>1, CreatingFacts
<1> DEFINE w == job.create[k].w
           y == [NoCreation EXCEPT !.at = "done"]
           m == Head(txs').id
<1>3. \/ /\ wallet' = w /\ job' = [job EXCEPT !.create[k] = y] /\ app' = app
         /\ ui' = ui \/ ui' = [ui EXCEPT !.shown = m, !.busy = FALSE]
      \/ Trap("keys") /\ wallet' = wallet /\ ui' = ui /\ job' = job
  BY DEF CreateEstimate
<1>4. IsCreation(y) /\ y.at = "done"
  BY CreationDone
<1> HIDE DEF w, y, m
<1>5. CASE Trap("keys") /\ wallet' = wallet /\ ui' = ui /\ job' = job
  <2>1. IsService(svc')
    BY <1>1, <1>2 DEF Shape
  <2> QED BY <1>2, <1>5, <2>1, TrapKeeps
<1>6. CASE /\ wallet' = w /\ job' = [job EXCEPT !.create[k] = y] /\ app' = app
           /\ ui' = ui \/ ui' = [ui EXCEPT !.shown = m, !.busy = FALSE]
  <2>1. IsUi(ui') /\ ui'.stack = ui.stack /\ ui'.review = ui.review /\ ui'.alert = ui.alert
    <3>1. CASE ui' = ui
      BY <1>2, <3>1 DEF Shape
    <3>2. CASE ui' = [ui EXCEPT !.shown = m, !.busy = FALSE]
      <4>1. ui' = [stack |-> ui.stack, fresh |-> ui.fresh, next |-> ui.next,
                   review |-> ui.review, shown |-> m, busy |-> FALSE, alert |-> ui.alert]
        BY <1>2, <3>2 DEF Shape, IsUi
      <4> QED BY <4>1 DEF IsUi
    <3> QED BY <1>6, <3>1, <3>2
  <2>2. Draft(wallet') /\ IsApp(app') /\ IsService(svc') /\ svc'.subs = svc.subs
    BY <1>1, <1>2, <1>6 DEF Shape, w
  <2> QED BY <1>1, <1>4, <1>6, <2>1, <2>2, CreateStep
<1> QED BY <1>3, <1>5, <1>6

LEMMA CreateFailsKeeps ==
  ASSUME RInv, NEW k \in Id, CreateFails(k)
  PROVE  RInv'
<1> DEFINE y == [NoCreation EXCEPT !.at = "done"]
<1>1. /\ Alive /\ job.create[k].at = "estimate" /\ wallet' = wallet /\ svc' = svc
      /\ app' = app \/ Fail
      /\ job' = [job EXCEPT !.create[k] = y] /\ ui' = ErrorShown(ui)
  BY DEF CreateFails, database
<1>2. Early /\ Shape /\ Draft(wallet)
  BY <1>1, CreatingFacts
<1>3. IsCreation(y) /\ y.at = "done"
  BY CreationDone
<1> HIDE DEF y
<1>4. /\ IsUi(ui') /\ ui'.stack = ui.stack /\ ui'.review = ui.review
      /\ \/ ui'.alert = ui.alert
         \/ ui'.alert = "review" /\ ui.review # 0
  BY <1>1, <1>2, EarlyError
<1>5. IsApp(app') /\ Draft(wallet') /\ IsService(svc') /\ svc'.subs = svc.subs
  BY <1>1, <1>2, AppFacts DEF Shape
<1> QED BY <1>1, <1>3, <1>4, <1>5, CreateStep

\* The review screen is open.
LEMMA ReviewFacts ==
  ASSUME RInv, Alive, ui.review # 0
  PROVE  /\ Shape /\ ui.stack = Flow(5) /\ Draft(wallet) /\ ~Late /\ EarlyJobs
         /\ job.provide = NoSafe /\ job.pair = NoOwner
<1>1. Shape /\ StackInv /\ EarlyInv /\ LateInv
  BY DEF RInv
<1>2. ui.stack = Flow(5) /\ Top = "pair"
  BY <1>1, FlowLast, AllScreensFacts DEF StackInv, Top
<1>3. Draft(wallet) /\ ~Late
  BY <1>1, <1>2 DEF StackInv, LateInv
<1>4. EarlyJobs /\ job.provide = NoSafe /\ job.pair = NoOwner
  BY <1>1 DEF EarlyInv, EarlyJobs, Calm
<1> QED BY <1>1, <1>2, <1>3, <1>4

LEMMA CancelReviewKeeps ==
  ASSUME RInv, CancelReview
  PROVE  RInv'
<1> DEFINE c == job.cancel + 1
<1>1. /\ Alive /\ ui.review # 0 /\ ui.alert = "none" /\ ui' = PoppedToCheckpoint(Closed)
      /\ job' = [job EXCEPT !.cancel = c] /\ wallet' = wallet /\ svc' = svc /\ app' = app
  BY DEF CancelReview, Reviews, database
<1>2. /\ Shape /\ ui.stack = Flow(5) /\ Draft(wallet) /\ ~Late /\ EarlyJobs
      /\ job.provide = NoSafe /\ job.pair = NoOwner
  BY <1>1, ReviewFacts
<1>3. IsUi(Closed) /\ Closed.stack = Flow(5) /\ Closed.review = 0 /\ Closed.alert = "none"
  BY <1>1, <1>2, ClosedFacts DEF Shape
<1>4. /\ IsUi(ui') /\ ui'.review = 0 /\ ui'.alert = "none" /\ \E n \in 2 .. 5 : ui'.stack = Flow(n)
  <2>1. 5 \in 3 .. 6
    OBVIOUS
  <2> QED BY <1>1, <1>3, <2>1, PoppedFacts
<1>5. PICK n \in 2 .. 5 : ui'.stack = Flow(n)
  BY <1>4
<1> HIDE DEF c
<1>6. job' = [pull |-> job.pull, create |-> job.create, provide |-> job.provide,
              pair |-> job.pair, deaf |-> job.deaf, cancel |-> c,
              resume |-> job.resume, notice |-> job.notice, post |-> job.post]
  BY <1>1, <1>2, JobParts DEF Shape
<1>7. /\ IsJob(job)' /\ SameWork /\ job'.provide = NoSafe /\ job'.pair = NoOwner
      /\ job'.resume = job.resume /\ job'.notice = job.notice /\ job'.post = job.post
  BY <1>2, <1>6, SmallJobs DEF Shape
<1>8. EarlyJobs' /\ ~Late'
  BY <1>1, <1>2, <1>7, SameWorkKeeps DEF Late
<1>9. Shape' /\ Draft(wallet')
  BY <1>1, <1>2, <1>4, <1>7, ShapeOf DEF Shape
<1> QED BY <1>4, <1>5, <1>7, <1>8, <1>9, FlowKeeps

LEMMA CancelRecoveryKeeps ==
  ASSUME RInv, CancelRecovery
  PROVE  RInv'
<1> DEFINE c == job.cancel - 1
<1>1. /\ Alive /\ job.cancel # 0 /\ wallet' = RecoveryDraft /\ job' = [job EXCEPT !.cancel = c]
      /\ ui' = ui /\ svc' = svc /\ app' = app
  BY DEF CancelRecovery
<1>2. Early
  BY <1>1 DEF Early
<1>3. Shape /\ EarlyJobs
  BY <1>1, <1>2, EarlyFacts
<1> HIDE DEF c
<1>4. job' = [pull |-> job.pull, create |-> job.create, provide |-> job.provide,
              pair |-> job.pair, deaf |-> job.deaf, cancel |-> c,
              resume |-> job.resume, notice |-> job.notice, post |-> job.post]
  BY <1>1, <1>3, JobParts DEF Shape
<1>5. /\ IsJob(job)' /\ SameWork /\ job'.provide = job.provide /\ job'.pair = job.pair
      /\ job'.resume = job.resume /\ job'.notice = job.notice /\ job'.post = job.post
  BY <1>3, <1>4, SmallJobs DEF Shape
<1>6. EarlyJobs' /\ (CreatingNow' => CreatingNow)
  BY <1>3, <1>5, SameWorkKeeps
<1>7. Draft(wallet')
  BY <1>1, RecordFacts
<1>8. Shape'
  BY <1>1, <1>3, <1>5, <1>7, DraftFacts, ShapeOf DEF Shape
<1>9. svc'.subs = svc.subs /\ ui'.stack = ui.stack /\ ui'.review = ui.review
      /\ ui'.alert = ui.alert
  BY <1>1
<1> QED BY <1>1, <1>2, <1>5, <1>6, <1>7, <1>8, <1>9, EarlyStep

-----------------------------------------------------------------------------
(* The recovery is under way.                                              *)

LEMMA NotLate ==
  ASSUME ~Late'
  PROVE  LateInv'
BY DEF LateInv, Late

\* On the progress screen with one resumption.
LEMMA ResumeLate ==
  ASSUME Shape', ~IsReadyToUse(wallet'), ~Early', EarlyJobs', ui'.stack = Flow(6), ui'.review = 0,
         ui'.alert = "none", NEW q, job'.resume = {q}, job'.notice = {}, job'.post = {},
         svc'.subs = {}, IsResume(q),
         q.at \in {"begin", "submit", "proceed"} => Draft(wallet'),
         q.at \in {"submit", "proceed"} => Draft(q.w),
         q.at = "check" => InProgress(wallet'),
         q.at = "subscribe" => InProgress(q.w)
  PROVE  RInv'
<1>1. Top' = "progress"
  BY FlowLast, AllScreensFacts DEF Top
<1>2. ResumeInv(q)'
  BY DEF ResumeInv
<1>3. LateInv'
  <2>1. q \in job'.resume /\ job'.resume # {}
    OBVIOUS
  <2>2. \E r \in job'.resume : job'.resume = {r} /\ ResumeInv(r)'
    BY <1>2, <2>1
  <2>3. Calm'
    BY DEF Calm
  <2> QED BY <1>1, <2>2, <2>3 DEF LateInv
<1> QED BY <1>3, ProgressKeeps

\* ... with one subscriber, which may have been told.
LEMMA SubscribedLate ==
  ASSUME Shape', ~IsReadyToUse(wallet'), ~Early', EarlyJobs', ui'.stack = Flow(6), ui'.review = 0,
         ui'.alert = "none", NEW w, InProgress(w), svc'.subs = {w}, job'.notice \subseteq {w},
         job'.resume = {}, job'.post = {}
  PROVE  RInv'
<1>1. Top' = "progress"
  BY FlowLast, AllScreensFacts DEF Top
<1>2. Calm'
  BY DEF Calm
<1>3. \E v \in svc'.subs : svc'.subs = {v} /\ InProgress(v)
  OBVIOUS
<1>4. LateInv'
  BY <1>1, <1>2, <1>3 DEF LateInv
<1> QED BY <1>4, ProgressKeeps

\* ... with a post-processing.
LEMMA PostLate ==
  ASSUME Shape', ~IsReadyToUse(wallet'), ~Early', EarlyJobs', ui'.stack = Flow(6), ui'.review = 0,
         ui'.alert = "none", NEW p, IsPost(p), Finalizing(p.w), p.at \in {"answer", "ready"},
         p.at = "ready" => p.w.phrase \notin keys',
         job'.post = {p}, job'.resume = {}, job'.notice = {}, svc'.subs = {}
  PROVE  RInv'
<1>1. Top' = "progress"
  BY FlowLast, AllScreensFacts DEF Top
<1>2. Calm'
  BY DEF Calm
<1>3. \E r \in job'.post : job'.post = {r} /\ PostInv(r)'
  <2>1. PostInv(p)'
    BY DEF PostInv
  <2> QED BY <2>1
<1>4. LateInv'
  BY <1>1, <1>2, <1>3 DEF LateInv
<1> QED BY <1>4, ProgressKeeps

\* ... with nothing any more.
LEMMA IdleLate ==
  ASSUME Shape', ~IsReadyToUse(wallet'), ~Early', EarlyJobs', ui'.stack = Flow(6), ui'.review = 0,
         job'.post = {}, job'.resume = {}, job'.notice = {}, svc'.subs = {},
         ui'.alert \in {"none", "progress"}, ui'.alert = "progress" => Draft(wallet')
  PROVE  RInv'
<1>1. ~Late'
  BY DEF Late
<1> QED BY <1>1, NotLate, ProgressKeeps

LEMMA TrapLate ==
  ASSUME Shape, ~IsReadyToUse(wallet), NEW x, x # "no", Trap(x), wallet' = wallet, ui' = ui,
         job' = job, IsService(svc')
  PROVE  RInv'
<1>1. IsApp(app') /\ app'.trap = x
  BY AppFacts DEF Shape
<1>2. Shape'
  BY <1>1, ShapeOf DEF Shape
<1>3. PhraseForgotten'
  BY DEF PhraseForgotten
<1>4. ~Alive'
  BY <1>1 DEF Alive
<1> QED BY <1>2, <1>3, <1>4, DeadKeeps

LEMMA SubmitKeeps ==
  ASSUME Patient, RInv, Submit
  PROVE  RInv'
<1> DEFINE q == Resumption(ui.shown)
           g == job.resume \cup {q}
<1>1. /\ Alive /\ ui.review # 0 /\ ui.alert = "none" /\ ~Running
      /\ ui' = Push(Closed, "progress") /\ job' = [job EXCEPT !.resume = g]
      /\ wallet' = wallet /\ svc' = svc /\ app' = app
  BY DEF Submit, Reviews, database
<1>2. /\ Shape /\ ui.stack = Flow(5) /\ Draft(wallet) /\ ~Late /\ EarlyJobs
      /\ job.provide = NoSafe /\ job.pair = NoOwner
  BY <1>1, ReviewFacts
<1>3. ~Early
  BY <1>1, RunningIs
<1>4. IsUi(Closed) /\ Closed.stack = Flow(5) /\ Closed.review = 0 /\ Closed.alert = "none"
  BY <1>1, <1>2, ClosedFacts DEF Shape
<1>5. /\ IsUi(ui') /\ ui'.stack = Append(Flow(5), "progress") /\ ui'.review = 0
      /\ ui'.alert = "none"
  BY <1>1, <1>4, PushFacts
<1>6. ui'.stack = Flow(6)
  <2>1. 5 \in 1 .. 5 /\ AllScreens[5 + 1] = "progress"
    BY AllScreensFacts
  <2>2. Append(Flow(5), AllScreens[5 + 1]) = Flow(5 + 1)
    BY <2>1, FlowAppend
  <2> QED BY <1>5, <2>1, <2>2
<1>7. IsResume(q) /\ q.at = "begin"
  BY RecordFacts
<1>8. g = {q}
  BY <1>2 DEF Late
<1> HIDE DEF q, g
<1>9. job' = [pull |-> job.pull, create |-> job.create, provide |-> job.provide,
              pair |-> job.pair, deaf |-> job.deaf, cancel |-> job.cancel,
              resume |-> g, notice |-> job.notice, post |-> job.post]
  BY <1>1, <1>2, JobParts DEF Shape
<1>10. /\ IsJob(job)' /\ SameWork /\ job'.provide = job.provide /\ job'.pair = job.pair
       /\ job'.cancel = job.cancel
       /\ job'.resume = g /\ job'.notice = job.notice /\ job'.post = job.post
  BY <1>2, <1>9, SmallJobs DEF Shape
<1>11. EarlyJobs' /\ (CreatingNow' <=> CreatingNow) /\ (Pulling' <=> Pulling)
  BY <1>2, <1>10, SameWorkKeeps
<1>12. ~Early'
  BY <1>3, <1>10, <1>11 DEF Early
<1>13. Shape' /\ Draft(wallet') /\ ~IsReadyToUse(wallet')
  BY <1>1, <1>2, <1>5, <1>10, DraftFacts, ShapeOf DEF Shape
<1>14. job'.resume = {q} /\ job'.notice = {} /\ job'.post = {} /\ svc'.subs = {}
  BY <1>1, <1>2, <1>8, <1>10 DEF Late
<1> QED BY <1>5, <1>6, <1>7, <1>11, <1>12, <1>13, <1>14, ResumeLate

LEMMA DismissAlertKeeps ==
  ASSUME RInv, DismissAlert
  PROVE  RInv'
<1> DEFINE u == [Closed EXCEPT !.alert = "none"]
<1>1. /\ Alive /\ ui.alert # "none" /\ ui' = PoppedToCheckpoint(u)
      /\ wallet' = wallet /\ job' = job /\ svc' = svc /\ app' = app
  BY DEF DismissAlert, database
<1>2. Shape /\ StackInv /\ EarlyInv /\ LateInv
  BY <1>1 DEF RInv
<1>3. PICK n \in 3 .. 6 : ui.stack = Flow(n) /\ Draft(wallet) /\ ~Late
  <2>1. CASE ui.alert = "review"
    <3>1. ui.review # 0
      BY <1>2, <2>1 DEF StackInv
    <3>2. ui.stack = Flow(5) /\ Draft(wallet) /\ ~Late
      BY <1>1, <3>1, ReviewFacts
    <3>3. 5 \in 3 .. 6
      OBVIOUS
    <3> QED BY <3>2, <3>3
  <2>2. CASE ui.alert = "progress"
    <3>1. Top = "progress" /\ Draft(wallet) /\ ~Late /\ ui.stack \in Stacks
      BY <1>2, <2>2 DEF StackInv
    <3>2. ui.stack = Flow(6)
      BY <3>1, StackTop DEF Top
    <3>3. 6 \in 3 .. 6
      OBVIOUS
    <3> QED BY <3>1, <3>2, <3>3
  <2> QED BY <1>1, <1>2, <2>1, <2>2 DEF StackInv
<1>4. job.provide = NoSafe /\ job.pair = NoOwner /\ EarlyJobs
  BY <1>1, <1>2 DEF EarlyInv, EarlyJobs, Calm
<1>5. IsUi(Closed) /\ Closed.stack = Flow(n) /\ Closed.review = 0
  BY <1>2, <1>3, ClosedFacts DEF Shape
<1>6. IsUi(u) /\ u.stack = Flow(n) /\ u.review = 0 /\ u.alert = "none"
  <2> DEFINE c == Closed
  <2>1. u = [c EXCEPT !.alert = "none"]
    OBVIOUS
  <2> HIDE DEF c, u
  <2>2. IsUi(c) /\ c.stack = Flow(n) /\ c.review = 0
    BY <1>5 DEF c
  <2>3. u = [stack |-> c.stack, fresh |-> c.fresh, next |-> c.next, review |-> c.review,
             shown |-> c.shown, busy |-> c.busy, alert |-> "none"]
    BY <2>1, <2>2 DEF IsUi
  <2> QED BY <2>2, <2>3 DEF IsUi
<1> HIDE DEF u
<1>7. /\ IsUi(ui') /\ ui'.review = 0 /\ ui'.alert = "none" /\ \E m \in 2 .. 5 : ui'.stack = Flow(m)
  BY <1>1, <1>6, PoppedFacts
<1>8. PICK m \in 2 .. 5 : ui'.stack = Flow(m)
  BY <1>7
<1>9. Shape' /\ Draft(wallet')
  BY <1>1, <1>2, <1>3, <1>7, ShapeOf DEF Shape
<1>10. ~Late' /\ EarlyJobs' /\ job'.provide = NoSafe /\ job'.pair = NoOwner
  BY <1>1, <1>3, <1>4 DEF Late, EarlyJobs
<1> QED BY <1>7, <1>8, <1>9, <1>10, FlowKeeps

\* A resumption is at work.
LEMMA ResumeFacts ==
  ASSUME RInv, Alive, NEW r \in job.resume
  PROVE  /\ Shape /\ ~Early /\ EarlyJobs /\ ui.stack = Flow(6) /\ Top = "progress"
         /\ ui.review = 0 /\ ui.alert = "none" /\ ~IsReadyToUse(wallet)
         /\ job.resume = {r} /\ ResumeInv(r) /\ job.notice = {} /\ job.post = {} /\ svc.subs = {}
<1>1. Late
  BY DEF Late
<1>2. /\ Shape /\ LateInv /\ ~Early /\ EarlyJobs
      /\ ui.stack = Flow(6) /\ Top = "progress" /\ ui.review = 0 /\ ui.alert = "none"
      /\ ~IsReadyToUse(wallet)
  BY <1>1, LateFacts
<1>3. job.resume # {}
  OBVIOUS
<1>4. /\ \E x \in job.resume : job.resume = {x} /\ ResumeInv(x)
      /\ job.notice = {} /\ job.post = {} /\ svc.subs = {}
  BY <1>2, <1>3 DEF LateInv
<1>5. PICK x \in job.resume : job.resume = {x} /\ ResumeInv(x)
  BY <1>4
<1>6. x = r
  BY <1>5
<1> QED BY <1>2, <1>4, <1>5, <1>6

\* The jobs of a recovery under way change; the others are idle.
LEMMA LateJobs ==
  ASSUME Shape, ~Early, EarlyJobs, NEW g, NEW h, NEW q,
         job' = [pull |-> job.pull, create |-> job.create, provide |-> job.provide,
                 pair |-> job.pair, deaf |-> job.deaf, cancel |-> job.cancel,
                 resume |-> g, notice |-> h, post |-> q]
  PROVE  /\ IsJob(job)' /\ EarlyJobs' /\ ~Early'
         /\ job'.resume = g /\ job'.notice = h /\ job'.post = q
<1>1. /\ IsJob(job)' /\ SameWork /\ job'.provide = job.provide /\ job'.pair = job.pair
      /\ job'.cancel = job.cancel
      /\ job'.resume = g /\ job'.notice = h /\ job'.post = q
  BY SmallJobs DEF Shape
<1>2. EarlyJobs' /\ (CreatingNow' <=> CreatingNow) /\ (Pulling' <=> Pulling)
  BY <1>1, SameWorkKeeps
<1>3. ~Early'
  BY <1>1, <1>2 DEF Early
<1> QED BY <1>1, <1>2, <1>3

LEMMA StepJobs ==
  ASSUME RInv, Alive, NEW r \in job.resume, NEW q, job' = Step(r, q)
  PROVE  /\ IsJob(job)' /\ EarlyJobs' /\ ~Early'
         /\ job'.resume = {q} /\ job'.notice = {} /\ job'.post = {}
<1>1. /\ Shape /\ ~Early /\ EarlyJobs /\ job.resume = {r} /\ job.notice = {} /\ job.post = {}
  BY ResumeFacts
<1> DEFINE g == (job.resume \ {r}) \cup {q}
<1>2. job' = [job EXCEPT !.resume = g]
  BY DEF Step
<1>3. g = {q}
  BY <1>1
<1> HIDE DEF g
<1>4. job' = [pull |-> job.pull, create |-> job.create, provide |-> job.provide,
              pair |-> job.pair, deaf |-> job.deaf, cancel |-> job.cancel,
              resume |-> g, notice |-> job.notice, post |-> job.post]
  BY <1>1, <1>2, JobParts DEF Shape
<1> QED BY <1>1, <1>3, <1>4, LateJobs

LEMMA EndedJobs ==
  ASSUME RInv, Alive, NEW r \in job.resume, job' = Ended(r)
  PROVE  /\ IsJob(job)' /\ EarlyJobs' /\ ~Early'
         /\ job'.resume = {} /\ job'.notice = {} /\ job'.post = {}
<1>1. /\ Shape /\ ~Early /\ EarlyJobs /\ job.resume = {r} /\ job.notice = {} /\ job.post = {}
  BY ResumeFacts
<1> DEFINE g == job.resume \ {r}
<1>2. job' = [job EXCEPT !.resume = g]
  BY DEF Ended
<1>3. g = {}
  BY <1>1
<1> HIDE DEF g
<1>4. job' = [pull |-> job.pull, create |-> job.create, provide |-> job.provide,
              pair |-> job.pair, deaf |-> job.deaf, cancel |-> job.cancel,
              resume |-> g, notice |-> job.notice, post |-> job.post]
  BY <1>1, <1>2, JobParts DEF Shape
<1> QED BY <1>1, <1>3, <1>4, LateJobs

LEMMA ResumeBeginKeeps ==
  ASSUME RInv, NEW r \in job.resume, ResumeBegin(r)
  PROVE  RInv'
<1>1. /\ Alive /\ r.at = "begin" /\ svc' = [svc EXCEPT !.handler = "progress"]
      /\ keys' = keys /\ ui' = ui
  BY DEF ResumeBegin
<1>2. /\ Shape /\ ui.stack = Flow(6) /\ ui.review = 0 /\ ui.alert = "none"
      /\ ~IsReadyToUse(wallet) /\ ResumeInv(r) /\ svc.subs = {}
  BY <1>1, ResumeFacts
<1>3. IsResume(r) /\ Draft(wallet) /\ wallet.state = "recoveryDraft"
  BY <1>1, <1>2, DraftFacts DEF ResumeInv
<1>4. IsService(svc') /\ svc'.subs = {}
  BY <1>1, <1>2, ServiceFacts DEF Shape
<1> DEFINE y == <<Find>>
           q == [r EXCEPT !.at = "submit", !.w = wallet, !.tx = y]
<1>5. ~IsFinalizingRecovery(wallet) /\ ~IsRecoveryInProgress(wallet)
      /\ wallet.state # "recoveryInProgress"
  BY <1>3 DEF IsFinalizingRecovery, IsRecoveryInProgress
<1>6. \/ Trap("transaction") /\ wallet' = wallet /\ job' = job
      \/ job' = Step(r, q) /\ wallet' = wallet /\ app' = app
      \/ Trap("state") /\ wallet' = wallet /\ job' = job
  <2>1. CASE ~HasTx
    BY <1>5, <2>1 DEF ResumeBegin
  <2>2. CASE HasTx /\ wallet.state = "recoveryDraft" /\ Find.status = "signing"
    BY <1>5, <2>2 DEF ResumeBegin
  <2>3. CASE HasTx /\ ~(wallet.state = "recoveryDraft" /\ Find.status = "signing")
    BY <1>5, <2>3 DEF ResumeBegin
  <2> QED BY <2>1, <2>2, <2>3
<1> HIDE DEF y
<1>7. CASE wallet' = wallet /\ job' = job /\ (Trap("transaction") \/ Trap("state"))
  BY <1>1, <1>2, <1>4, <1>7, TrapLate
<1>8. CASE job' = Step(r, q) /\ wallet' = wallet /\ app' = app
  <2>1. IsResume(q) /\ q.at = "submit" /\ q.w = wallet
    <3>1. q = [r EXCEPT !.at = "submit", !.w = wallet, !.tx = y]
      OBVIOUS
    <3> HIDE DEF q
    <3>2. q = [at |-> "submit", seen |-> r.seen, w |-> wallet, tx |-> y]
      BY <1>3, <3>1 DEF IsResume
    <3> QED BY <3>2 DEF IsResume
  <2> HIDE DEF q
  <2>2. /\ IsJob(job)' /\ EarlyJobs' /\ ~Early'
        /\ job'.resume = {q} /\ job'.notice = {} /\ job'.post = {}
    BY <1>1, <1>8, StepJobs
  <2>3. Shape' /\ ~IsReadyToUse(wallet') /\ Draft(wallet')
    BY <1>1, <1>2, <1>3, <1>4, <1>8, <2>2, ShapeOf DEF Shape
  <2>4. ui'.stack = Flow(6) /\ ui'.review = 0 /\ ui'.alert = "none"
    BY <1>1, <1>2
  <2>5. Draft(q.w)
    BY <1>3, <2>1
  <2> QED BY <1>4, <2>1, <2>2, <2>3, <2>4, <2>5, ResumeLate
<1> QED BY <1>6, <1>7, <1>8

LEMMA ResumeSubmitKeeps ==
  ASSUME RInv, NEW r \in job.resume, ResumeSubmit(r)
  PROVE  RInv'
<1> DEFINE y == <<>>
           q == [r EXCEPT !.at = "proceed", !.tx = y]
<1>1. /\ Alive /\ r.at = "submit" /\ job' = Step(r, q)
      /\ wallet' = wallet /\ keys' = keys /\ ui' = ui /\ svc' = svc /\ app' = app
  BY DEF ResumeSubmit
<1>2. /\ Shape /\ ui.stack = Flow(6) /\ ui.review = 0 /\ ui.alert = "none"
      /\ ~IsReadyToUse(wallet) /\ ResumeInv(r) /\ svc.subs = {}
  BY <1>1, ResumeFacts
<1>3. IsResume(r) /\ Draft(wallet) /\ Draft(r.w)
  BY <1>1, <1>2 DEF ResumeInv
<1> HIDE DEF y
<1>4. IsResume(q) /\ q.at = "proceed" /\ q.w = r.w
  <2>1. q = [r EXCEPT !.at = "proceed", !.tx = y]
    OBVIOUS
  <2> HIDE DEF q
  <2>2. q = [at |-> "proceed", seen |-> r.seen, w |-> r.w, tx |-> y]
    BY <1>3, <2>1 DEF IsResume
  <2> QED BY <2>2 DEF IsResume
<1> HIDE DEF q
<1>5. /\ IsJob(job)' /\ EarlyJobs' /\ ~Early'
      /\ job'.resume = {q} /\ job'.notice = {} /\ job'.post = {}
  BY <1>1, StepJobs
<1>6. Shape' /\ ~IsReadyToUse(wallet') /\ Draft(wallet') /\ svc'.subs = {} /\ Draft(q.w)
  BY <1>1, <1>2, <1>3, <1>4, <1>5, ShapeOf DEF Shape
<1>7. ui'.stack = Flow(6) /\ ui'.review = 0 /\ ui'.alert = "none"
  BY <1>1, <1>2
<1> QED BY <1>4, <1>5, <1>6, <1>7, ResumeLate

\* An error that is shown while the recovery is under way.
LEMMA LateError ==
  ASSUME IsUi(ui), ui.review = 0, ui.alert = "none", ui.stack = Flow(6), ui' = ErrorShown(ui)
  PROVE  /\ IsUi(ui') /\ ui'.stack = Flow(6) /\ ui'.review = 0 /\ ui'.alert \in {"none", "progress"}
BY ErrorFacts

LEMMA SubmitFailsKeeps ==
  ASSUME RInv, NEW r \in job.resume, SubmitFails(r)
  PROVE  RInv'
<1>1. /\ Alive /\ r.at = "submit" /\ job' = Ended(r) /\ (app' = app \/ Fail)
      /\ wallet' = wallet /\ keys' = keys /\ ui' = ErrorShown(ui) /\ svc' = svc
  BY DEF SubmitFails, database
<1>2. /\ Shape /\ ui.stack = Flow(6) /\ ui.review = 0 /\ ui.alert = "none"
      /\ ~IsReadyToUse(wallet) /\ ResumeInv(r) /\ svc.subs = {}
  BY <1>1, ResumeFacts
<1>3. Draft(wallet)
  BY <1>1, <1>2 DEF ResumeInv
<1>4. /\ IsJob(job)' /\ EarlyJobs' /\ ~Early'
      /\ job'.resume = {} /\ job'.notice = {} /\ job'.post = {}
  BY <1>1, EndedJobs
<1>5. IsUi(ui') /\ ui'.stack = Flow(6) /\ ui'.review = 0 /\ ui'.alert \in {"none", "progress"}
  BY <1>1, <1>2, LateError DEF Shape
<1>6. IsApp(app')
  BY <1>1, <1>2, AppFacts DEF Shape
<1>7. Shape' /\ ~IsReadyToUse(wallet') /\ Draft(wallet') /\ svc'.subs = {}
  BY <1>1, <1>2, <1>3, <1>4, <1>5, <1>6, ShapeOf DEF Shape
<1> QED BY <1>4, <1>5, <1>7, IdleLate

LEMMA ResumeProceedKeeps ==
  ASSUME RInv, NEW r \in job.resume, ResumeProceed(r)
  PROVE  RInv'
<1> DEFINE q == [r EXCEPT !.at = "check", !.w = NoWallet]
<1>1. /\ Alive /\ r.at = "proceed" /\ job' = Step(r, q) /\ wallet' = Proceeded(r.w)
      /\ keys' = keys /\ ui' = ui /\ svc' = svc /\ app' = app
  BY DEF ResumeProceed
<1>2. /\ Shape /\ ui.stack = Flow(6) /\ ui.review = 0 /\ ui.alert = "none"
      /\ ResumeInv(r) /\ svc.subs = {}
  BY <1>1, ResumeFacts
<1>3. IsResume(r) /\ Draft(r.w)
  BY <1>1, <1>2 DEF ResumeInv
<1>4. InProgress(wallet')
  BY <1>1, <1>3, ProceededFacts, DraftFacts
<1>5. IsResume(q) /\ q.at = "check"
  <2>1. q = [r EXCEPT !.at = "check", !.w = NoWallet]
    OBVIOUS
  <2> HIDE DEF q
  <2>2. q = [at |-> "check", seen |-> r.seen, w |-> NoWallet, tx |-> r.tx]
    BY <1>3, <2>1 DEF IsResume
  <2> QED BY <2>2 DEF IsResume
<1> HIDE DEF q
<1>6. /\ IsJob(job)' /\ EarlyJobs' /\ ~Early'
      /\ job'.resume = {q} /\ job'.notice = {} /\ job'.post = {}
  BY <1>1, StepJobs
<1>7. Shape' /\ ~IsReadyToUse(wallet') /\ svc'.subs = {}
  BY <1>1, <1>2, <1>4, <1>6, DraftFacts, ShapeOf DEF Shape
<1>8. ui'.stack = Flow(6) /\ ui'.review = 0 /\ ui'.alert = "none"
  BY <1>1, <1>2
<1> QED BY <1>4, <1>5, <1>6, <1>7, <1>8, ResumeLate

LEMMA ResumeCheckKeeps ==
  ASSUME RInv, NEW r \in job.resume, ResumeCheck(r)
  PROVE  RInv'
<1> DEFINE q == [r EXCEPT !.at = "subscribe", !.w = wallet]
<1>1. /\ Alive /\ r.at = "check"
      /\ wallet' = wallet /\ keys' = keys /\ ui' = ui /\ svc' = svc
      /\ \/ Trap("transaction") /\ job' = job
         \/ job' = Step(r, q) /\ app' = app
         \/ job' = Ended(r) /\ app' = app
  BY DEF ResumeCheck, database
<1>2. /\ Shape /\ ui.stack = Flow(6) /\ ui.review = 0 /\ ui.alert = "none"
      /\ ~IsReadyToUse(wallet) /\ ResumeInv(r) /\ svc.subs = {}
  BY <1>1, ResumeFacts
<1>3. IsResume(r) /\ InProgress(wallet)
  BY <1>1, <1>2 DEF ResumeInv
<1>4. ui'.stack = Flow(6) /\ ui'.review = 0 /\ ui'.alert = "none" /\ svc'.subs = {}
  BY <1>1, <1>2
<1>5. CASE Trap("transaction") /\ job' = job
  <2>1. IsService(svc')
    BY <1>1, <1>2 DEF Shape
  <2> QED BY <1>1, <1>2, <1>5, <2>1, TrapLate
<1>6. CASE job' = Step(r, q) /\ app' = app
  <2>1. IsResume(q) /\ q.at = "subscribe" /\ q.w = wallet
    <3>1. q = [r EXCEPT !.at = "subscribe", !.w = wallet]
      OBVIOUS
    <3> HIDE DEF q
    <3>2. q = [at |-> "subscribe", seen |-> r.seen, w |-> wallet, tx |-> r.tx]
      BY <1>3, <3>1 DEF IsResume
    <3> QED BY <3>2 DEF IsResume
  <2> HIDE DEF q
  <2>2. /\ IsJob(job)' /\ EarlyJobs' /\ ~Early'
        /\ job'.resume = {q} /\ job'.notice = {} /\ job'.post = {}
    BY <1>1, <1>6, StepJobs
  <2>3. Shape' /\ ~IsReadyToUse(wallet') /\ InProgress(q.w)
    BY <1>1, <1>2, <1>3, <1>6, <2>1, <2>2, ShapeOf DEF Shape
  <2> QED BY <1>4, <2>1, <2>2, <2>3, ResumeLate
<1>7. CASE job' = Ended(r) /\ app' = app
  <2>1. /\ IsJob(job)' /\ EarlyJobs' /\ ~Early'
        /\ job'.resume = {} /\ job'.notice = {} /\ job'.post = {}
    BY <1>1, <1>7, EndedJobs
  <2>2. Shape' /\ ~IsReadyToUse(wallet')
    BY <1>1, <1>2, <1>7, <2>1, ShapeOf DEF Shape
  <2> QED BY <1>4, <2>1, <2>2, IdleLate
<1> QED BY <1>1, <1>5, <1>6, <1>7

LEMMA ResumeSubscribeKeeps ==
  ASSUME RInv, NEW r \in job.resume, ResumeSubscribe(r)
  PROVE  RInv'
<1> DEFINE x == svc.subs \cup {r.w}
<1>1. /\ Alive /\ r.at = "subscribe" /\ svc' = [svc EXCEPT !.subs = x] /\ job' = Ended(r)
      /\ wallet' = wallet /\ keys' = keys /\ ui' = ui /\ app' = app
  BY DEF ResumeSubscribe, database
<1>2. /\ Shape /\ ui.stack = Flow(6) /\ ui.review = 0 /\ ui.alert = "none"
      /\ ~IsReadyToUse(wallet) /\ ResumeInv(r) /\ svc.subs = {}
  BY <1>1, ResumeFacts
<1>3. InProgress(r.w) /\ x = {r.w}
  BY <1>1, <1>2 DEF ResumeInv
<1> HIDE DEF x
<1>4. IsService(svc') /\ svc'.subs = {r.w}
  BY <1>1, <1>2, <1>3, ServiceFacts DEF Shape
<1>5. /\ IsJob(job)' /\ EarlyJobs' /\ ~Early'
      /\ job'.resume = {} /\ job'.notice = {} /\ job'.post = {}
  BY <1>1, EndedJobs
<1>6. Shape' /\ ~IsReadyToUse(wallet')
  BY <1>1, <1>2, <1>4, <1>5, ShapeOf DEF Shape
<1>7. ui'.stack = Flow(6) /\ ui'.review = 0 /\ ui'.alert = "none"
  BY <1>1, <1>2
<1>8. job'.notice \subseteq {r.w}
  BY <1>5
<1> QED BY <1>3, <1>4, <1>5, <1>6, <1>7, <1>8, SubscribedLate

\* Somebody has subscribed.
LEMMA SubscribedFacts ==
  ASSUME RInv, Alive, NEW w \in svc.subs
  PROVE  /\ Shape /\ ~Early /\ EarlyJobs /\ ui.stack = Flow(6) /\ ui.review = 0
         /\ ui.alert = "none" /\ ~IsReadyToUse(wallet)
         /\ svc.subs = {w} /\ InProgress(w) /\ job.notice \subseteq {w} /\ job.resume = {}
         /\ job.post = {}
<1>1. Late
  BY DEF Late
<1>2. /\ Shape /\ LateInv /\ ~Early /\ EarlyJobs
      /\ ui.stack = Flow(6) /\ ui.review = 0 /\ ui.alert = "none"
      /\ ~IsReadyToUse(wallet)
  BY <1>1, LateFacts
<1>3. svc.subs # {}
  OBVIOUS
<1>4. /\ \E v \in svc.subs : svc.subs = {v} /\ InProgress(v)
      /\ job.resume = {} /\ job.post = {} /\ job.notice \subseteq svc.subs
  BY <1>2, <1>3 DEF LateInv
<1>5. PICK v \in svc.subs : svc.subs = {v} /\ InProgress(v)
  BY <1>4
<1>6. v = w
  BY <1>5
<1>7. svc.subs = {w} /\ InProgress(w)
  BY <1>5, <1>6
<1>8. job.notice \subseteq {w}
  BY <1>4, <1>7
<1> QED BY <1>2, <1>4, <1>7, <1>8

LEMMA PollAnswerKeeps ==
  ASSUME RInv, PollAnswer
  PROVE  RInv'
<1> DEFINE h == job.notice \cup svc.subs
<1>1. /\ Alive /\ wallet' = wallet /\ keys' = keys /\ ui' = ui /\ app' = app
      /\ job' = job \/ job' = [job EXCEPT !.notice = h]
  BY DEF PollAnswer
<1>2. Shape /\ StackInv /\ EarlyInv /\ LateInv
  BY <1>1 DEF RInv
<1> DEFINE z == <<>>
<1>3. svc' = [svc EXCEPT !.polled = z]
  BY DEF PollAnswer
<1> HIDE DEF z
<1>4. IsService(svc') /\ svc'.subs = svc.subs
  BY <1>2, <1>3, ServiceFacts DEF Shape
<1>5. CASE job' = job
  <2>1. Shape'
    BY <1>1, <1>2, <1>4, <1>5, ShapeOf DEF Shape
  <2>2. app'.trap = app.trap
    BY <1>1
  <2> QED BY <1>1, <1>4, <1>5, <2>1, <2>2, FrameKeeps
<1>6. CASE job' = [job EXCEPT !.notice = h] /\ svc.subs = {}
  <2>1. h = job.notice
    BY <1>6
  <2> HIDE DEF h
  <2>2. job' = [pull |-> job.pull, create |-> job.create, provide |-> job.provide,
                pair |-> job.pair, deaf |-> job.deaf, cancel |-> job.cancel,
                resume |-> job.resume, notice |-> h, post |-> job.post]
    BY <1>2, <1>6, JobParts DEF Shape
  <2>3. job' = job
    BY <1>2, <2>1, <2>2, JobParts DEF Shape
  <2> QED BY <1>5, <2>3
<1>7. CASE job' = [job EXCEPT !.notice = h] /\ svc.subs # {}
  <2>1. PICK w : w \in svc.subs
    BY <1>7
  <2>2. /\ ~Early /\ EarlyJobs /\ ui.stack = Flow(6) /\ ui.review = 0
        /\ ui.alert = "none" /\ ~IsReadyToUse(wallet)
        /\ svc.subs = {w} /\ InProgress(w) /\ job.notice \subseteq {w} /\ job.resume = {}
        /\ job.post = {}
    BY <1>1, <2>1, SubscribedFacts
  <2>3. h \subseteq {w}
    BY <2>2
  <2> HIDE DEF h
  <2>4. job' = [pull |-> job.pull, create |-> job.create, provide |-> job.provide,
                pair |-> job.pair, deaf |-> job.deaf, cancel |-> job.cancel,
                resume |-> job.resume, notice |-> h, post |-> job.post]
    BY <1>2, <1>7, JobParts DEF Shape
  <2>5. /\ IsJob(job)' /\ EarlyJobs' /\ ~Early'
        /\ job'.resume = job.resume /\ job'.notice = h /\ job'.post = job.post
    BY <1>2, <2>2, <2>4, LateJobs
  <2>6. Shape' /\ ~IsReadyToUse(wallet')
    BY <1>1, <1>2, <1>4, <2>2, <2>5, ShapeOf DEF Shape
  <2>7. /\ ui'.stack = Flow(6) /\ ui'.review = 0 /\ ui'.alert = "none" /\ svc'.subs = {w}
        /\ job'.notice \subseteq {w} /\ job'.resume = {} /\ job'.post = {}
    BY <1>1, <1>4, <2>2, <2>3, <2>5
  <2> QED BY <2>2, <2>5, <2>6, <2>7, SubscribedLate
<1> QED BY <1>1, <1>5, <1>6, <1>7

LEMMA NoticeKeeps ==
  ASSUME RInv, NEW w \in job.notice, Notice(w)
  PROVE  RInv'
<1>1. Alive /\ keys' = keys /\ ui' = ui /\ app' = app
  BY DEF Notice
<1>2. Shape /\ LateInv
  BY <1>1 DEF RInv
<1>3. w \in svc.subs
  BY <1>2 DEF LateInv
<1>4. /\ ~Early /\ EarlyJobs /\ ui.stack = Flow(6) /\ ui.review = 0
      /\ ui.alert = "none" /\ ~IsReadyToUse(wallet)
      /\ svc.subs = {w} /\ InProgress(w) /\ job.notice \subseteq {w} /\ job.resume = {}
      /\ job.post = {}
  BY <1>1, <1>3, SubscribedFacts
<1> DEFINE h == job.notice \ {w}
           j == [job EXCEPT !.notice = h]
           p == [at |-> "answer", w |-> Proceeded(w)]
           g == j.post \cup {p}
           none == {}
<1>5. \/ job' = j /\ wallet' = wallet /\ svc' = svc
      \/ /\ svc' = [svc EXCEPT !.subs = none]
         /\ \/ wallet' = Proceeded(w) /\ job' = [j EXCEPT !.post = g]
            \/ wallet' = RecoveryDraft /\ job' = j
            \/ wallet' = wallet /\ job' = j
  <2>1. CASE HasTx /\ Find.status = "pending"
    BY <2>1 DEF Notice
  <2>2. CASE ~(HasTx /\ Find.status = "pending") /\ ~HasTx
    BY <2>2 DEF Notice
  <2>3. CASE ~(HasTx /\ Find.status = "pending") /\ HasTx
    <3>1. svc' = [svc EXCEPT !.subs = none] /\ HandleProgress(Find, w, j)
      BY <2>3 DEF Notice
    <3> HIDE DEF j
    <3>2. CASE Find.status = "success"
      BY <3>1, <3>2 DEF HandleProgress
    <3>3. CASE Find.status = "failed"
      BY <3>1, <3>3 DEF HandleProgress
    <3>4. CASE Find.status \notin {"success", "failed"}
      BY <3>1, <3>4 DEF HandleProgress
    <3> QED BY <3>2, <3>3, <3>4
  <2> QED BY <2>1, <2>2, <2>3
<1>6. h = {}
  BY <1>4
<1>7. j = [job EXCEPT !.notice = h]
  OBVIOUS
<1> HIDE DEF h, j, none
<1>8. j = [pull |-> job.pull, create |-> job.create, provide |-> job.provide,
           pair |-> job.pair, deaf |-> job.deaf, cancel |-> job.cancel,
           resume |-> job.resume, notice |-> h, post |-> job.post]
  BY <1>2, <1>7, JobParts DEF Shape
<1>9. ui'.stack = Flow(6) /\ ui'.review = 0 /\ ui'.alert = "none"
  BY <1>1, <1>4
<1>10. ASSUME job' = j
       PROVE  /\ IsJob(job)' /\ EarlyJobs' /\ ~Early'
              /\ job'.resume = {} /\ job'.notice = {} /\ job'.post = {}
  BY <1>2, <1>4, <1>6, <1>8, <1>10, LateJobs
<1>11. CASE job' = j /\ wallet' = wallet /\ svc' = svc
  <2>1. /\ IsJob(job)' /\ EarlyJobs' /\ ~Early'
        /\ job'.resume = {} /\ job'.notice = {} /\ job'.post = {}
    BY <1>10, <1>11
  <2>2. Shape' /\ ~IsReadyToUse(wallet') /\ svc'.subs = {w} /\ job'.notice \subseteq {w}
    BY <1>1, <1>2, <1>4, <1>11, <2>1, ShapeOf DEF Shape
  <2> QED BY <1>4, <1>9, <2>1, <2>2, SubscribedLate
<1>12. ASSUME svc' = [svc EXCEPT !.subs = none] PROVE IsService(svc') /\ svc'.subs = {}
  BY <1>2, <1>12, ServiceFacts DEF Shape, none
<1>13. CASE svc' = [svc EXCEPT !.subs = none] /\ wallet' \in {RecoveryDraft, wallet} /\ job' = j
  <2>1. /\ IsJob(job)' /\ EarlyJobs' /\ ~Early'
        /\ job'.resume = {} /\ job'.notice = {} /\ job'.post = {}
    BY <1>10, <1>13
  <2>2. IsWallet(wallet') /\ ~IsReadyToUse(wallet')
    <3>1. IsWallet(RecoveryDraft) /\ ~IsReadyToUse(RecoveryDraft)
      BY RecordFacts, DraftFacts
    <3> QED BY <1>2, <1>4, <1>13, <3>1 DEF Shape
  <2>3. Shape' /\ svc'.subs = {}
    BY <1>1, <1>2, <1>12, <1>13, <2>1, <2>2, ShapeOf DEF Shape
  <2> QED BY <1>9, <2>1, <2>2, <2>3, IdleLate
<1>14. CASE svc' = [svc EXCEPT !.subs = none] /\ wallet' = Proceeded(w)
            /\ job' = [j EXCEPT !.post = g]
  <2>1. g = {p}
    BY <1>4, <1>8
  <2>2. IsPost(p) /\ p.at = "answer" /\ p.w = Proceeded(w)
    BY DEF IsPost
  <2>3. Finalizing(Proceeded(w))
    BY <1>4, DraftFacts, ProceededFacts
  <2> HIDE DEF g, p
  <2>4. job' = [pull |-> job.pull, create |-> job.create, provide |-> job.provide,
                pair |-> job.pair, deaf |-> job.deaf, cancel |-> job.cancel,
                resume |-> job.resume, notice |-> h, post |-> g]
    BY <1>8, <1>14
  <2>5. /\ IsJob(job)' /\ EarlyJobs' /\ ~Early'
        /\ job'.resume = {} /\ job'.notice = {} /\ job'.post = {p}
    BY <1>2, <1>4, <1>6, <2>1, <2>4, LateJobs
  <2>6. IsWallet(wallet') /\ ~IsReadyToUse(wallet')
    BY <1>14, <2>3, DraftFacts
  <2>7. Shape' /\ svc'.subs = {}
    BY <1>1, <1>2, <1>12, <1>14, <2>5, <2>6, ShapeOf DEF Shape
  <2>8. Finalizing(p.w) /\ p.at \in {"answer", "ready"} /\ p.at # "ready"
    BY <2>2, <2>3
  <2> QED BY <1>9, <2>2, <2>5, <2>6, <2>7, <2>8, PostLate
<1> QED BY <1>5, <1>11, <1>13, <1>14

\* A post-processing is at work.
LEMMA PostFacts ==
  ASSUME RInv, Alive, NEW p \in job.post
  PROVE  /\ Shape /\ ~Early /\ EarlyJobs /\ ui.stack = Flow(6) /\ ui.review = 0
         /\ ui.alert = "none" /\ ~IsReadyToUse(wallet)
         /\ job.post = {p} /\ IsPost(p) /\ Finalizing(p.w)
         /\ p.at = "ready" => p.w.phrase \notin keys
         /\ job.resume = {} /\ job.notice = {} /\ svc.subs = {}
<1>1. Late
  BY DEF Late
<1>2. /\ Shape /\ LateInv /\ ~Early /\ EarlyJobs
      /\ ui.stack = Flow(6) /\ ui.review = 0 /\ ui.alert = "none"
      /\ ~IsReadyToUse(wallet)
  BY <1>1, LateFacts
<1>3. job.post # {}
  OBVIOUS
<1>4. /\ \E x \in job.post : job.post = {x} /\ PostInv(x)
      /\ job.resume = {} /\ job.notice = {} /\ svc.subs = {}
  BY <1>2, <1>3 DEF LateInv
<1>5. PICK x \in job.post : job.post = {x} /\ PostInv(x)
  BY <1>4
<1>6. x = p
  BY <1>5
<1>7. PostInv(p) /\ job.post = {p}
  BY <1>5, <1>6
<1> QED BY <1>2, <1>4, <1>7 DEF PostInv

\* It goes on as q, or ends.
PostBecomes(p, S) == [job EXCEPT !.post = (@ \ {p}) \cup S]

LEMMA PostJobs ==
  ASSUME RInv, Alive, NEW p \in job.post, NEW S, job' = PostBecomes(p, S)
  PROVE  /\ IsJob(job)' /\ EarlyJobs' /\ ~Early'
         /\ job'.resume = {} /\ job'.notice = {} /\ job'.post = S
<1>1. Shape /\ ~Early /\ EarlyJobs /\ job.post = {p} /\ job.resume = {} /\ job.notice = {}
  BY PostFacts
<1> DEFINE g == (job.post \ {p}) \cup S
<1>2. job' = [job EXCEPT !.post = g]
  BY DEF PostBecomes
<1>3. g = S
  BY <1>1
<1> HIDE DEF g
<1>4. job' = [pull |-> job.pull, create |-> job.create, provide |-> job.provide,
              pair |-> job.pair, deaf |-> job.deaf, cancel |-> job.cancel,
              resume |-> job.resume, notice |-> job.notice, post |-> g]
  BY <1>1, <1>2, JobParts DEF Shape
<1>5. /\ IsJob(job)' /\ EarlyJobs' /\ ~Early'
      /\ job'.resume = job.resume /\ job'.notice = job.notice /\ job'.post = g
  BY <1>1, <1>4, LateJobs
<1> QED BY <1>1, <1>3, <1>5

LEMMA PostEnded ==
  ASSUME RInv, Alive, NEW p \in job.post, job' = [job EXCEPT !.post = @ \ {p}]
  PROVE  /\ IsJob(job)' /\ EarlyJobs' /\ ~Early'
         /\ job'.resume = {} /\ job'.notice = {} /\ job'.post = {}
<1> DEFINE S == {}
<1>1. (job.post \ {p}) \cup S = job.post \ {p}
  OBVIOUS
<1>2. job' = PostBecomes(p, S)
  BY <1>1 DEF PostBecomes
<1> HIDE DEF S
<1>3. /\ IsJob(job)' /\ EarlyJobs' /\ ~Early'
      /\ job'.resume = {} /\ job'.notice = {} /\ job'.post = S
  BY <1>2, PostJobs
<1> QED BY <1>3 DEF S

LEMMA PostAnswerHolds ==
  ASSUME RInv, NEW p \in job.post, PostAnswer(p)
  PROVE  RInv'
<1> DEFINE q == [p EXCEPT !.at = "ready"]
           S == {q}
<1>1. /\ Alive /\ keys' = keys \ {p.w.phrase}
      /\ job' = PostBecomes(p, S)
      /\ wallet' = wallet /\ ui' = ui /\ svc' = svc /\ app' = app
  BY DEF PostAnswer, PostBecomes
<1>2. /\ Shape /\ ui.stack = Flow(6) /\ ui.review = 0
      /\ ui.alert = "none" /\ ~IsReadyToUse(wallet) /\ IsPost(p) /\ Finalizing(p.w)
      /\ svc.subs = {}
  BY <1>1, PostFacts
<1>3. IsPost(q) /\ q.at = "ready" /\ q.w = p.w
  <2>1. q = [p EXCEPT !.at = "ready"]
    OBVIOUS
  <2> HIDE DEF q
  <2>2. q = [at |-> "ready", w |-> p.w]
    BY <1>2, <2>1 DEF IsPost
  <2> QED BY <2>2 DEF IsPost
<1> HIDE DEF q, S
<1>4. /\ IsJob(job)' /\ EarlyJobs' /\ ~Early'
      /\ job'.resume = {} /\ job'.notice = {} /\ job'.post = S
  BY <1>1, PostJobs
<1>5. Shape' /\ ~IsReadyToUse(wallet') /\ svc'.subs = {}
  BY <1>1, <1>2, <1>4, ShapeOf DEF Shape
<1>6. ui'.stack = Flow(6) /\ ui'.review = 0 /\ ui'.alert = "none"
  BY <1>1, <1>2
<1>7. Finalizing(q.w) /\ q.at \in {"answer", "ready"} /\ q.w.phrase \notin keys'
  BY <1>1, <1>2, <1>3
<1>8. job'.post = {q}
  BY <1>4 DEF S
<1> QED BY <1>3, <1>4, <1>5, <1>6, <1>7, <1>8, PostLate

LEMMA PostReadyKeeps ==
  ASSUME RInv, NEW p \in job.post, PostReady(p)
  PROVE  RInv'
<1> DEFINE v == Proceeded(p.w)
           none == {}
<1>1. /\ Alive /\ p.at = "ready" /\ keys' = keys /\ svc' = svc
      /\ \/ Trap("unknown") /\ wallet' = v /\ ui' = ui /\ job' = job
         \/ /\ wallet' = [v EXCEPT !.unknown = none]
            /\ ui' = IF Contains(ui.stack, "progress") THEN Opened("main") ELSE ui
            /\ job' = [job EXCEPT !.post = @ \ {p}]
            /\ app' = app
  BY DEF PostReady
<1>2. /\ Shape /\ ui.stack = Flow(6) /\ ui.review = 0
      /\ ui.alert = "none" /\ IsPost(p) /\ Finalizing(p.w) /\ p.w.phrase \notin keys
      /\ svc.subs = {}
  BY <1>1, PostFacts
<1>3. IsWallet(v) /\ v.phrase = p.w.phrase
  BY <1>2, DraftFacts, ProceededFacts
<1> HIDE DEF v, none
<1>4. CASE Trap("unknown") /\ wallet' = v /\ ui' = ui /\ job' = job
  <2>1. IsApp(app') /\ app'.trap = "unknown"
    BY <1>2, <1>4, AppFacts DEF Shape
  <2>2. Shape'
    BY <1>1, <1>2, <1>3, <1>4, <2>1, ShapeOf DEF Shape
  <2>3. PhraseForgotten'
    BY <1>1, <1>2, <1>3, <1>4 DEF PhraseForgotten
  <2>4. ~Alive'
    BY <2>1 DEF Alive
  <2> QED BY <2>2, <2>3, <2>4, DeadKeeps
<1>5. CASE /\ wallet' = [v EXCEPT !.unknown = none]
           /\ ui' = IF Contains(ui.stack, "progress") THEN Opened("main") ELSE ui
           /\ job' = [job EXCEPT !.post = @ \ {p}]
           /\ app' = app
  <2>1. IsWallet(wallet') /\ wallet'.phrase = v.phrase
    BY <1>3, <1>5, WalletFacts
  <2>2. Contains(ui.stack, "progress")
    <3>1. Len(Flow(6)) = 6 /\ Flow(6)[6] = "progress"
      BY FlowIs, AllScreensFacts
    <3>2. 6 \in 1 .. Len(ui.stack) /\ ui.stack[6] = "progress"
      BY <1>2, <3>1
    <3> QED BY <3>2 DEF Contains
  <2>3. IsUi(ui') /\ ui'.stack = <<"main">> /\ ui'.review = 0 /\ ui'.alert = "none"
    BY <1>5, <2>2, RecordFacts
  <2>4. /\ IsJob(job)' /\ EarlyJobs' /\ ~Early'
        /\ job'.resume = {} /\ job'.notice = {} /\ job'.post = {}
    BY <1>1, <1>5, PostEnded
  <2>5. Shape'
    BY <1>1, <1>2, <1>5, <2>1, <2>3, <2>4, ShapeOf DEF Shape
  <2>6. PhraseForgotten'
    BY <1>1, <1>2, <1>3, <2>1 DEF PhraseForgotten
  <2>7. ~Late'
    BY <1>1, <1>2, <2>4 DEF Late
  <2> QED BY <2>3, <2>4, <2>5, <2>6, <2>7, EdgeKeeps
<1> QED BY <1>1, <1>4, <1>5

LEMMA PostTrapsKeeps ==
  ASSUME RInv, NEW p \in job.post, PostTraps(p)
  PROVE  RInv'
<1>1. /\ Alive /\ Trap("address") /\ wallet' = wallet /\ ui' = ui /\ job' = job /\ svc' = svc
  BY DEF PostTraps, database
<1>2. Shape /\ ~IsReadyToUse(wallet)
  BY <1>1, PostFacts
<1>3. IsService(svc')
  BY <1>1, <1>2 DEF Shape
<1> QED BY <1>1, <1>2, <1>3, TrapLate

LEMMA PostFailsKeeps ==
  ASSUME RInv, NEW p \in job.post, PostFails(p)
  PROVE  RInv'
<1>1. /\ Alive /\ (app' = app \/ Fail) /\ wallet' = RecoveryDraft /\ ui' = ErrorShown(ui)
      /\ job' = [job EXCEPT !.post = @ \ {p}] /\ svc' = svc
  BY DEF PostFails
<1>2. /\ Shape /\ ui.stack = Flow(6) /\ ui.review = 0
      /\ ui.alert = "none" /\ svc.subs = {}
  BY <1>1, PostFacts
<1>3. Draft(wallet') /\ ~IsReadyToUse(wallet') /\ IsWallet(wallet')
  BY <1>1, RecordFacts, DraftFacts
<1>4. IsUi(ui') /\ ui'.stack = Flow(6) /\ ui'.review = 0 /\ ui'.alert \in {"none", "progress"}
  BY <1>1, <1>2, LateError DEF Shape
<1>5. /\ IsJob(job)' /\ EarlyJobs' /\ ~Early'
      /\ job'.resume = {} /\ job'.notice = {} /\ job'.post = {}
  BY <1>1, PostEnded
<1>6. IsApp(app')
  BY <1>1, <1>2, AppFacts DEF Shape
<1>7. Shape' /\ svc'.subs = {}
  BY <1>1, <1>2, <1>3, <1>4, <1>5, <1>6, ShapeOf DEF Shape
<1> QED BY <1>3, <1>4, <1>5, <1>7, IdleLate

-----------------------------------------------------------------------------
(* The chain, the poll and the process.                                    *)

LEMMA MineKeeps ==
  ASSUME RInv, NEW s \in Safe, Mine(s)
  PROVE  RInv'
<1>1. /\ (app' = app \/ Fail) /\ wallet' = wallet /\ keys' = keys /\ ui' = ui /\ job' = job
      /\ svc' = svc
  BY DEF Mine, database
<1>2. Shape
  BY DEF RInv
<1>3. IsApp(app') /\ app'.trap = app.trap
  BY <1>1, <1>2, AppFacts DEF Shape
<1>4. Shape' /\ svc'.subs = svc.subs
  BY <1>1, <1>2, <1>3, ShapeOf DEF Shape
<1> QED BY <1>1, <1>3, <1>4, FrameKeeps

LEMMA PollKeeps ==
  ASSUME RInv, Poll \/ PollFails
  PROVE  RInv'
<1>1. /\ (app' = app \/ Fail) /\ wallet' = wallet /\ keys' = keys /\ ui' = ui /\ job' = job
      /\ \E x : svc' = [svc EXCEPT !.polled = x]
  <2>1. CASE Poll
    BY <2>1 DEF Poll, database
  <2>2. CASE PollFails
    BY <2>2 DEF PollFails, database
  <2> QED BY <2>1, <2>2
<1>2. Shape
  BY DEF RInv
<1>3. IsApp(app') /\ app'.trap = app.trap
  BY <1>1, <1>2, AppFacts DEF Shape
<1>4. IsService(svc') /\ svc'.subs = svc.subs
  BY <1>1, <1>2, ServiceFacts DEF Shape
<1>5. Shape'
  BY <1>1, <1>2, <1>3, <1>4, ShapeOf DEF Shape
<1> QED BY <1>1, <1>3, <1>4, <1>5, FrameKeeps

LEMMA KillKeeps ==
  ASSUME RInv, Kill
  PROVE  RInv'
<1> DEFINE n == app.kills + 1
<1>1. /\ app' = [app EXCEPT !.trap = "killed", !.kills = n] /\ wallet' = wallet /\ keys' = keys
      /\ ui' = ui /\ job' = job /\ svc' = svc
  BY DEF Kill, database
<1> HIDE DEF n
<1>2. Shape /\ PhraseForgotten
  BY DEF RInv
<1>3. app' = [trap |-> "killed", entries |-> app.entries, reviews |-> app.reviews,
              fails |-> app.fails, kills |-> n]
  BY <1>1, <1>2 DEF Shape, IsApp
<1>4. IsApp(app') /\ ~Alive'
  BY <1>3 DEF IsApp, Alive
<1>5. Shape'
  BY <1>1, <1>2, <1>4, ShapeOf DEF Shape
<1>6. PhraseForgotten'
  BY <1>1, <1>2 DEF PhraseForgotten
<1> QED BY <1>4, <1>5, <1>6, DeadKeeps

\* A process with nothing at work.
LEMMA FreshKeeps ==
  ASSUME Shape', PhraseForgotten', job' = NoJob, svc' = NoService,
         \/ ui' = Opened("options") /\ ~IsReadyToUse(wallet')
         \/ ui' = Opened("main")
  PROVE  RInv'
<1>1. /\ job'.provide = NoSafe /\ job'.pair = NoOwner /\ job'.cancel = 0
      /\ job'.resume = {} /\ job'.notice = {} /\ job'.post = {}
      /\ \A i \in Entry : job'.pull[i].at = "none"
      /\ \A k \in Id : job'.create[k].at = "none"
  BY NoJobFacts
<1>2. EarlyJobs'
  BY <1>1 DEF EarlyJobs
<1>3. ~Early'
  BY <1>1 DEF Early, Pulling, CreatingNow
<1>4. svc'.subs = {}
  BY RecordFacts
<1>5. ~Late'
  BY <1>1, <1>4 DEF Late
<1>6. \/ ui'.stack = Flow(1) /\ ~IsReadyToUse(wallet')
      \/ ui'.stack = <<"main">>
  BY RecordFacts, FlowOneTwo
<1>7. ui'.review = 0 /\ ui'.alert = "none"
  BY RecordFacts
<1> QED BY <1>2, <1>3, <1>5, <1>6, <1>7, EdgeKeeps

LEMMA RelaunchKeeps ==
  ASSUME RInv, Relaunch
  PROVE  RInv'
<1>1. /\ app' = [app EXCEPT !.trap = "no"] /\ job' = NoJob /\ svc' = NoService
      /\ wallet' = wallet /\ keys' = keys
      /\ \/ ui' = Opened("options") /\ ~IsReadyToUse(wallet)
         \/ ui' = Opened("main")
  BY DEF Relaunch, database
<1>2. Shape /\ PhraseForgotten
  BY DEF RInv
<1>3. IsApp(app')
  BY <1>1, <1>2, AppFacts DEF Shape, Trap
<1>4. IsJob(job)' /\ IsService(svc')
  BY <1>1, NoJobFacts, RecordFacts
<1>5. IsUi(ui')
  BY <1>1, RecordFacts
<1>6. Shape'
  BY <1>1, <1>2, <1>3, <1>4, <1>5, ShapeOf DEF Shape
<1>7. PhraseForgotten'
  BY <1>1, <1>2 DEF PhraseForgotten
<1>8. \/ ui' = Opened("options") /\ ~IsReadyToUse(wallet')
      \/ ui' = Opened("main")
  BY <1>1
<1> QED BY <1>1, <1>6, <1>7, <1>8, FreshKeeps

-----------------------------------------------------------------------------
(* The theorems.                                                           *)

LEMMA InitKeeps ==
  ASSUME Init
  PROVE  RInv
<1>1. /\ wallet = NoWallet /\ ui = Opened("options") /\ job = NoJob /\ svc = NoService
      /\ app = [trap |-> "no", entries |-> 0, reviews |-> 0, fails |-> 0, kills |-> 0]
  BY DEF Init
<1>2. IsWallet(wallet) /\ ~IsReadyToUse(wallet) /\ IsUi(ui) /\ IsService(svc) /\ svc.subs = {}
  BY <1>1, RecordFacts DEF IsReadyToUse
<1>3. /\ IsJob(job) /\ job.provide = NoSafe /\ job.pair = NoOwner /\ job.cancel = 0
      /\ job.resume = {} /\ job.notice = {} /\ job.post = {}
      /\ \A i \in Entry : job.pull[i].at = "none"
      /\ \A k \in Id : job.create[k].at = "none"
  BY <1>1, NoJobFacts
<1>4. IsApp(app)
  BY <1>1 DEF IsApp
<1>5. Shape /\ PhraseForgotten
  BY <1>2, <1>3, <1>4 DEF Shape, PhraseForgotten
<1>6. ~Late /\ ~Early
  BY <1>2, <1>3 DEF Late, Early, Pulling, CreatingNow
<1>7. ui.stack = Flow(1) /\ ui.review = 0 /\ ui.alert = "none"
  BY <1>1, RecordFacts, FlowOneTwo
<1>8. Top = "options" /\ ui.stack \in Stacks
  <2>1. Last(Flow(1)) = "options"
    BY FlowLast, AllScreensFacts
  <2> QED BY <1>7, <2>1 DEF Top, Stacks
<1>9. StackInv
  BY <1>2, <1>7, <1>8 DEF StackInv
<1>10. EarlyInv
  BY <1>3, <1>6 DEF EarlyInv
<1>11. LateInv
  BY <1>6 DEF LateInv, Late
<1> QED BY <1>5, <1>9, <1>10, <1>11 DEF RInv

LEMMA StutterKeeps ==
  ASSUME RInv, UNCHANGED vars
  PROVE  RInv'
<1>1. /\ wallet' = wallet /\ keys' = keys /\ ui' = ui /\ job' = job /\ svc' = svc /\ app' = app
  BY DEF vars
<1>2. Shape'
  BY <1>1, ShapeOf DEF RInv, Shape
<1>3. svc'.subs = svc.subs /\ app'.trap = app.trap
  BY <1>1
<1> QED BY <1>1, <1>2, <1>3, FrameKeeps

LEMMA StepKeeps ==
  ASSUME Patient, RInv, [Next]_vars
  PROVE  RInv'
<1>1. CASE User
  <2>1. CASE TapRecover \/ Back \/ StartEntry \/ NextAddress
    BY <2>1, TapRecoverKeeps, BackKeeps, StartEntryKeeps, NextAddressKeeps
  <2>2. CASE Skip \/ CancelReview \/ Submit \/ DismissAlert
    BY <2>2, SkipKeeps, CancelReviewKeeps, SubmitKeeps, DismissAlertKeeps
  <2>3. ASSUME NEW s \in Safe, EnterAddress(s) \/ EnterPhrase(s) PROVE RInv'
    BY <2>3, EnterAddressKeeps, EnterPhraseKeeps
  <2>4. ASSUME NEW e \in Extension, Scan(e) PROVE RInv'
    BY <2>4, ScanKeeps
  <2> QED BY <1>1, <2>1, <2>2, <2>3, <2>4 DEF User
<1>2. CASE Closure
  <2>1. CASE SetUp \/ Provide \/ Paired \/ PairFails \/ CancelRecovery
    BY <2>1, SetUpKeeps, ProvideKeeps, PairedKeeps, PairFailsKeeps, CancelRecoveryKeeps
  <2>2. ASSUME NEW i \in Entry, ChangeAddress(i) \/ PullWalletData(i) \/ AddressFails(i)
        PROVE  RInv'
    BY <2>2, ChangeAddressKeeps, PullWalletDataKeeps, AddressFailsKeeps
  <2>3. ASSUME NEW k \in Id, \/ CreateBegin(k) \/ CreatePull(k) \/ CreatePullFails(k)
                             \/ CreateEstimate(k) \/ CreateFails(k)
        PROVE  RInv'
    BY <2>3, CreateBeginKeeps, CreatePullKeeps, CreatePullFailsKeeps, CreateEstimateKeeps,
       CreateFailsKeeps
  <2>4. ASSUME NEW r \in job.resume, ResumeBegin(r) \/ ResumeSubmit(r) \/ SubmitFails(r)
        PROVE  RInv'
    BY <2>4, ResumeBeginKeeps, ResumeSubmitKeeps, SubmitFailsKeeps
  <2>5. ASSUME NEW r \in job.resume, ResumeProceed(r) \/ ResumeCheck(r) \/ ResumeSubscribe(r)
        PROVE  RInv'
    BY <2>5, ResumeProceedKeeps, ResumeCheckKeeps, ResumeSubscribeKeeps
  <2>6. ASSUME NEW w \in job.notice, Notice(w) PROVE RInv'
    BY <2>6, NoticeKeeps
  <2>7. ASSUME NEW p \in job.post, PostAnswer(p) \/ PostReady(p) \/ PostFails(p) \/ PostTraps(p)
        PROVE  RInv'
    BY <2>7, PostAnswerHolds, PostReadyKeeps, PostFailsKeeps, PostTrapsKeeps
  <2> QED BY <1>2, <2>1, <2>2, <2>3, <2>4, <2>5, <2>6, <2>7 DEF Closure
<1>3. CASE Poll \/ PollAnswer \/ PollFails
  BY <1>3, PollKeeps, PollAnswerKeeps
<1>4. CASE Mined
  BY <1>4, MineKeeps DEF Mined
<1>5. CASE Kill \/ Relaunch
  BY <1>5, KillKeeps, RelaunchKeeps
<1>6. CASE UNCHANGED vars
  BY <1>6, StutterKeeps
<1> QED BY <1>1, <1>2, <1>3, <1>4, <1>5, <1>6 DEF Next

(* A user who waits until nothing is running never brings two parts of the  *)
(* recovery together: while the address, the phrase and the extension are   *)
(* entered the wallet is a draft, and on the progress screen there is one   *)
(* resumption, one subscriber or one post-processing at work.               *)
THEOREM RecoveryInvariant == ASSUME Patient PROVE Spec => []RInv
<1>1. Init => RInv
  BY InitKeeps
<1>2. RInv /\ [Next]_vars => RInv'
  BY StepKeeps
<1> QED BY <1>1, <1>2, PTL DEF Spec

(* Once the wallet is ready to use the private keys of its phrase are no    *)
(* longer on the phone, however often the app is killed or fails on the way *)
(* (RecoveryDomainService.postProcessing()).                                *)
THEOREM PhraseIsForgotten == ASSUME Patient PROVE Spec => []PhraseForgotten
<1>1. RInv => PhraseForgotten
  BY DEF RInv
<1> QED BY <1>1, RecoveryInvariant, PTL

\* A ready wallet is on the main screen, and nothing is at work.
LEMMA ReadyIdle ==
  ASSUME RInv, Alive, IsReadyToUse(wallet)
  PROVE  /\ Top = "main" /\ ~Early /\ ~Pulling /\ ~CreatingNow
         /\ job.provide = NoSafe /\ job.pair = NoOwner /\ job.cancel = 0
         /\ job.resume = {} /\ job.notice = {} /\ job.post = {}
<1>1. StackInv /\ EarlyInv /\ LateInv
  BY DEF RInv
<1>2. ~Draft(wallet)
  BY DraftFacts
<1>3. Top \in Screen
  BY <1>1, StackTop DEF StackInv, Top
<1>4. Top = "main"
  BY <1>1, <1>2, <1>3 DEF StackInv, Screen
<1>5. ~Early /\ ~Late
  BY <1>1, <1>4 DEF EarlyInv, LateInv
<1> QED BY <1>4, <1>5 DEF Early, Late

LEMMA ReadyStays ==
  ASSUME RInv, [Next]_vars, IsReadyToUse(wallet)
  PROVE  wallet' = wallet
<1>1. CASE User
  <2>1. ~UserActs("options") /\ ~UserActs("pair")
    BY ReadyIdle DEF UserActs
  <2>2. ~TapRecover /\ ~Skip
    BY <2>1 DEF TapRecover, Skip
  <2>3. CASE Back \/ StartEntry \/ NextAddress
    BY <2>3 DEF Back, StartEntry, NextAddress, database
  <2>4. CASE CancelReview \/ Submit \/ DismissAlert
    BY <2>4 DEF CancelReview, Submit, DismissAlert, database
  <2>5. ASSUME NEW s \in Safe, EnterAddress(s) \/ EnterPhrase(s) PROVE wallet' = wallet
    <3>1. UNCHANGED database
      BY <2>5, Zenon DEF EnterAddress, EnterPhrase
    <3> QED BY <3>1 DEF database
  <2>6. ASSUME NEW e \in Extension, Scan(e) PROVE wallet' = wallet
    BY <2>6 DEF Scan, database
  <2> QED BY <1>1, <2>2, <2>3, <2>4, <2>5, <2>6 DEF User
<1>2. CASE Closure
  <2>1. CASE SetUp
    BY <2>1 DEF SetUp, database
  <2>2. CASE Provide \/ Paired \/ PairFails \/ CancelRecovery
    BY <2>2, ReadyIdle DEF Provide, Paired, PairFails, CancelRecovery
  <2>3. ASSUME NEW i \in Entry, ChangeAddress(i) \/ PullWalletData(i) \/ AddressFails(i)
        PROVE  FALSE
    <3>1. Alive /\ job.pull[i].at \in {"check", "pull"}
      BY <2>3, Zenon DEF ChangeAddress, PullWalletData, AddressFails
    <3> QED BY <3>1, ReadyIdle DEF Pulling
  <2>4. ASSUME NEW k \in Id, \/ CreateBegin(k) \/ CreatePull(k) \/ CreatePullFails(k)
                             \/ CreateEstimate(k) \/ CreateFails(k)
        PROVE  FALSE
    <3>1. Alive /\ job.create[k].at \in {"begin", "pull", "estimate"}
      BY <2>4, Zenon DEF CreateBegin, CreatePull, CreatePullFails, CreateEstimate, CreateFails
    <3> QED BY <3>1, ReadyIdle DEF CreatingNow
  <2>5. ASSUME NEW r \in job.resume, \/ ResumeBegin(r) \/ ResumeSubmit(r) \/ SubmitFails(r)
                                     \/ ResumeProceed(r) \/ ResumeCheck(r) \/ ResumeSubscribe(r)
        PROVE  FALSE
    <3>1. Alive
      BY <2>5, Zenon DEF ResumeBegin, ResumeSubmit, SubmitFails, ResumeProceed, ResumeCheck,
         ResumeSubscribe
    <3> QED BY <3>1, ReadyIdle
  <2>6. ASSUME NEW w \in job.notice, Notice(w) PROVE FALSE
    <3>1. Alive
      BY <2>6, Zenon DEF Notice
    <3> QED BY <3>1, ReadyIdle
  <2>7. ASSUME NEW p \in job.post, PostAnswer(p) \/ PostReady(p) \/ PostFails(p) \/ PostTraps(p)
        PROVE  FALSE
    <3>1. Alive
      BY <2>7, Zenon DEF PostAnswer, PostReady, PostFails, PostTraps
    <3> QED BY <3>1, ReadyIdle
  <2> QED BY <1>2, <2>1, <2>2, <2>3, <2>4, <2>5, <2>6, <2>7 DEF Closure
<1>3. CASE Poll \/ PollAnswer \/ PollFails
  BY <1>3 DEF Poll, PollAnswer, PollFails, database
<1>4. CASE Mined
  BY <1>4 DEF Mined, Mine, database
<1>5. CASE Kill \/ Relaunch
  BY <1>5 DEF Kill, Relaunch, database
<1>6. CASE UNCHANGED vars
  BY <1>6 DEF vars
<1> QED BY <1>1, <1>2, <1>3, <1>4, <1>5, <1>6 DEF Next

(* A recovered wallet stays recovered: no closure that is still on a queue, *)
(* no poll, kill or restart takes the wallet out of readyToUse, and nothing *)
(* the user does in this flow (Wallet.state, RecoverSafeFlowCoordinator).   *)
THEOREM RecoveredStays == ASSUME Patient PROVE Spec => RecoveredForGood
<1>1. RInv /\ [Next]_vars => [IsReadyToUse(wallet) => IsReadyToUse(wallet')]_vars
  BY ReadyStays
<1> QED BY <1>1, RecoveryInvariant, PTL DEF Spec, RecoveredForGood
=============================================================================
