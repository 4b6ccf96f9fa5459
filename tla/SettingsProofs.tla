---------------------------- MODULE SettingsProofs ----------------------------
(***************************************************************************)
(* What TLAPS checks about the operators of Settings that do arithmetic or *)
(* pass over a list: the size of user data in base64, and the subnet that  *)
(* resolve_default_subnet picks, for every size and every answer of EC2.   *)
(***************************************************************************)
EXTENDS Settings, SequenceTheorems, WellFoundedInduction, TLAPS

(* The limit on user data in base64 never refuses what the one on bytes    *)
(* lets through: 16384 bytes are 21848 characters, padding included.       *)
LEMMA Base64Fits ==
  ASSUME NEW n \in Nat, n <= USER_DATA_RAW_BYTES_MAX
  PROVE  B64Len(n) <= USER_DATA_BASE64_BYTES_MAX
  <1>1. (n + 2) \div 3 <= 5462
    BY DEF USER_DATA_RAW_BYTES_MAX
  <1> QED BY <1>1 DEF B64Len, USER_DATA_BASE64_BYTES_MAX

(* The order of the naturals is well-founded. *)
LEMMA LeastExists ==
  ASSUME NEW S, S \subseteq Nat, S # {}
  PROVE  \E i \in S : \A j \in S : i <= j
  <1>1. PICK i \in S : \A j \in S : <<j, i>> \notin OpToRel(<, Nat)
    BY NatLessThanWellFounded, WFMin, Zenon
  <1>2. \A j \in S : ~(j < i)
    BY <1>1, Zenon DEF OpToRel
  <1> QED BY <1>2

(* Induction over the naturals, for a set in the place of a predicate: the *)
(* least number that is not in the set would have a predecessor that is.   *)
LEMMA Induction ==
  ASSUME NEW S, 0 \in S, \A n \in Nat : n \in S => n + 1 \in S
  PROVE  Nat \subseteq S
  <1> DEFINE Out == Nat \ S
  <1> SUFFICES ASSUME Out # {} PROVE FALSE
    OBVIOUS
  <1> HIDE DEF Out
  <1>1. PICK n \in Out : \A m \in Out : n <= m
    BY LeastExists DEF Out
  <1>2. n \in Nat \ {0} /\ n - 1 \in S
    BY <1>1 DEF Out
  <1> QED BY <1>1, <1>2 DEF Out

--------------------------------------------------------------------------------
(* One round of resolve_default_subnet's loop. *)
Pass(picked, s) == IF Nearer(s, picked) THEN s ELSE picked

(* The function that FoldLeft chooses: from each set of places in the      *)
(* answer to the subnet that a pass over those places picks.               *)
Iter(l) == CHOOSE iter : iter = [S \in SUBSET DOMAIN l |->
  IF S = {} THEN None ELSE Pass(iter[S \ {Max(S)}], l[Max(S)])]

LEMMA PickIsIter == \A l : PickSubnet(l) = Iter(l)[DOMAIN l]
  BY DEF PickSubnet, FoldLeft, MapThenFoldSet, Pass, Iter

(* f is such a function for the first n places. *)
IsIter(f, l, n) == f = [S \in SUBSET (1 .. n) |->
  IF S = {} THEN None ELSE Pass(f[S \ {Max(S)}], l[Max(S)])]

(* FoldLeft takes the last place off first. *)
LEMMA LastOne ==
  ASSUME NEW n \in Nat, NEW S \in SUBSET (1 .. n + 1), n + 1 \in S
  PROVE  Max(S) = n + 1 /\ S \ {n + 1} \in SUBSET (1 .. n)
  <1> DEFINE Top(x) == x \in S /\ \A y \in S : x >= y
  <1>1. Top(n + 1)
    OBVIOUS
  <1>2. \A x : Top(x) => x = n + 1
    <2> SUFFICES ASSUME NEW x \in S, x >= n + 1 PROVE x = n + 1
      OBVIOUS
    <2> QED OBVIOUS
  <1>3. Top(CHOOSE x : Top(x))
    BY <1>1, Zenon
  <1>4. Max(S) = CHOOSE x : Top(x)
    BY DEF Max
  <1> QED BY <1>2, <1>3, <1>4

LEMMA MaxIn ==
  ASSUME NEW n \in Nat, NEW S \in SUBSET (1 .. n), S # {}
  PROVE  Max(S) \in S
  <1> DEFINE below == {n - s : s \in S}
  <1>0. \A s \in S : n - s \in Nat
    OBVIOUS
  <1>1. below \subseteq Nat /\ below # {}
    BY <1>0
  <1>2. PICK i \in below : \A j \in below : i <= j
    BY <1>1, LeastExists
  <1>3. PICK m \in S : i = n - m
    BY <1>2
  <1>4. \A y \in S : m >= y
    <2> SUFFICES ASSUME NEW y \in S PROVE m >= y
      OBVIOUS
    <2>1. n - y \in below
      OBVIOUS
    <2> QED BY <1>2, <1>3, <2>1
  <1> QED BY <1>4 DEF Max

(* From n places to n + 1. *)
LEMMA IterStep ==
  ASSUME NEW l, NEW n \in Nat, NEW f, IsIter(f, l, n)
  PROVE  \E g : IsIter(g, l, n + 1)
  <1> DEFINE g == [S \in SUBSET (1 .. n + 1) |->
                     IF n + 1 \in S THEN Pass(f[S \ {n + 1}], l[n + 1]) ELSE f[S]]
  <1>1. ASSUME NEW S \in SUBSET (1 .. n + 1)
        PROVE  g[S] = IF S = {} THEN None ELSE Pass(g[S \ {Max(S)}], l[Max(S)])
    <2>1. CASE n + 1 \in S
      <3>1. /\ Max(S) = n + 1 /\ S \ {n + 1} \in SUBSET (1 .. n)
        BY <2>1, LastOne
      <3>2. g[S \ {n + 1}] = f[S \ {n + 1}]
        BY <3>1
      <3>3. g[S] = Pass(f[S \ {n + 1}], l[n + 1])
        BY <2>1
      <3> QED BY <2>1, <3>1, <3>2, <3>3
    <2>2. CASE n + 1 \notin S
      <3>1. S \in SUBSET (1 .. n)
        BY <2>2
      <3>2. f[S] = IF S = {} THEN None ELSE Pass(f[S \ {Max(S)}], l[Max(S)])
        BY <3>1 DEF IsIter
      <3>3. S # {} => /\ S \ {Max(S)} \in SUBSET (1 .. n + 1)
                      /\ n + 1 \notin S \ {Max(S)}
        BY <2>2
      <3>4. S # {} => g[S \ {Max(S)}] = f[S \ {Max(S)}]
        BY <3>3
      <3>5. g[S] = f[S]
        BY <2>2
      <3> QED BY <3>2, <3>4, <3>5
    <2> QED BY <2>1, <2>2
  <1> HIDE DEF g
  <1>2. g = [S \in SUBSET (1 .. n + 1) |->
               IF S = {} THEN None ELSE Pass(g[S \ {Max(S)}], l[Max(S)])]
    <2>1. g = [S \in SUBSET (1 .. n + 1) |-> g[S]]
      BY DEF g
    <2> QED BY <1>1, <2>1
  <1> QED BY <1>2 DEF IsIter

(* Hence the CHOOSE of Iter has something to choose. *)
LEMMA IterExists ==
  ASSUME NEW l, NEW n \in Nat
  PROVE  \E f : IsIter(f, l, n)
  <1> DEFINE S == {m \in Nat : \E f : IsIter(f, l, m)}
  <1>1. IsIter([T \in SUBSET (1 .. 0) |-> None], l, 0)
    BY DEF IsIter
  <1>2. 0 \in S
    BY <1>1
  <1>3. \A m \in Nat : m \in S => m + 1 \in S
    BY IterStep
  <1>4. Nat \subseteq S
    <2> HIDE DEF S
    <2> QED BY <1>2, <1>3, Induction
  <1> QED BY <1>4

LEMMA IterIsIter ==
  ASSUME NEW l, NEW n \in Nat, DOMAIN l = 1 .. n
  PROVE  IsIter(Iter(l), l, n)
  <1>1. \E f : IsIter(f, l, n)
    BY IterExists
  <1>2. IsIter(CHOOSE f : IsIter(f, l, n), l, n)
    BY <1>1, Zenon
  <1>3. (CHOOSE f : IsIter(f, l, n)) = Iter(l)
    BY Zenon DEF IsIter, Iter
  <1> QED BY <1>2, <1>3

(* The loop: nothing is picked at first, and each round passes one subnet. *)
LEMMA IterPrefix ==
  ASSUME NEW l, NEW n \in Nat, DOMAIN l = 1 .. n
  PROVE  /\ Iter(l)[{}] = None
         /\ \A m \in Nat : m < n =>
              Iter(l)[1 .. m + 1] = Pass(Iter(l)[1 .. m], l[m + 1])
  <1>1. \A S \in SUBSET (1 .. n) :
          Iter(l)[S] = IF S = {} THEN None ELSE Pass(Iter(l)[S \ {Max(S)}], l[Max(S)])
    <2> DEFINE f == Iter(l)
    <2> HIDE DEF f
    <2>1. f = [S \in SUBSET (1 .. n) |->
                 IF S = {} THEN None ELSE Pass(f[S \ {Max(S)}], l[Max(S)])]
      BY IterIsIter DEF IsIter, f
    <2> QED BY <2>1 DEF f
  <1>2. Iter(l)[{}] = None
    BY <1>1
  <1>3. ASSUME NEW m \in Nat, m < n
        PROVE  Iter(l)[1 .. m + 1] = Pass(Iter(l)[1 .. m], l[m + 1])
    <2>1. /\ 1 .. m + 1 \in SUBSET (1 .. n) /\ 1 .. m + 1 # {}
          /\ m + 1 \in 1 .. m + 1 /\ (1 .. m + 1) \ {m + 1} = 1 .. m
      BY <1>3
    <2>2. Max(1 .. m + 1) = m + 1
      BY <2>1, LastOne
    <2> QED BY <1>1, <2>1, <2>2
  <1> QED BY <1>2, <1>3

(* picked is in the first zone of the first m places, and the first listed *)
(* there; None if no place has a zone.                                     *)
IsFirst(picked, l, m) ==
  \/ picked = None /\ \A j \in 1 .. m : l[j].az = None
  \/ \E i \in 1 .. m :
       /\ picked = l[i] /\ picked.az # None
       /\ \A j \in 1 .. m :
            l[j].az # None => \/ picked.az < l[j].az
                              \/ (picked.az = l[j].az /\ i <= j)

(* A round keeps that. *)
LEMMA PassKeepsFirst ==
  ASSUME NEW l, NEW n \in Nat, DOMAIN l = 1 .. n, IsListing(l),
         NEW m \in Nat, m < n, NEW picked, IsFirst(picked, l, m)
  PROVE  IsFirst(Pass(picked, l[m + 1]), l, m + 1)
  <1> DEFINE s == l[m + 1]
  <1>1. /\ s # None /\ s.az \in Nat \cup {None}
        /\ \A j \in 1 .. m : l[j] # None /\ l[j].az \in Nat \cup {None}
        /\ \A j \in 1 .. m + 1 : j \in 1 .. m \/ j = m + 1
    BY DEF IsListing
  <1>2. CASE picked = None /\ \A j \in 1 .. m : l[j].az = None
    <2>1. CASE s.az = None
      BY <1>1, <1>2, <2>1 DEF Pass, Nearer, IsFirst
    <2>2. CASE s.az # None
      <3>1. Pass(picked, s) = s
        BY <1>2, <2>2 DEF Pass, Nearer
      <3>2. m + 1 \in 1 .. m + 1
        OBVIOUS
      <3> QED BY <1>1, <1>2, <2>2, <3>1, <3>2 DEF IsFirst
    <2> QED BY <2>1, <2>2
  <1>3. ASSUME NEW i \in 1 .. m, picked = l[i], picked.az # None,
               \A j \in 1 .. m :
                 l[j].az # None => \/ picked.az < l[j].az
                                   \/ (picked.az = l[j].az /\ i <= j)
        PROVE  IsFirst(Pass(picked, s), l, m + 1)
    <2>1. picked # None /\ picked.az \in Nat
      BY <1>1, <1>3
    <2>2. CASE Nearer(s, picked)
      <3>1. Pass(picked, s) = s /\ s.az \in Nat /\ s.az # None /\ s.az < picked.az
        BY <1>1, <2>1, <2>2 DEF Pass, Nearer
      <3>2. \A j \in 1 .. m : l[j].az # None => s.az < l[j].az
        BY <1>1, <1>3, <2>1, <3>1
      <3>3. m + 1 \in 1 .. m + 1
        OBVIOUS
      <3> QED BY <1>1, <3>1, <3>2, <3>3 DEF IsFirst
    <2>3. CASE ~Nearer(s, picked)
      <3>1. Pass(picked, s) = picked
        BY <2>3 DEF Pass
      <3>2. s.az # None => picked.az < s.az \/ picked.az = s.az
        BY <1>1, <2>1, <2>3 DEF Nearer
      <3>3. i \in 1 .. m + 1 /\ i <= m + 1
        BY <1>3
      <3> QED BY <1>1, <1>3, <3>1, <3>2, <3>3 DEF IsFirst
    <2> QED BY <2>2, <2>3
  <1> QED BY <1>2, <1>3 DEF IsFirst

(* resolve_default_subnet picks the first subnet listed of the first zone, *)
(* for an answer of any length in any order; it picks none only if no      *)
(* subnet of the answer has a zone.                                        *)
THEOREM PickIsFirst ==
  ASSUME NEW l, IsListing(l)
  PROVE  IsFirst(PickSubnet(l), l, Len(l))
  <1> DEFINE n == Len(l)
             S == {m \in Nat : m <= n => IsFirst(Iter(l)[1 .. m], l, m)}
  <1>1. n \in Nat /\ DOMAIN l = 1 .. n
    BY DEF IsListing, IsList
  <1>2. 0 \in S
    <2>1. Iter(l)[1 .. 0] = None
      BY <1>1, IterPrefix
    <2> QED BY <2>1 DEF IsFirst
  <1>3. ASSUME NEW m \in Nat, m \in S PROVE m + 1 \in S
    <2> SUFFICES ASSUME m + 1 <= n PROVE IsFirst(Iter(l)[1 .. m + 1], l, m + 1)
      OBVIOUS
    <2>1. m < n /\ IsFirst(Iter(l)[1 .. m], l, m)
      BY <1>1, <1>3
    <2>2. Iter(l)[1 .. m + 1] = Pass(Iter(l)[1 .. m], l[m + 1])
      BY <1>1, <2>1, IterPrefix
    <2> QED BY <1>1, <2>1, <2>2, PassKeepsFirst
  <1>4. Nat \subseteq S
    <2> HIDE DEF S
    <2> QED BY <1>2, <1>3, Induction
  <1>5. IsFirst(Iter(l)[1 .. n], l, n)
    BY <1>1, <1>4
  <1> QED BY <1>1, <1>5, PickIsIter
===============================================================================
