--------------------------- MODULE KillCountProofs --------------------------
(***************************************************************************)
(* Proofs about the kill counters, for any number of levels and counters   *)
(* and any counter width; and about when Polling.tla starts polling and    *)
(* raises its level, for any window, threshold and boost.                  *)
(***************************************************************************)
EXTENDS KillCount, FiniteSetTheorems, WellFoundedInduction, TLAPS

(* Division with remainder.                                                *)
LEMMA Remainder ==
  ASSUME NEW n \in Int, NEW c \in Nat \ {0}
  PROVE  /\ n \div c \in Int
         /\ n % c \in 0..(c - 1)
         /\ n = c * (n \div c) + (n % c)
  OBVIOUS

(* A multiple of c strictly between -c and c is 0.                         *)
LEMMA SmallMultiple ==
  ASSUME NEW k \in Int, NEW c \in Nat \ {0}, c * k < c, -c < c * k
  PROVE  k = 0
<1>1. c * k \in Int
  OBVIOUS
<1>2. k >= 1 => c * k >= c
  OBVIOUS
<1>3. k <= -1 => c * k <= -c
  OBVIOUS
<1> QED
  BY <1>1, <1>2, <1>3

(* The remainder is unique.                                                *)
LEMMA RemainderUnique ==
  ASSUME NEW q \in Int, NEW c \in Nat \ {0}, NEW r \in 0..(c - 1)
  PROVE  (c * q + r) % c = r
<1> DEFINE m == c * q + r
           d == m \div c
           s == m % c
<1>1. m \in Int
  OBVIOUS
<1>2. d \in Int /\ s \in 0..(c - 1) /\ m = c * d + s
  BY <1>1, Remainder, SMTT(20)
<1>3. c * q + r = c * d + s
  BY <1>2
<1> HIDE DEF m, d, s
<1>4. c * q \in Int /\ c * d \in Int
  BY <1>2
<1>5. c * (q - d) = c * q - c * d
  BY <1>2
<1>6. c * (q - d) = s - r
  BY <1>2, <1>3, <1>4, <1>5
<1>7. q - d = 0
  BY <1>2, <1>6, SmallMultiple
<1>8. q = d
  BY <1>2, <1>7
<1>9. r = s
  BY <1>2, <1>3, <1>4, <1>8
<1> QED
  BY <1>9 DEF s, m

(* Wrapping arithmetic of an unsigned counter: counting modulo the size of *)
(* the counter is the same as counting and reducing at the end.            *)
LEMMA WrapSucc ==
  ASSUME NEW n \in Nat, NEW c \in Nat \ {0}
  PROVE  ((n % c) + 1) % c = (n + 1) % c
<1> DEFINE q == n \div c
           r == n % c
<1>1. q \in Int /\ r \in 0..(c - 1) /\ n = c * q + r
  BY Remainder
<1> HIDE DEF q, r
<1>2. c * q \in Int /\ c * (q + 1) = c * q + c /\ c * 0 = 0 /\ c * 1 = c
  BY <1>1
<1>3. CASE r + 1 < c
  <2>1. (c * q + (r + 1)) % c = r + 1
    BY <1>1, <1>3, RemainderUnique
  <2>2. (c * 0 + (r + 1)) % c = r + 1
    BY <1>1, <1>3, RemainderUnique
  <2>3. n + 1 = c * q + (r + 1) /\ c * 0 + (r + 1) = r + 1
    BY <1>1, <1>2
  <2> QED
    BY <2>1, <2>2, <2>3 DEF r
<1>4. CASE r + 1 = c
  <2>1. (c * (q + 1) + 0) % c = 0
    BY <1>1, RemainderUnique
  <2>2. (c * 1 + 0) % c = 0
    BY RemainderUnique
  <2>3. n + 1 = c * (q + 1) + 0 /\ c * 1 + 0 = r + 1
    BY <1>1, <1>2, <1>4
  <2> QED
    BY <2>1, <2>2, <2>3 DEF r
<1> QED
  BY <1>1, <1>3, <1>4

(* A small remainder is the number itself.                                 *)
LEMMA SmallRemainder ==
  ASSUME NEW n \in Nat, NEW c \in Nat \ {0}, n < c
  PROVE  n % c = n
<1>1. (c * 0 + n) % c = n
  BY RemainderUnique
<1> QED
  BY <1>1

-----------------------------------------------------------------------------
(* Sums.  SumFunctionOnSet is a function on the subsets of its index set,  *)
(* defined by recursion on a chosen element.  Facts about all finite sets  *)
(* are shown by taking a smallest counterexample.                          *)
Choice(s) == CHOOSE x \in s : TRUE
Rest(s) == s \ {Choice(s)}
SumBody(f, g, s) == IF s = {} THEN 0 ELSE f[Choice(s)] + g[Rest(s)]
IsSum(f, S, g) == g = [s \in SUBSET S |-> SumBody(f, g, s)]
Sums(f, S) == CHOOSE g : IsSum(f, S, g)

(* SumFunctionOnSet in these terms.                                        *)
LEMMA SumUnfold ==
  ASSUME NEW f, NEW S
  PROVE  SumFunctionOnSet(f, S) = Sums(f, S)[S]
  BY DEF SumFunctionOnSet, FoldFunctionOnSet, MapThenFoldSet, Sums, IsSum, SumBody, Rest, Choice

(* A family of subsets of a finite set has a smallest member.              *)
LEMMA SmallestSet ==
  ASSUME NEW S, IsFiniteSet(S), NEW B, B \subseteq SUBSET S, B # {}
  PROVE  \E m \in B : \A t \in B : ~(t \subseteq m /\ t # m)
<1> DEFINE R == StrictSubsetOrdering(S)
<1>1. IsWellFoundedOn(R, SUBSET S)
  BY FS_StrictSubsetOrderingWellFounded, FS_FiniteSubsetsOfFinite, Zenon
<1>2. \A t, m \in SUBSET S : t \subseteq m /\ t # m => <<t, m>> \in R
  BY DEF StrictSubsetOrdering
<1> HIDE DEF R
<1>3. B \subseteq SUBSET S
  OBVIOUS
<1>4. PICK m \in B : \A t \in B : ~(<<t, m>> \in R)
  BY <1>1, <1>3, WFMin, Zenon
<1> QED
  BY <1>2, <1>3, <1>4, Zenon

(* The chosen element is one of the set.                                   *)
LEMMA ChoiceIn ==
  ASSUME NEW s, s # {}
  PROVE  Choice(s) \in s /\ Rest(s) \subseteq s /\ Rest(s) # s
<1>1. \E x \in s : TRUE
  OBVIOUS
<1>2. Choice(s) \in s
  BY <1>1 DEF Choice
<1> QED
  BY <1>2 DEF Rest

(* Two functions of this kind agree where both are defined.                *)
LEMMA SumsAgree ==
  ASSUME NEW f, NEW S, NEW T, NEW g, NEW h, IsSum(f, S, g), IsSum(f, T, h),
         NEW u, u \subseteq S, u \subseteq T, IsFiniteSet(u)
  PROVE  g[u] = h[u]
<1> DEFINE B == {t \in SUBSET u : g[t] # h[t]}
<1> SUFFICES ASSUME B # {} PROVE FALSE
  OBVIOUS
<1>1. PICK m \in B : \A t \in B : ~(t \subseteq m /\ t # m)
  <2>1. B \subseteq SUBSET u
    OBVIOUS
  <2> HIDE DEF B
  <2> QED
    BY <2>1, SmallestSet
<1>2. m \in SUBSET S /\ m \in SUBSET T /\ m \in SUBSET u
  OBVIOUS
<1>3. g[m] = SumBody(f, g, m) /\ h[m] = SumBody(f, h, m)
  BY <1>2 DEF IsSum
<1>4. m # {}
  BY <1>3 DEF SumBody
<1>5. Rest(m) \subseteq m /\ Rest(m) # m
  BY <1>4, ChoiceIn
<1>6. g[Rest(m)] = h[Rest(m)]
  BY <1>1, <1>2, <1>5
<1> QED
  BY <1>3, <1>4, <1>6 DEF SumBody

(* There is one for every finite set.                                      *)
LEMMA SumsExist ==
  ASSUME NEW f, NEW S, IsFiniteSet(S)
  PROVE  IsSum(f, S, Sums(f, S))
<1> DEFINE B == {T \in SUBSET S : ~IsSum(f, T, Sums(f, T))}
<1> SUFFICES ASSUME B # {} PROVE FALSE
  OBVIOUS
<1>1. PICK m \in B : \A t \in B : ~(t \subseteq m /\ t # m)
  <2>1. B \subseteq SUBSET S
    OBVIOUS
  <2> HIDE DEF B
  <2> QED
    BY <2>1, SmallestSet
<1>2. \A t \in SUBSET m : t # m => IsSum(f, t, Sums(f, t))
  BY <1>1
<1>3. \A t \in SUBSET m : IsFiniteSet(t)
  BY <1>1, FS_Subset
<1> DEFINE v(t) == Sums(f, t)[t]
           g == [s \in SUBSET m |-> IF s = {} THEN 0 ELSE f[Choice(s)] + v(Rest(s))]
<1>4. ASSUME NEW u \in SUBSET m, u # m PROVE g[u] = v(u)
  <2>1. IsSum(f, u, Sums(f, u))
    BY <1>2, <1>4
  <2>2. v(u) = SumBody(f, Sums(f, u), u)
    BY <2>1 DEF IsSum
  <2>3. CASE u = {}
    BY <2>2, <2>3 DEF SumBody
  <2>4. CASE u # {}
    <3>1. Rest(u) \subseteq u /\ Rest(u) \in SUBSET m /\ Rest(u) # m
      BY <1>4, <2>4, ChoiceIn
    <3>2. IsSum(f, Rest(u), Sums(f, Rest(u))) /\ IsFiniteSet(Rest(u))
      BY <1>2, <1>3, <3>1
    <3>3. Sums(f, u)[Rest(u)] = v(Rest(u))
      BY <2>1, <3>1, <3>2, SumsAgree
    <3> QED
      BY <2>2, <2>4, <3>3 DEF SumBody
  <2> QED
    BY <2>3, <2>4
<1>5. ASSUME NEW s \in SUBSET m PROVE g[s] = SumBody(f, g, s)
  <2>1. CASE s = {}
    BY <2>1 DEF SumBody
  <2>2. CASE s # {}
    <3>1. Rest(s) \in SUBSET m /\ Rest(s) # m
      BY <2>2, ChoiceIn
    <3>2. g[Rest(s)] = v(Rest(s))
      BY <1>4, <3>1, Zenon
    <3> QED
      BY <2>2, <3>2 DEF SumBody
  <2> QED
    BY <2>1, <2>2
<1>6. IsSum(f, m, g)
  <2> DEFINE G == g
  <2>1. DOMAIN G = SUBSET m /\ G = [s \in SUBSET m |-> G[s]] /\ \A s \in SUBSET m : G[s] = SumBody(f, G, s)
    BY <1>5, Zenon
  <2> HIDE DEF G
  <2>2. IsSum(f, m, G)
    BY <2>1, Zenon DEF IsSum
  <2> QED
    BY <2>2 DEF G
<1> HIDE DEF g
<1>7. IsSum(f, m, Sums(f, m))
  BY <1>6 DEF Sums
<1> QED
  BY <1>1, <1>7

(* The sum over the empty set, and over a set with a chosen element.       *)
LEMMA SumEmpty ==
  ASSUME NEW f
  PROVE  SumFunctionOnSet(f, {}) = 0
<1>1. IsSum(f, {}, Sums(f, {}))
  BY SumsExist, FS_EmptySet
<1>2. Sums(f, {})[{}] = SumBody(f, Sums(f, {}), {})
  BY <1>1 DEF IsSum
<1> QED
  BY <1>2, SumUnfold DEF SumBody

LEMMA SumChoice ==
  ASSUME NEW f, NEW S, IsFiniteSet(S), S # {}
  PROVE  SumFunctionOnSet(f, S) = f[Choice(S)] + SumFunctionOnSet(f, Rest(S))
<1>1. IsSum(f, S, Sums(f, S)) /\ S \in SUBSET S
  BY SumsExist
<1>2. Sums(f, S)[S] = SumBody(f, Sums(f, S), S)
  BY <1>1 DEF IsSum
<1>3. Rest(S) \subseteq S /\ IsFiniteSet(Rest(S))
  BY ChoiceIn, FS_Subset
<1>4. IsSum(f, Rest(S), Sums(f, Rest(S)))
  BY <1>3, SumsExist
<1>5. Sums(f, S)[Rest(S)] = Sums(f, Rest(S))[Rest(S)]
  BY <1>1, <1>3, <1>4, SumsAgree
<1> QED
  BY <1>2, <1>5, SumUnfold DEF SumBody

(* A sum of integers is one.                                               *)
LEMMA SumInt ==
  ASSUME NEW f, NEW S, IsFiniteSet(S), \A x \in S : f[x] \in Int
  PROVE  SumFunctionOnSet(f, S) \in Int
<1> DEFINE B == {T \in SUBSET S : SumFunctionOnSet(f, T) \notin Int}
<1> SUFFICES ASSUME B # {} PROVE FALSE
  OBVIOUS
<1>1. PICK m \in B : \A t \in B : ~(t \subseteq m /\ t # m)
  <2>1. B \subseteq SUBSET S
    OBVIOUS
  <2> HIDE DEF B
  <2> QED
    BY <2>1, SmallestSet
<1>2. m # {}
  BY SumEmpty
<1>3. m \subseteq S /\ IsFiniteSet(m)
  BY FS_Subset
<1>4. Choice(m) \in m /\ Rest(m) \subseteq m /\ Rest(m) # m
  BY <1>2, ChoiceIn
<1>5. SumFunctionOnSet(f, Rest(m)) \in Int
  BY <1>1, <1>3, <1>4
<1>6. SumFunctionOnSet(f, m) = f[Choice(m)] + SumFunctionOnSet(f, Rest(m))
  BY <1>2, <1>3, SumChoice
<1> QED
  BY <1>3, <1>4, <1>5, <1>6

(* A sum depends on the summands alone.                                    *)
LEMMA SumSame ==
  ASSUME NEW f, NEW g, NEW S, IsFiniteSet(S), \A x \in S : f[x] = g[x]
  PROVE  SumFunctionOnSet(f, S) = SumFunctionOnSet(g, S)
<1> DEFINE B == {T \in SUBSET S : SumFunctionOnSet(f, T) # SumFunctionOnSet(g, T)}
<1> SUFFICES ASSUME B # {} PROVE FALSE
  OBVIOUS
<1>1. PICK m \in B : \A t \in B : ~(t \subseteq m /\ t # m)
  <2>1. B \subseteq SUBSET S
    OBVIOUS
  <2> HIDE DEF B
  <2> QED
    BY <2>1, SmallestSet
<1>2. m # {}
  BY SumEmpty
<1>3. m \subseteq S /\ IsFiniteSet(m)
  BY FS_Subset
<1>4. Choice(m) \in m /\ Rest(m) \subseteq m /\ Rest(m) # m
  BY <1>2, ChoiceIn
<1>5. SumFunctionOnSet(f, Rest(m)) = SumFunctionOnSet(g, Rest(m))
  BY <1>1, <1>3, <1>4
<1>6. /\ SumFunctionOnSet(f, m) = f[Choice(m)] + SumFunctionOnSet(f, Rest(m))
      /\ SumFunctionOnSet(g, m) = g[Choice(m)] + SumFunctionOnSet(g, Rest(m))
  BY <1>2, <1>3, SumChoice
<1>7. f[Choice(m)] = g[Choice(m)]
  BY <1>3, <1>4
<1> QED
  BY <1>5, <1>6, <1>7

(* Any element can be taken out of a sum first.                            *)
LEMMA SumTakeOut ==
  ASSUME NEW f, NEW S, IsFiniteSet(S), \A y \in S : f[y] \in Int, NEW x \in S
  PROVE  SumFunctionOnSet(f, S) = f[x] + SumFunctionOnSet(f, S \ {x})
<1> DEFINE Sum(T) == SumFunctionOnSet(f, T)
           B == {T \in SUBSET S : \E y \in T : Sum(T) # f[y] + Sum(T \ {y})}
<1> SUFFICES ASSUME B # {} PROVE FALSE
  BY Zenon
<1>1. PICK m \in B : \A t \in B : ~(t \subseteq m /\ t # m)
  <2>1. B \subseteq SUBSET S
    OBVIOUS
  <2> HIDE DEF B
  <2> QED
    BY <2>1, SmallestSet
<1>2. PICK y \in m : Sum(m) # f[y] + Sum(m \ {y})
  BY <1>1
<1> DEFINE c == Choice(m)
<1>3. m \subseteq S /\ IsFiniteSet(m) /\ m # {}
  BY FS_Subset
<1>4. c \in m /\ Sum(m) = f[c] + Sum(m \ {c})
  BY <1>3, ChoiceIn, SumChoice DEF Rest
<1>5. ASSUME NEW t \in SUBSET m, t # m, NEW z \in t PROVE Sum(t) = f[z] + Sum(t \ {z})
  BY <1>1, <1>3, <1>5, Zenon
<1> HIDE DEF c, Sum
<1>6. c # y
  BY <1>2, <1>4
<1>7. Sum(m \ {c}) = f[y] + Sum((m \ {c}) \ {y})
  BY <1>4, <1>5, <1>6
<1>8. Sum(m \ {y}) = f[c] + Sum((m \ {y}) \ {c})
  BY <1>4, <1>5, <1>6
<1>9. (m \ {c}) \ {y} = (m \ {y}) \ {c}
  OBVIOUS
<1>10. Sum((m \ {c}) \ {y}) \in Int /\ f[c] \in Int /\ f[y] \in Int
  <2>1. IsFiniteSet((m \ {c}) \ {y}) /\ (m \ {c}) \ {y} \subseteq S
    BY <1>3, FS_Subset
  <2> QED
    BY <1>3, <1>4, <2>1, SumInt DEF Sum
<1> QED
  BY <1>2, <1>4, <1>7, <1>8, <1>9, <1>10

(* Summands of 0 can be left out.                                          *)
LEMMA SumOnSupport ==
  ASSUME NEW f, NEW S, IsFiniteSet(S), \A y \in S : f[y] \in Int,
         NEW T \in SUBSET S, \A y \in S \ T : f[y] = 0
  PROVE  SumFunctionOnSet(f, S) = SumFunctionOnSet(f, T)
<1> DEFINE Sum(R) == SumFunctionOnSet(f, R)
           B == {R \in SUBSET S : T \subseteq R /\ Sum(R) # Sum(T)}
<1> SUFFICES ASSUME B # {} PROVE FALSE
  OBVIOUS
<1>1. PICK m \in B : \A t \in B : ~(t \subseteq m /\ t # m)
  <2>1. B \subseteq SUBSET S
    OBVIOUS
  <2> HIDE DEF B
  <2> QED
    BY <2>1, SmallestSet
<1>2. m \subseteq S /\ IsFiniteSet(m) /\ T \subseteq m /\ Sum(m) # Sum(T)
  BY FS_Subset
<1>3. PICK y \in m : y \notin T
  BY <1>2
<1>4. Sum(m) = f[y] + Sum(m \ {y}) /\ f[y] = 0
  BY <1>2, <1>3, SumTakeOut
<1>5. Sum(m \ {y}) = Sum(T)
  BY <1>1, <1>2, <1>3
<1>6. Sum(T) \in Int
  BY <1>2, SumInt, FS_Subset
<1> HIDE DEF Sum
<1> QED
  BY <1>2, <1>4, <1>5, <1>6

(* One more in one place.                                                  *)
LEMMA SumPlusOne ==
  ASSUME NEW S, IsFiniteSet(S), NEW D, S \subseteq D, NEW f \in [D -> Int], NEW x \in D
  PROVE  SumFunctionOnSet([f EXCEPT ![x] = @ + 1], S) =
           IF x \in S THEN SumFunctionOnSet(f, S) + 1 ELSE SumFunctionOnSet(f, S)
<1> DEFINE g == [f EXCEPT ![x] = @ + 1]
<1>1. g \in [D -> Int] /\ g[x] = f[x] + 1 /\ \A y \in D : y # x => g[y] = f[y]
  OBVIOUS
<1> HIDE DEF g
<1>2. CASE x \notin S
  <2>1. SumFunctionOnSet(g, S) = SumFunctionOnSet(f, S)
    BY <1>1, <1>2, SumSame
  <2> QED
    BY <1>2, <2>1 DEF g
<1>3. CASE x \in S
  <2>1. IsFiniteSet(S \ {x})
    BY FS_Subset
  <2>2. SumFunctionOnSet(g, S) = g[x] + SumFunctionOnSet(g, S \ {x})
    BY <1>1, <1>3, SumTakeOut
  <2>3. SumFunctionOnSet(f, S) = f[x] + SumFunctionOnSet(f, S \ {x})
    BY <1>3, SumTakeOut
  <2>4. SumFunctionOnSet(g, S \ {x}) = SumFunctionOnSet(f, S \ {x})
    BY <1>1, <2>1, SumSame
  <2>5. SumFunctionOnSet(f, S \ {x}) \in Int /\ f[x] \in Int
    BY <2>1, SumInt
  <2>6. SumFunctionOnSet(g, S) = SumFunctionOnSet(f, S) + 1
    BY <1>1, <2>2, <2>3, <2>4, <2>5
  <2> QED
    BY <1>3, <2>6 DEF g
<1> QED
  BY <1>2, <1>3

(* A sum of zeroes.                                                        *)
LEMMA SumZero ==
  ASSUME NEW S, IsFiniteSet(S), NEW f, \A x \in S : f[x] = 0
  PROVE  SumFunctionOnSet(f, S) = 0
<1>1. SumFunctionOnSet(f, S) = SumFunctionOnSet(f, {})
  BY SumOnSupport
<1> QED
  BY <1>1, SumEmpty

-----------------------------------------------------------------------------
(* CountersExact is inductive, given the types: killcnt_free_idx bounds    *)
(* the indices in use, so that a new one is used by no level yet.          *)
IInv == TypeOK /\ CountersExact

(* No level has a counter at the start (memset of killcnt_idx in init).    *)
LEMMA InitIInv == Init => IInv
  BY CountAssumption DEF Init, IInv, TypeOK, CountersExact, Adj, Slot, Index, Group

(* The killed levels have slots.                                           *)
LEMMA AdjSlots == Adj \subseteq Slot
  BY CountAssumption DEF Adj, Slot

(* One more kill of level a, in the three cases of inc_killcnt.            *)
LEMMA IncKillcnt ==
  ASSUME IInv, NEW a \in Adj, inc_killcnt(a), kills' = [kills EXCEPT ![a] = @ + 1]
  PROVE  /\ killcnt_free_idx' \in 0..MaxDistinct
         /\ killcnt_idx' \in [Slot -> (0..(killcnt_free_idx' - 1)) \cup {INVALID}]
         /\ killcnt' \in [Index -> 0..(CounterSize - 1)]
         /\ killcnt_total' \in Nat /\ kills' \in [Adj -> Nat]
         /\ CountersExact'
<1> USE CountAssumption
<1>a. Adj \subseteq Slot
  BY AdjSlots
<1>t. /\ a \in Slot
      /\ killcnt_free_idx \in 0..MaxDistinct
      /\ killcnt_idx \in [Slot -> (0..(killcnt_free_idx - 1)) \cup {INVALID}]
      /\ killcnt \in [Index -> 0..(CounterSize - 1)]
      /\ killcnt_total \in Nat /\ kills \in [Adj -> Nat]
  BY <1>a DEF IInv, TypeOK
<1>k. /\ kills' \in [Adj -> Nat] /\ kills'[a] = kills[a] + 1
      /\ \A b \in Adj : b # a => kills'[b] = kills[b]
  BY <1>t
<1>n. killcnt_total' \in Nat
  BY <1>t DEF inc_killcnt
<1>1. CASE killcnt_idx[a] = INVALID /\ HasFree
  <2>1. /\ killcnt_idx' = [killcnt_idx EXCEPT ![a] = killcnt_free_idx]
        /\ killcnt' = [killcnt EXCEPT ![killcnt_free_idx] = 1]
        /\ killcnt_free_idx' = killcnt_free_idx + 1
        /\ killcnt_free_idx \in Index
    BY <1>1, <1>t DEF inc_killcnt, HasFree, FirstCount, Index
  <2>2. killcnt_free_idx' \in 0..MaxDistinct
    BY <2>1, <1>t DEF Index
  <2>3. killcnt_idx' \in [Slot -> (0..(killcnt_free_idx' - 1)) \cup {INVALID}]
    BY <2>1, <1>t
  <2>4. killcnt' \in [Index -> 0..(CounterSize - 1)]
    BY <2>1, <1>t
  <2>5. kills[a] = 0
    BY <1>1, <1>t DEF IInv, CountersExact, HasFree
  <2>6. 1 % CounterSize = 1
    BY SmallRemainder
  <2>7. \A b \in Slot : b # a => killcnt_idx'[b] = killcnt_idx[b] /\ killcnt_idx[b] # killcnt_free_idx
    BY <2>1, <1>t
  <2>8. killcnt_idx'[a] = killcnt_free_idx /\ killcnt'[killcnt_free_idx] = 1
    BY <2>1, <1>t
  <2>9. \A i \in Index : i # killcnt_free_idx => killcnt'[i] = killcnt[i]
    BY <2>1, <1>t
  <2>10. \A b \in Slot : killcnt_idx[b] # INVALID => killcnt_idx[b] \in Index
    BY <1>t DEF Index
  <2>11. CountersExact'
    <3>1. \A b, c \in Adj : b # c /\ killcnt_idx'[b] = killcnt_idx'[c] => killcnt_idx'[b] = INVALID
      BY <1>a, <2>7, <2>8 DEF IInv, CountersExact
    <3>2. \A b \in Adj : killcnt_idx'[b] # INVALID
                           => killcnt'[killcnt_idx'[b]] = kills'[b] % CounterSize
      BY <1>a, <2>5, <2>6, <2>7, <2>8, <2>9, <2>10, <1>k DEF IInv, CountersExact
    <3>3. \A b \in Adj : ~(kills'[b] > 0 /\ killcnt_idx'[b] = INVALID)
      BY <1>1, <1>a, <1>k, <1>t, <2>1, <2>7, <2>8 DEF IInv, CountersExact, HasFree
    <3>4. \A b \in Slot \ Adj : killcnt_idx'[b] = INVALID
      BY <2>7 DEF IInv, CountersExact
    <3> QED
      BY <3>1, <3>2, <3>3, <3>4 DEF CountersExact
  <2> QED
    BY <1>k, <1>n, <2>2, <2>3, <2>4, <2>11
<1>2. CASE killcnt_idx[a] = INVALID /\ ~HasFree
  <2>1. UNCHANGED <<killcnt_idx, killcnt, killcnt_free_idx>>
    BY <1>2 DEF inc_killcnt
  <2>2. killcnt_free_idx = MaxDistinct
    BY <1>2, <1>t DEF HasFree
  <2>3. CountersExact'
    BY <1>2, <1>k, <2>1, <2>2 DEF IInv, CountersExact
  <2> QED
    BY <1>k, <1>n, <1>t, <2>1, <2>3
<1>3. CASE killcnt_idx[a] # INVALID
  <2> DEFINE i == killcnt_idx[a]
  <2>1. /\ killcnt' = [killcnt EXCEPT ![i] = (@ + 1) % CounterSize]
        /\ UNCHANGED <<killcnt_idx, killcnt_free_idx>>
    BY <1>3 DEF inc_killcnt
  <2>2. i \in Index
    BY <1>3, <1>t DEF Index
  <2>3. killcnt[i] = kills[a] % CounterSize
    BY <1>3 DEF IInv, CountersExact
  <2>4. (killcnt[i] + 1) % CounterSize = kills'[a] % CounterSize
    BY <1>k, <1>t, <2>3, WrapSucc
  <2>5. kills'[a] % CounterSize \in 0..(CounterSize - 1)
    <3>1. kills'[a] \in Int
      BY <1>k
    <3> QED
      BY <3>1, Remainder, Zenon
  <2>6. killcnt' = [killcnt EXCEPT ![i] = kills'[a] % CounterSize]
    BY <2>1, <2>4, Zenon
  <2>7. killcnt' \in [Index -> 0..(CounterSize - 1)]
    BY <1>t, <2>5, <2>6, Zenon
  <2>8. \A b \in Adj : b # a /\ killcnt_idx[b] # INVALID => killcnt_idx[b] # i /\ killcnt_idx[b] \in Index
    BY <1>3, <1>a, <1>t, SMTT(20) DEF IInv, CountersExact, Index
  <2>9. /\ killcnt'[i] = kills'[a] % CounterSize
        /\ \A j \in Index : j # i => killcnt'[j] = killcnt[j]
    BY <1>t, <2>2, <2>6
  <2>10. CountersExact'
    BY <1>3, <1>k, <2>1, <2>8, <2>9 DEF IInv, CountersExact
  <2> QED
    BY <1>k, <1>n, <1>t, <2>1, <2>7, <2>10
<1> QED
  BY <1>1, <1>2, <1>3 DEF inc_killcnt

(* Kills and LMK_GETKILLCNT queries preserve the invariant.                *)
LEMMA NextIInv == IInv /\ [Next]_vars => IInv'
<1> USE CountAssumption
<1> SUFFICES ASSUME IInv, [Next]_vars PROVE IInv'
  OBVIOUS
<1>1. ASSUME NEW a \in Adj, kill_one_process(a) PROVE IInv'
  <2>1. inc_killcnt(a) /\ prop_log_lmk_kill_occurred(a) /\ kills' = [kills EXCEPT ![a] = @ + 1]
    BY <1>1 DEF kill_one_process
  <2>2. counter' \in Nat /\ lmk_count' \in [Group -> Nat] /\ published' \in [Group -> Nat]
    <3>1. counter \in Nat /\ lmk_count \in [Group -> Nat] /\ published \in [Group -> Nat]
      BY DEF IInv, TypeOK
    <3>2. lmk_count' \in [Group -> Nat]
      <4> DEFINE g == GroupOf(a)
      <4>1. lmk_count' = [lmk_count EXCEPT ![g] = lmk_count[g] + 1]
        BY <2>1 DEF prop_log_lmk_kill_occurred
      <4> HIDE DEF g
      <4>2. CASE g \in Group
        BY <3>1, <4>1, <4>2
      <4>3. CASE g \notin Group
        BY <3>1, <4>1, <4>3, Zenon
      <4> QED
        BY <4>2, <4>3
    <3>3. counter' \in Nat
      BY <2>1, <3>1 DEF prop_log_lmk_kill_occurred, AfterReport
    <3>4. published' = published \/ published' = lmk_count'
      BY <2>1 DEF prop_log_lmk_kill_occurred
    <3> QED
      BY <3>1, <3>2, <3>3, <3>4
  <2> QED
    BY <2>1, <2>2, IncKillcnt, Zenon DEF IInv, TypeOK
<1>2. ASSUME NEW min \in Request, NEW max \in Request, cmd_getkillcnt(min, max)
      PROVE  IInv'
  BY <1>2 DEF cmd_getkillcnt, IInv, TypeOK, CountersExact
<1>3. CASE UNCHANGED vars
  BY <1>3 DEF vars, IInv, TypeOK, CountersExact
<1> QED
  BY <1>1, <1>2, <1>3 DEF Next

(* The counters of inc_killcnt follow the kills for any number of levels   *)
(* and counters: no two levels share one, each holds its level's kills     *)
(* modulo its width, and a level goes uncounted only when all are taken.   *)
THEOREM CountersCorrect == Spec => [](TypeOK /\ CountersExact)
<1>1. IInv => TypeOK /\ CountersExact
  BY DEF IInv
<1> QED
  BY <1>1, InitIInv, NextIInv, PTL DEF Spec

-----------------------------------------------------------------------------
(* The levels' groups are those of 0 .. OOM_SCORE_ADJ_MAX / ADJ_DIVISOR.   *)
LEMMA DivMonotone ==
  ASSUME NEW c \in Nat \ {0}, NEW n \in Nat, NEW m \in Nat, n <= m
  PROVE  n \div c \in 0..(m \div c)
<1> DEFINE q == n \div c
           r == n % c
           p == m \div c
           s == m % c
<1>1. q \in Int /\ r \in 0..(c - 1) /\ n = c * q + r
  BY Remainder
<1>2. p \in Int /\ s \in 0..(c - 1) /\ m = c * p + s
  BY Remainder
<1> HIDE DEF q, r, p, s
<1>3. c * q \in Int /\ c * p \in Int
  BY <1>1, <1>2
<1>4. q >= 0
  <2>1. SUFFICES ASSUME q <= -1 PROVE FALSE
    BY <1>1
  <2>2. c * q <= -c
    BY <1>1, <2>1
  <2> QED
    BY <1>1, <1>3, <2>2
<1>5. q <= p
  <2>1. SUFFICES ASSUME q - p >= 1 PROVE FALSE
    BY <1>1, <1>2
  <2>2. c * (q - p) >= c /\ c * (q - p) = c * q - c * p
    BY <1>1, <1>2, <2>1
  <2> QED
    BY <1>1, <1>2, <1>3, <2>2
<1>6. q \in 0..p
  BY <1>1, <1>2, <1>4, <1>5
<1> QED
  BY <1>6 DEF q, p

LEMMA GroupIn ==
  ASSUME NEW a \in Adj
  PROVE  GroupOf(a) \in Group
<1>1. a \in Nat /\ AdjMax \in Nat /\ a <= AdjMax /\ AdjDivisor \in Nat \ {0}
  BY CountAssumption DEF Adj
<1> QED
  BY <1>1, DivMonotone DEF GroupOf, Group

LEMMA LevelsFinite == IsFiniteSet(Adj) /\ IsFiniteSet(Group)
<1>1. AdjMax \in Int /\ AdjMax \div AdjDivisor \in Int
  BY CountAssumption, Remainder
<1> QED
  BY <1>1, FS_Interval DEF Adj, Group

(* What the sums need: every index handed out is some level's, and only    *)
(* levels with kills have one.                                             *)
IndexUsed ==
  /\ \A i \in 0..(killcnt_free_idx - 1) : \E a \in Adj : killcnt_idx[a] = i
  /\ \A a \in Adj : killcnt_idx[a] # INVALID => kills[a] > 0

(* All the totals are the number of kills, and counter is what has not     *)
(* been published.                                                         *)
Totals ==
  /\ killcnt_total = SumFunctionOnSet(kills, Adj)
  /\ killcnt_total = SumFunctionOnSet(lmk_count, Group)
  /\ \A g \in Group : lmk_count[g] = SumFunctionOnSet(kills, {a \in Adj : GroupOf(a) = g})
  /\ \A g \in Group : published[g] <= lmk_count[g]
  /\ counter = killcnt_total - SumFunctionOnSet(published, Group) /\ counter < ReportFreq

CInv == IInv /\ IndexUsed /\ Totals /\ AnswersExact

(* Nothing has been counted at the start.                                  *)
LEMMA InitCInv == Init => CInv
<1> SUFFICES ASSUME Init PROVE CInv
  OBVIOUS
<1>1. IInv /\ AnswersExact
  BY InitIInv DEF Init, AnswersExact
<1>2. IndexUsed
  BY CountAssumption, AdjSlots DEF Init, IndexUsed
<1>3. SumFunctionOnSet(kills, Adj) = 0
  BY LevelsFinite, SumZero DEF Init
<1>4. SumFunctionOnSet(lmk_count, Group) = 0 /\ SumFunctionOnSet(published, Group) = 0
  BY LevelsFinite, SumZero DEF Init
<1>5. ASSUME NEW g \in Group PROVE SumFunctionOnSet(kills, {a \in Adj : GroupOf(a) = g}) = 0
  <2>1. IsFiniteSet({a \in Adj : GroupOf(a) = g})
    BY LevelsFinite, FS_Subset
  <2> QED
    BY <2>1, SumZero DEF Init
<1>6. Totals
  BY <1>3, <1>4, <1>5, CountAssumption DEF Init, Totals
<1> QED
  BY <1>1, <1>2, <1>6 DEF CInv

(* A kill takes an index or uses one.                                      *)
LEMMA KillIndexUsed ==
  ASSUME CInv, NEW a \in Adj, inc_killcnt(a), kills' = [kills EXCEPT ![a] = @ + 1]
  PROVE  IndexUsed'
<1>1. /\ killcnt_free_idx \in 0..MaxDistinct /\ kills \in [Adj -> Nat] /\ MaxDistinct \in Nat
      /\ killcnt_idx \in [Slot -> (0..(killcnt_free_idx - 1)) \cup {INVALID}] /\ INVALID \notin Nat
  BY CountAssumption DEF CInv, IInv, TypeOK
<1>2. kills'[a] > 0 /\ \A b \in Adj : b # a => kills'[b] = kills[b]
  BY <1>1
<1>3. CASE /\ killcnt_idx[a] = INVALID /\ HasFree
           /\ killcnt_idx' = [killcnt_idx EXCEPT ![a] = killcnt_free_idx]
           /\ killcnt_free_idx' = killcnt_free_idx + 1
  <2>1. \A b \in Adj : killcnt_idx'[b] = IF b = a THEN killcnt_free_idx ELSE killcnt_idx[b]
    BY <1>1, <1>3, AdjSlots, SMTT(20)
  <2>2. ASSUME NEW i \in 0..killcnt_free_idx PROVE \E b \in Adj : killcnt_idx'[b] = i
    <3>1. CASE i = killcnt_free_idx
      BY <2>1, <3>1
    <3>2. CASE i # killcnt_free_idx
      <4>1. i \in 0..(killcnt_free_idx - 1)
        BY <1>1, <3>2
      <4>2. PICK b \in Adj : killcnt_idx[b] = i
        BY <4>1 DEF CInv, IndexUsed
      <4>3. b # a
        BY <1>1, <1>3, <4>1, <4>2
      <4> QED
        BY <2>1, <4>2, <4>3
    <3> QED
      BY <3>1, <3>2
  <2>3. killcnt_free_idx' - 1 = killcnt_free_idx
    BY <1>1, <1>3
  <2> QED
    BY <1>2, <2>1, <2>2, <2>3 DEF CInv, IndexUsed
<1>4. CASE UNCHANGED <<killcnt_idx, killcnt_free_idx>>
  BY <1>2, <1>4 DEF CInv, IndexUsed
<1> QED
  BY <1>3, <1>4 DEF inc_killcnt

(* A kill adds one to the total, to its level and to its group.            *)
LEMMA KillTotals ==
  ASSUME CInv, NEW a \in Adj, kill_one_process(a)
  PROVE  Totals'
<1>1. /\ killcnt_total' = killcnt_total + 1 /\ kills' = [kills EXCEPT ![a] = @ + 1]
      /\ lmk_count' = [lmk_count EXCEPT ![GroupOf(a)] = @ + 1]
      /\ \/ counter + 1 # ReportFreq /\ counter' = counter + 1 /\ published' = published
         \/ counter + 1 = ReportFreq /\ counter' = 0 /\ published' = lmk_count'
  BY DEF kill_one_process, inc_killcnt, prop_log_lmk_kill_occurred, AfterReport
<1>2. /\ kills \in [Adj -> Int] /\ lmk_count \in [Group -> Int] /\ published \in [Group -> Int]
      /\ counter \in Nat /\ killcnt_total \in Nat /\ ReportFreq \in Nat \ {0}
  BY CountAssumption DEF CInv, IInv, TypeOK
<1>3. GroupOf(a) \in Group
  BY GroupIn
<1> DEFINE g0 == GroupOf(a)
<1>4. SumFunctionOnSet(kills', Adj) = SumFunctionOnSet(kills, Adj) + 1
  BY <1>1, <1>2, LevelsFinite, SumPlusOne, Zenon
<1>5. SumFunctionOnSet(lmk_count', Group) = SumFunctionOnSet(lmk_count, Group) + 1
  <2>1. lmk_count' = [lmk_count EXCEPT ![g0] = @ + 1] /\ g0 \in Group
    BY <1>1, <1>3
  <2> HIDE DEF g0
  <2>2. SumFunctionOnSet([lmk_count EXCEPT ![g0] = @ + 1], Group) = SumFunctionOnSet(lmk_count, Group) + 1
    BY <1>2, <2>1, LevelsFinite, SumPlusOne, Zenon
  <2> QED
    BY <2>1, <2>2, Zenon
<1>6. \A g \in Group : lmk_count'[g] = IF g = g0 THEN lmk_count[g] + 1 ELSE lmk_count[g]
  BY <1>1, <1>2
<1>7. ASSUME NEW g \in Group
      PROVE  lmk_count'[g] = SumFunctionOnSet(kills', {b \in Adj : GroupOf(b) = g})
  <2> DEFINE S == {b \in Adj : GroupOf(b) = g}
  <2>1. IsFiniteSet(S) /\ S \subseteq Adj /\ (a \in S <=> g = g0)
    BY LevelsFinite, FS_Subset
  <2>2. lmk_count[g] = SumFunctionOnSet(kills, S)
    BY DEF CInv, Totals
  <2> HIDE DEF S
  <2>3. SumFunctionOnSet(kills', S) =
          IF a \in S THEN SumFunctionOnSet(kills, S) + 1 ELSE SumFunctionOnSet(kills, S)
    BY <1>1, <1>2, <2>1, SumPlusOne, ZenonT(30)
  <2>4. lmk_count'[g] = SumFunctionOnSet(kills', S)
    BY <1>6, <2>1, <2>2, <2>3
  <2> QED
    BY <2>4 DEF S
<1>8. \A g \in Group : published'[g] <= lmk_count'[g]
  BY <1>1, <1>2, <1>6 DEF CInv, Totals
<1>9. counter' = killcnt_total' - SumFunctionOnSet(published', Group) /\ counter' < ReportFreq
  <2>1. SumFunctionOnSet(published, Group) \in Int /\ SumFunctionOnSet(lmk_count, Group) \in Int
    BY <1>2, LevelsFinite, SumInt
  <2>2. /\ counter = killcnt_total - SumFunctionOnSet(published, Group) /\ counter < ReportFreq
        /\ killcnt_total = SumFunctionOnSet(lmk_count, Group)
    BY DEF CInv, Totals
  <2>3. CASE counter + 1 # ReportFreq /\ counter' = counter + 1 /\ published' = published
    BY <1>1, <1>2, <2>1, <2>2, <2>3
  <2>4. CASE counter' = 0 /\ published' = lmk_count'
    BY <1>1, <1>2, <1>5, <2>1, <2>2, <2>4
  <2> QED
    BY <1>1, <2>3, <2>4
<1> QED
  BY <1>1, <1>4, <1>5, <1>7, <1>8, <1>9, Zenon DEF CInv, Totals

(* As long as the killed levels fit, each of them has a counter.           *)
LEMMA EnoughCounters ==
  ASSUME CInv, Cardinality({b \in Adj : kills[b] > 0}) <= MaxDistinct,
         NEW a \in Adj, kills[a] > 0
  PROVE  killcnt_idx[a] # INVALID
<1> DEFINE K == {b \in Adj : kills[b] > 0}
           U == {b \in Adj : killcnt_idx[b] # INVALID}
           I == 0..(MaxDistinct - 1)
           f == [b \in U |-> killcnt_idx[b]]
<1> SUFFICES ASSUME killcnt_idx[a] = INVALID PROVE FALSE
  OBVIOUS
<1>1. killcnt_free_idx = MaxDistinct /\ MaxDistinct \in Nat
  BY CountAssumption DEF CInv, IInv, CountersExact
<1>2. /\ killcnt_idx \in [Slot -> I \cup {INVALID}]
      /\ \A i \in I : \E b \in Adj : killcnt_idx[b] = i
      /\ INVALID \notin I /\ U \subseteq K \ {a}
  BY <1>1, CountAssumption DEF CInv, IInv, TypeOK, IndexUsed
<1>3. f \in Surjection(U, I)
  BY <1>2, AdjSlots DEF Surjection
<1>4. IsFiniteSet(K) /\ IsFiniteSet(U) /\ IsFiniteSet(K \ {a})
  BY LevelsFinite, FS_Subset
<1>5. IsFiniteSet(I) /\ Cardinality(I) = MaxDistinct
  <2>1. MaxDistinct - 1 \in Int
    BY <1>1
  <2>2. IsFiniteSet(I) /\ Cardinality(I) = IF 0 > MaxDistinct - 1 THEN 0 ELSE MaxDistinct - 1 - 0 + 1
    BY <2>1, FS_Interval
  <2> QED
    BY <1>1, <2>2
<1>6. a \in K /\ Cardinality(K) <= MaxDistinct
  OBVIOUS
<1> HIDE DEF K, U, I, f
<1>7. MaxDistinct <= Cardinality(U)
  BY <1>3, <1>4, <1>5, FS_Surjection
<1>8. Cardinality(U) <= Cardinality(K \ {a})
  BY <1>2, <1>4, FS_Subset
<1>9. Cardinality(K \ {a}) = Cardinality(K) - 1
  BY <1>4, <1>6, FS_RemoveElement
<1>10. Cardinality(K) \in Nat /\ Cardinality(U) \in Nat
  BY <1>4, FS_CardinalityType
<1> QED
  BY <1>1, <1>6, <1>7, <1>8, <1>9, <1>10

(* LMK_GETKILLCNT is answered from counters that hold the kills.           *)
LEMMA AnswerStep ==
  ASSUME CInv, NEW min \in Request, NEW max \in Request, cmd_getkillcnt(min, max)
  PROVE  CInv'
<1>1. PICK stray \in Beside(min, max) :
        /\ reply' = [min |-> min, max |-> max, count |-> get_killcnt(min, max) + stray]
        /\ UNCHANGED <<killcnt_idx, killcnt, killcnt_free_idx, killcnt_total,
                       lmk_count, counter, published, kills>>
  BY DEF cmd_getkillcnt
<1>2. IInv' /\ IndexUsed' /\ Totals'
  BY <1>1, Zenon DEF CInv, IInv, TypeOK, CountersExact, IndexUsed, Totals
<1>3. reply'.min = min /\ reply'.max = max /\ reply'.count = get_killcnt(min, max) + stray
  BY <1>1
<1>4. AdjMax \in Nat /\ AdjMin \in Int /\ min \in Int /\ max \in Int
  BY CountAssumption DEF Request
<1>s. min >= AdjMin => stray = 0
  BY <1>1, <1>4 DEF Beside
<1>i. \A S \in SUBSET Adj : SumFunctionOnSet(kills, S) \in Int
  <2> SUFFICES ASSUME NEW S \in SUBSET Adj PROVE SumFunctionOnSet(kills, S) \in Int
    OBVIOUS
  <2>1. IsFiniteSet(S) /\ \A a \in S : kills[a] \in Int
    BY LevelsFinite, FS_Subset DEF CInv, IInv, TypeOK
  <2> QED
    BY <2>1, SumInt
<1>5. min > AdjMax /\ min <= max => get_killcnt(min, max) = SumFunctionOnSet(kills, Adj)
  BY <1>4 DEF get_killcnt, CInv, Totals
<1>6. ASSUME min <= AdjMax, Cardinality({a \in Adj : kills[a] > 0}) <= MaxDistinct,
             \A a \in Adj : kills[a] < CounterSize
      PROVE  get_killcnt(min, max) = SumFunctionOnSet(kills, {a \in Adj : min <= a /\ a <= max})
  <2> DEFINE R == {a \in Adj : min <= a /\ a <= max}
             C == {a \in Slot : min <= a /\ a <= max /\ killcnt_idx[a] # INVALID}
             f == [a \in C |-> killcnt[killcnt_idx[a]]]
  <2>1. CASE min > max
    <3>1. R = {} /\ get_killcnt(min, max) = 0
      BY <1>4, <2>1 DEF Adj, get_killcnt
    <3> QED
      BY <3>1, SumEmpty
  <2>2. CASE ~(min > max)
    <3>1. get_killcnt(min, max) = SumFunctionOnSet(f, C)
      BY <1>4, <1>6, <2>2 DEF get_killcnt
    <3>2. IsFiniteSet(R) /\ IsFiniteSet(C) /\ C \in SUBSET R
      <4>1. C \in SUBSET R
        BY DEF CInv, IInv, CountersExact
      <4> QED
        BY <4>1, LevelsFinite, FS_Subset
    <3>3. \A a \in Adj : kills[a] \in Nat /\ CounterSize \in Nat \ {0}
      BY CountAssumption DEF CInv, IInv, TypeOK
    <3>4. ASSUME NEW a \in C PROVE f[a] = kills[a]
      <4>a. a \in Adj
        BY <3>2
      <4>1. f[a] = kills[a] % CounterSize
        BY <4>a DEF CInv, IInv, CountersExact
      <4>2. kills[a] \in Nat /\ CounterSize \in Nat \ {0} /\ kills[a] < CounterSize
        BY <1>6, <3>3, <4>a
      <4> QED
        BY <4>1, <4>2, SmallRemainder
    <3>5. \A a \in R \ C : kills[a] = 0
      <4>1. \A a \in R \ C : ~(kills[a] > 0) /\ kills[a] \in Nat
        BY <1>6, <3>3, AdjSlots, EnoughCounters
      <4> QED
        BY <4>1
    <3>6. SumFunctionOnSet(f, C) = SumFunctionOnSet(kills, C)
      BY <3>2, <3>4, SumSame
    <3>7. SumFunctionOnSet(kills, R) = SumFunctionOnSet(kills, C)
      <4>1. \A a \in R : kills[a] \in Int
        BY <3>3
      <4> HIDE DEF R, C
      <4> QED
        BY <3>2, <3>5, <4>1, SumOnSupport
    <3> QED
      BY <3>1, <3>6, <3>7
  <2> QED
    BY <2>1, <2>2
<1>7. AnswersExact'
  <2> SUFFICES ASSUME min >= AdjMin PROVE Exact(reply)'
    BY <1>3 DEF AnswersExact
  <2>1. min > AdjMax /\ min <= max => reply'.count = SumFunctionOnSet(kills, Adj)
    BY <1>3, <1>5, <1>i, <1>s
  <2>2. ASSUME min <= AdjMax, Cardinality({a \in Adj : kills[a] > 0}) <= MaxDistinct,
               \A a \in Adj : kills[a] < CounterSize
        PROVE  reply'.count = SumFunctionOnSet(kills, {a \in Adj : min <= a /\ a <= max})
    <3> DEFINE R == {a \in Adj : min <= a /\ a <= max}
    <3>1. get_killcnt(min, max) = SumFunctionOnSet(kills, R)
      BY <1>6, <2>2
    <3>2. SumFunctionOnSet(kills, R) \in Int
      BY <1>i
    <3> HIDE DEF R
    <3>3. reply'.count = SumFunctionOnSet(kills, R)
      BY <1>3, <1>s, <3>1, <3>2
    <3> QED
      BY <3>3 DEF R
  <2>3. kills' = kills /\ reply'.min = min /\ reply'.max = max
    BY <1>1, <1>3
  <2> QED
    BY <2>1, <2>2, <2>3, Zenon DEF Exact
<1> QED
  BY <1>2, <1>7 DEF CInv

(* Every step of the counters keeps the invariant.                         *)
LEMMA NextCInv == CInv /\ [Next]_vars => CInv'
<1> SUFFICES ASSUME CInv, [Next]_vars PROVE CInv'
  OBVIOUS
<1>1. ASSUME NEW a \in Adj, kill_one_process(a) PROVE CInv'
  <2>1. inc_killcnt(a) /\ kills' = [kills EXCEPT ![a] = @ + 1] /\ reply' = NULL
    BY <1>1 DEF kill_one_process
  <2>2. IInv'
    BY <1>1, NextIInv DEF CInv, Next
  <2>3. IndexUsed' /\ Totals'
    BY <1>1, <2>1, KillIndexUsed, KillTotals, Zenon
  <2> QED
    BY <2>1, <2>2, <2>3 DEF CInv, AnswersExact
<1>2. ASSUME NEW min \in Request, NEW max \in Request, cmd_getkillcnt(min, max)
      PROVE  CInv'
  BY <1>2, AnswerStep
<1>3. CASE UNCHANGED vars
  BY <1>3, Zenon DEF vars, CInv, IInv, TypeOK, CountersExact, IndexUsed, Totals, AnswersExact, Exact
<1> QED
  BY <1>1, <1>2, <1>3 DEF Next

(* The sums follow from the invariant.                                     *)
LEMMA CountsFollow == CInv => CountersExact /\ AnswersExact /\ PublishedLags
<1> SUFFICES ASSUME CInv PROVE PublishedLags
  BY DEF CInv, IInv
<1>1. SumFunctionOnSet(kills, Adj) - SumFunctionOnSet(published, Group) < ReportFreq
  BY DEF CInv, Totals
<1> QED
  BY <1>1 DEF CInv, Totals, PublishedLags

(* LMK_GETKILLCNT answers with the kills in its range, for any number of   *)
(* levels and counters and any counter width, unless the range starts      *)
(* below the table, more levels were hit than there are counters or a      *)
(* counter has wrapped.                                                    *)
THEOREM AnswersCorrect == Spec => []AnswersExact
  BY InitCInv, NextCInv, CountsFollow, PTL DEF Spec

(* sys.lmk.count lags by less than one report period, for any period and   *)
(* any grouping of the levels.                                             *)
THEOREM PublishedInTime == Spec => []PublishedLags
  BY InitCInv, NextCInv, CountsFollow, PTL DEF Spec

-----------------------------------------------------------------------------
CONSTANTS Window, wmark_boost_factor, wbf_step, psi_cont_event_thresh, PidfdSupported, MaxCount

VARIABLES tmed, tcrit, tupgrad, count_upgraded_event, last_event_upgraded,
          poll_handler, paused_handler, poll_start, wbf_effective,
          killing, pidfd_supported, kill_pending, calm, earned

Polls == INSTANCE Polling

(* What Polling assumes of its constants.                                  *)
PollingConstants ==
  /\ Window \in Nat \ {0} /\ psi_cont_event_thresh \in Nat \ {0} /\ MaxCount \in Nat
  /\ wmark_boost_factor \in Nat \ {0} /\ wbf_step \in Nat

(* n counted events are this many ticks apart.                             *)
Spaced(n) == (n - 1) * (Window + 1)

Cont == [med : 0..Polls!Far, crit : 0..Polls!Far, upgrad : 0..Polls!Far,
         count : 0..MaxCount, upgraded : BOOLEAN, earned : [seen : Nat, span : Nat]]

(* One more reclaim has been seen when it waits to be counted, and the     *)
(* time since the last one counted is part of the span.                    *)
Earned(c) ==
  c.count > 0 =>
    /\ c.earned.seen >= c.count - (IF c.upgraded THEN 0 ELSE 1)
    /\ c.earned.span >= Polls!AtMost(Spaced(c.count) + Polls!AtMost(c.upgrad, Window + 1),
                                     Polls!Longest)

CountInv == Polls!C \in Cont /\ Earned(Polls!C)

PollInv ==
  /\ {poll_handler, paused_handler} \subseteq Polls!Level \cup {Polls!None}
  /\ poll_start \in 0..Polls!Far /\ wbf_effective \in 1..wmark_boost_factor

PInv == CountInv /\ PollInv /\ {killing, kill_pending, calm} \subseteq BOOLEAN

(* The interval that time stamps are capped at is longer than a window.    *)
LEMMA FarIsFar ==
  ASSUME PollingConstants
  PROVE  Polls!Far \in Nat /\ Polls!Far >= Window + 1 /\ Window \in Nat
  BY DEF PollingConstants, Polls!Far, Polls!Contiguous

(* Spaced is one window and a tick more for each event.                    *)
LEMMA Spacing ==
  ASSUME PollingConstants, NEW n \in Nat \ {0}
  PROVE  /\ Spaced(n) \in Nat /\ Spaced(n + 1) = Spaced(n) + Window + 1
         /\ n <= MaxCount => Spaced(n) <= Polls!Longest
         /\ Spaced(1) = 0 /\ Polls!Longest = Spaced(MaxCount) /\ Polls!Longest \in Int
<1> DEFINE W == Window + 1
<1>1. W \in Nat
  BY DEF PollingConstants
<1> HIDE DEF W
<1>2. /\ (n - 1) * W \in Nat /\ ((n + 1) - 1) * W = (n - 1) * W + W /\ (1 - 1) * W = 0
      /\ (MaxCount - 1) * W \in Int
  BY <1>1 DEF PollingConstants
<1>3. ASSUME n <= MaxCount PROVE (n - 1) * W <= (MaxCount - 1) * W
  <2>1. (MaxCount - 1) * W = (n - 1) * W + (MaxCount - n) * W
    BY <1>1 DEF PollingConstants
  <2>2. (MaxCount - n) * W \in Nat
    BY <1>1, <1>3 DEF PollingConstants
  <2> QED
    BY <1>2, <2>1, <2>2
<1> QED
  BY <1>2, <1>3 DEF Spaced, Polls!Longest, W, PollingConstants

(* An event that is counted was earned.                                    *)
LEMMA ContEarned ==
  ASSUME PollingConstants, NEW c \in Cont, Earned(c), NEW l \in {1, 2},
         Polls!check_cont_lmkd_events(c, l).count <= MaxCount
  PROVE  /\ Polls!check_cont_lmkd_events(c, l) \in Cont
         /\ Earned(Polls!check_cont_lmkd_events(c, l))
<1> DEFINE prev == IF l = Polls!MEDIUM THEN c.med ELSE c.crit
           d == IF l = Polls!MEDIUM THEN [c EXCEPT !.med = 0] ELSE [c EXCEPT !.crit = 0]
           r == Polls!check_cont_lmkd_events(c, l)
<1>1. /\ d \in Cont /\ d.count = c.count /\ d.upgraded = c.upgraded /\ d.upgrad = c.upgrad
      /\ d.earned = c.earned
  BY FarIsFar DEF Cont
<1>2. \/ /\ c.upgrad > Window /\ c.upgraded
         /\ r = [d EXCEPT !.count = @ + 1, !.upgraded = FALSE, !.upgrad = 0]
      \/ r = d
      \/ r = [d EXCEPT !.count = 0]
  BY DEF Polls!check_cont_lmkd_events
<1> HIDE DEF d, r
<1>3. CASE r = d
  BY <1>1, <1>3 DEF Earned, r
<1>4. CASE r = [d EXCEPT !.count = 0]
  <2>1. r \in Cont /\ r.count = 0
    BY <1>1, <1>4, SMTT(20) DEF Cont, PollingConstants
  <2> QED
    BY <2>1 DEF Earned, r
<1>5. CASE /\ c.upgrad > Window /\ c.upgraded
           /\ r = [d EXCEPT !.count = @ + 1, !.upgraded = FALSE, !.upgrad = 0]
  <2>1. /\ r.count = c.count + 1 /\ r.upgraded = FALSE /\ r.upgrad = 0 /\ r.earned = c.earned
        /\ r.med = d.med /\ r.crit = d.crit
        /\ r = [med |-> r.med, crit |-> r.crit, upgrad |-> r.upgrad, count |-> r.count,
                upgraded |-> r.upgraded, earned |-> r.earned]
    BY <1>1, <1>5, Zenon DEF Cont
  <2>2. c.count \in Nat /\ c.count + 1 <= MaxCount /\ c.upgrad \in Nat
        /\ c.earned.seen \in Nat /\ c.earned.span \in Nat
    BY <2>1 DEF Cont, r
  <2>3. r \in Cont
    <3>1. d.med \in 0..Polls!Far /\ d.crit \in 0..Polls!Far /\ c.earned \in [seen : Nat, span : Nat]
      BY <1>1 DEF Cont
    <3>2. r.count \in 0..MaxCount /\ r.upgrad \in 0..Polls!Far
      BY <2>1, <2>2, FarIsFar DEF PollingConstants
    <3> QED
      BY <2>1, <3>1, <3>2, Zenon DEF Cont
  <2>4. r.earned.seen >= r.count - 1 /\ r.earned.span >= Spaced(r.count)
    <3>1. CASE c.count = 0
      BY <2>1, <2>2, <3>1, Spacing, SMTT(20) DEF PollingConstants
    <3>2. CASE c.count # 0
      <4>1. /\ Spaced(c.count) \in Nat /\ Spaced(r.count) = Spaced(c.count) + Window + 1
            /\ Spaced(r.count) <= Polls!Longest /\ Polls!Longest \in Int
        BY <2>1, <2>2, <3>2, Spacing
      <4>2. /\ c.earned.seen >= c.count
            /\ c.earned.span >= Polls!AtMost(Spaced(c.count) + Polls!AtMost(c.upgrad, Window + 1),
                                             Polls!Longest)
        BY <1>5, <2>2, <3>2 DEF Earned
      <4>3. Polls!AtMost(c.upgrad, Window + 1) = Window + 1
        BY <1>5, <2>2, FarIsFar, SMTT(20) DEF Polls!AtMost
      <4>4. c.earned.span >= Spaced(r.count)
        BY <2>2, <4>1, <4>2, <4>3, FarIsFar, SMTT(20) DEF Polls!AtMost
      <4> QED
        BY <2>1, <2>2, <4>2, <4>4
    <3> QED
      BY <3>1, <3>2
  <2>5. Polls!AtMost(Spaced(r.count) + Polls!AtMost(r.upgrad, Window + 1), Polls!Longest)
          <= Spaced(r.count)
    BY <2>1, <2>2, Spacing, FarIsFar DEF Polls!AtMost
  <2> QED
    BY <2>1, <2>2, <2>3, <2>4, <2>5, Spacing, FarIsFar, SMTT(20) DEF Earned, r, Polls!AtMost
<1> QED
  BY <1>2, <1>3, <1>4, <1>5

(* A reclaim that is seen is one more.                                     *)
LEMMA UpgradedEarned ==
  ASSUME PollingConstants, NEW c \in Cont, Earned(c), NEW l, NEW direct
  PROVE  Polls!Upgraded(c, l, direct) \in Cont /\ Earned(Polls!Upgraded(c, l, direct))
<1> DEFINE s == IF c.upgraded THEN c.earned.seen ELSE Polls!AtMost(c.earned.seen + 1, MaxCount)
           r == [c EXCEPT !.upgraded = TRUE, !.earned.seen = s]
<1>1. Polls!Upgraded(c, l, direct) \in {c, r}
  BY DEF Polls!Upgraded
<1>2. /\ c.earned.seen \in Nat /\ c.earned.span \in Nat
      /\ c.count \in 0..MaxCount /\ c.upgraded \in BOOLEAN
  BY DEF Cont
<1>3. s \in Nat /\ (c.count > 0 => s >= c.count)
  BY <1>2 DEF Polls!AtMost, PollingConstants, Earned
<1> HIDE DEF s
<1>4. /\ r \in Cont /\ r.count = c.count /\ r.upgraded = TRUE /\ r.upgrad = c.upgrad
      /\ r.earned.seen = s /\ r.earned.span = c.earned.span
  BY <1>3, Zenon DEF Cont
<1> HIDE DEF r
<1>5. Earned(r)
  BY <1>2, <1>3, <1>4 DEF Earned
<1> QED
  BY <1>1, <1>4, <1>5

(* What a handler leaves in the statics.                                   *)
LEMMA SetEarned ==
  ASSUME PollingConstants, NEW c \in Cont, Earned(c), Polls!SetC(c)
  PROVE  CountInv'
<1> DEFINE z == [seen |-> 0, span |-> 0]
           r == [c EXCEPT !.earned = IF c.count = 0 THEN z ELSE c.earned]
<1>1. c = [med |-> c.med, crit |-> c.crit, upgrad |-> c.upgrad, count |-> c.count,
           upgraded |-> c.upgraded, earned |-> c.earned]
  BY DEF Cont
<1>2. Polls!C' = r
  BY <1>1 DEF Polls!SetC, Polls!C
<1>3. r \in Cont
  BY DEF Cont
<1>4. Earned(r)
  <2>1. CASE c.count = 0
    BY <1>1, <2>1 DEF Earned
  <2>2. CASE c.count # 0
    BY <1>1, <2>2 DEF Earned
  <2> QED
    BY <2>1, <2>2
<1> HIDE DEF r
<1>5. Earned(Polls!C)'
  BY <1>2, <1>4 DEF Earned
<1> QED
  BY <1>2, <1>3, <1>5 DEF CountInv, Cont, Polls!Far, Polls!Contiguous

(* What call_handler leaves of the polling.                                *)
LEMMA HandlerEnds ==
  ASSUME PollingConstants, PollInv, NEW h \in Polls!Level \cup {Polls!None}, NEW update,
         NEW w \in 1..wmark_boost_factor, Polls!call_handler_end(h, update, w)
  PROVE  PollInv'
<1>1. Polls!Far \in Nat /\ Polls!Level = 1..3 /\ Polls!None = 0 /\ Polls!CRITICAL = 2
      /\ wmark_boost_factor \in Nat \ {0}
  BY FarIsFar DEF Polls!Level, Polls!None, Polls!CRITICAL, Polls!MEDIUM, Polls!SUPER_CRITICAL,
                  PollingConstants
<1> QED
  BY <1>1 DEF PollInv, Polls!call_handler_end

(* The end of mp_event_psi, with a count that was earned.                  *)
LEMMA NoKillEarned ==
  ASSUME PollingConstants, PollInv, NEW c \in Cont, Earned(c), NEW l \in Polls!Level,
         NEW event, NEW direct, NEW w \in 1..wmark_boost_factor,
         NEW is_killing \in BOOLEAN, NEW pending \in BOOLEAN,
         Polls!no_kill(c, l, event, direct, w, is_killing, pending)
  PROVE  CountInv' /\ PollInv' /\ {killing', kill_pending'} \subseteq BOOLEAN
<1>1. killing' = is_killing /\ kill_pending' = pending
  BY DEF Polls!no_kill
<1>2. PICK r, v, u : /\ r \in {c, [c EXCEPT !.count = 0]} /\ v \in {w, Polls!BoostDown(w)}
                     /\ Polls!SetC(r) /\ Polls!call_handler_end(l, u, v)
  BY Zenon DEF Polls!no_kill
<1>3. r \in Cont /\ Earned(r)
  <2>1. CASE r = c
    BY <2>1
  <2>2. CASE r = [c EXCEPT !.count = 0]
    <3>1. r \in Cont /\ r.count = 0
      BY <2>2 DEF Cont, PollingConstants
    <3> QED
      BY <3>1 DEF Earned
  <2> QED
    BY <1>2, <2>1, <2>2
<1>4. v \in 1..wmark_boost_factor
  BY <1>2 DEF Polls!BoostDown, Polls!AtLeast, PollingConstants
<1>5. CountInv'
  BY <1>2, <1>3, SetEarned
<1>6. PollInv'
  BY <1>2, <1>4, HandlerEnds
<1> QED
  BY <1>1, <1>5, <1>6

(* mp_event_psi, with a count that was earned.                             *)
LEMMA EventEarned ==
  ASSUME PollingConstants, PInv, NEW c \in Cont, Earned(c), NEW l \in Polls!Level,
         NEW event, NEW direct, Polls!mp_event_psi(c, l, event, direct)
  PROVE  CountInv' /\ PollInv' /\ {killing', kill_pending'} \subseteq BOOLEAN
<1> DEFINE AllKept == CountInv' /\ PollInv' /\ {killing', kill_pending'} \subseteq BOOLEAN
           d == Polls!Upgraded(c, l, direct)
<1>1. PollInv /\ killing \in BOOLEAN /\ wbf_effective \in 1..wmark_boost_factor
      /\ wmark_boost_factor \in 1..wmark_boost_factor
  BY DEF PInv, PollInv, PollingConstants
<1>2. d \in Cont /\ Earned(d)
  BY UpgradedEarned
<1>3. ASSUME NEW w \in 1..wmark_boost_factor
      PROVE  /\ Polls!BoostDown(w) \in 1..wmark_boost_factor
             /\ Polls!BoostUp(w) \in 1..wmark_boost_factor
  BY DEF Polls!BoostDown, Polls!BoostUp, Polls!AtLeast, Polls!AtMost, PollingConstants
<1>4. ASSUME NEW w \in 1..wmark_boost_factor, Polls!parse_fails(c, l, w) PROVE AllKept
  <2>1. /\ killing' \in BOOLEAN /\ kill_pending' = FALSE
        /\ Polls!SetC(c) /\ Polls!call_handler_end(l, "DO_NOT_CHANGE", w)
    BY <1>1, <1>4, Zenon DEF Polls!parse_fails
  <2> QED
    BY <1>1, <2>1, SetEarned, HandlerEnds, Zenon
<1>5. ASSUME NEW w \in 1..wmark_boost_factor, Polls!handled(c, l, event, direct, w) PROVE AllKept
  <2> HIDE DEF d, AllKept
  <2>1. \/ Polls!no_kill(c, l, event, FALSE, w, killing, TRUE)
        \/ Polls!no_kill(c, l, event, FALSE, w, Polls!KillingWhenQuiet, FALSE)
        \/ \E pending \in BOOLEAN : Polls!no_kill(d, l, event, direct, w, FALSE, pending)
        \/ Polls!Killed(d, l, event, direct, w)
    BY <1>5, Zenon DEF Polls!handled, d
  <2>2. CASE Polls!no_kill(c, l, event, FALSE, w, killing, TRUE)
    BY <1>1, <2>2, NoKillEarned, Zenon DEF AllKept
  <2>3. CASE Polls!no_kill(c, l, event, FALSE, w, Polls!KillingWhenQuiet, FALSE)
    BY <1>1, <2>3, NoKillEarned, Zenon DEF AllKept, Polls!KillingWhenQuiet
  <2>4. CASE \E pending \in BOOLEAN : Polls!no_kill(d, l, event, direct, w, FALSE, pending)
    <3>1. PICK pending \in BOOLEAN : Polls!no_kill(d, l, event, direct, w, FALSE, pending)
      BY <2>4, Zenon
    <3> QED
      BY <1>1, <1>2, <3>1, NoKillEarned, Zenon DEF AllKept
  <2>5. CASE Polls!Killed(d, l, event, direct, w)
    <3>1. PICK more \in BOOLEAN, pending \in BOOLEAN :
            Polls!no_kill(d, l, event, direct,
                          IF more THEN Polls!BoostUp(w) ELSE Polls!BoostDown(w), TRUE, pending)
      BY <2>5, Zenon DEF Polls!Killed
    <3>2. (IF more THEN Polls!BoostUp(w) ELSE Polls!BoostDown(w)) \in 1..wmark_boost_factor
      BY <1>3
    <3> QED
      BY <1>1, <1>2, <3>1, <3>2, NoKillEarned, Zenon DEF AllKept
  <2> QED
    BY <2>1, <2>2, <2>3, <2>4, <2>5, Zenon
<1>6. PICK w \in {wmark_boost_factor, wbf_effective} :
        Polls!handled(c, l, event, direct, w) \/ Polls!parse_fails(c, l, w)
  BY Zenon DEF Polls!mp_event_psi
<1> QED
  BY <1>1, <1>4, <1>5, <1>6

(* A resumed poll, and the handlers that do not touch the count.           *)
LEMMA CountKept ==
  ASSUME CountInv, UNCHANGED Polls!cont_vars
  PROVE  CountInv'
<1>1. Polls!C' = Polls!C
  BY DEF Polls!C, Polls!cont_vars
<1>2. Earned(Polls!C)'
  BY <1>1 DEF CountInv, Earned
<1> QED
  BY <1>1, <1>2 DEF CountInv, Cont, Polls!Far, Polls!Contiguous

(* Time passes.                                                            *)
LEMMA TickEarned ==
  ASSUME PollingConstants, CountInv, Polls!tick
  PROVE  CountInv'
<1> DEFINE c == Polls!C
           d == Polls!C'
<1>1. /\ c \in Cont /\ Earned(c)
      /\ c.med = tmed /\ c.crit = tcrit /\ c.upgrad = tupgrad /\ c.count = count_upgraded_event
      /\ c.upgraded = last_event_upgraded /\ c.earned = earned
  BY DEF CountInv, Polls!C
<1>2. d = [med |-> tmed', crit |-> tcrit', upgrad |-> tupgrad', count |-> count_upgraded_event',
           upgraded |-> last_event_upgraded', earned |-> earned']
  BY DEF Polls!C
<1>3. /\ tmed \in 0..Polls!Far /\ tcrit \in 0..Polls!Far /\ tupgrad \in 0..Polls!Far
      /\ count_upgraded_event \in 0..MaxCount /\ last_event_upgraded \in BOOLEAN
      /\ earned \in [seen : Nat, span : Nat]
  BY <1>1 DEF Cont
<1>4. /\ tmed' = Polls!AtMost(tmed + 1, Polls!Far) /\ tcrit' = Polls!AtMost(tcrit + 1, Polls!Far)
      /\ tupgrad' = Polls!AtMost(tupgrad + 1, Polls!Far)
      /\ earned' = IF count_upgraded_event = 0 THEN earned
                   ELSE [earned EXCEPT !.span = Polls!AtMost(@ + 1, Polls!Longest)]
      /\ UNCHANGED <<count_upgraded_event, last_event_upgraded>>
  BY Zenon DEF Polls!tick
<1>5. /\ tmed' \in 0..Polls!Far /\ tcrit' \in 0..Polls!Far /\ tupgrad' \in 0..Polls!Far
  BY <1>3, <1>4, FarIsFar, SMTT(20) DEF Polls!AtMost
<1>6. CASE count_upgraded_event = 0
  <2>1. d \in Cont /\ d.count = 0
    BY <1>2, <1>3, <1>4, <1>5, <1>6, SMTT(20) DEF Cont
  <2> QED
    BY <2>1 DEF CountInv, Earned, Cont, Polls!Far, Polls!Contiguous
<1>7. CASE count_upgraded_event # 0
  <2> DEFINE n == count_upgraded_event
  <2>1. /\ Polls!Longest \in Nat /\ Spaced(n) \in Nat
    BY <1>3, <1>7, Spacing DEF PollingConstants
  <2>2. /\ earned'.seen = earned.seen /\ earned'.span = Polls!AtMost(earned.span + 1, Polls!Longest)
        /\ earned' \in [seen : Nat, span : Nat] /\ earned.seen \in Nat /\ earned.span \in Nat
    BY <1>3, <1>4, <1>7, <2>1, FarIsFar DEF Polls!AtMost
  <2>3. /\ earned.seen >= n - (IF last_event_upgraded THEN 0 ELSE 1)
        /\ earned.span >= Polls!AtMost(Spaced(n) + Polls!AtMost(tupgrad, Window + 1), Polls!Longest)
    BY <1>1, <1>3, <1>7 DEF Earned
  <2>4. earned'.span >= Polls!AtMost(Spaced(n) + Polls!AtMost(tupgrad', Window + 1), Polls!Longest)
    BY <1>3, <1>4, <2>1, <2>2, <2>3, FarIsFar DEF Polls!AtMost
  <2>5. d \in Cont
    BY <1>2, <1>3, <1>4, <1>5, <2>2 DEF Cont
  <2>6. Earned(Polls!C)'
    BY <1>2, <1>4, <2>2, <2>3, <2>4 DEF Earned, Spaced, Polls!AtMost, Polls!Longest
  <2> QED
    BY <2>5, <2>6 DEF CountInv, Cont, Polls!Far, Polls!Contiguous
<1> QED
  BY <1>6, <1>7

(* The invariant is inductive.                                             *)
LEMMA NextEarned ==
  ASSUME PollingConstants, PInv, [Polls!Next]_(Polls!vars)
  PROVE  PInv'
<1>0. CountInv /\ PollInv /\ {killing, kill_pending, calm} \subseteq BOOLEAN
      /\ Polls!C \in Cont /\ Earned(Polls!C) /\ wbf_effective \in 1..wmark_boost_factor
  BY DEF PInv, CountInv, PollInv
<1>1. ASSUME NEW l \in Polls!Level, NEW direct \in BOOLEAN, Polls!psi_event(l, direct)
      PROVE  PInv'
  <2>1. /\ Polls!Contd(l).count <= MaxCount /\ Polls!mp_event_psi(Polls!Contd(l), l, TRUE, direct)
        /\ calm' = calm
    BY <1>1, Zenon DEF Polls!psi_event, Polls!env_vars
  <2>2. PICK c : c = Polls!Contd(l)
    OBVIOUS
  <2>3. c \in Cont /\ Earned(c)
    <3>1. CASE l <= Polls!CRITICAL
      <4>1. l \in {1, 2} /\ c = Polls!check_cont_lmkd_events(Polls!C, l)
        BY <2>2, <3>1
           DEF Polls!Contd, Polls!CRITICAL, Polls!Level, Polls!MEDIUM, Polls!SUPER_CRITICAL
      <4> QED
        BY <1>0, <2>1, <2>2, <4>1, ContEarned
    <3>2. CASE ~(l <= Polls!CRITICAL)
      BY <1>0, <2>2, <3>2 DEF Polls!Contd
    <3> QED
      BY <3>1, <3>2
  <2>4. CountInv' /\ PollInv' /\ {killing', kill_pending'} \subseteq BOOLEAN
    BY <2>1, <2>2, <2>3, EventEarned, Zenon
  <2> QED
    BY <1>0, <2>1, <2>4 DEF PInv
<1>2. ASSUME NEW direct \in BOOLEAN, Polls!poll(direct) PROVE PInv'
  <2>1. /\ poll_handler # Polls!None /\ Polls!mp_event_psi(Polls!C, poll_handler, FALSE, direct)
        /\ calm' = calm
    BY <1>2, Zenon DEF Polls!poll, Polls!env_vars
  <2>2. PICK l \in Polls!Level : l = poll_handler
    BY <1>0, <2>1 DEF PollInv
  <2>3. PICK c : c = Polls!C
    OBVIOUS
  <2>4. CountInv' /\ PollInv' /\ {killing', kill_pending'} \subseteq BOOLEAN
    BY <1>0, <2>1, <2>2, <2>3, EventEarned, Zenon
  <2> QED
    BY <1>0, <2>1, <2>4 DEF PInv
<1>3. ASSUME \/ Polls!kill_done_handler \/ Polls!kill_fail_handler \/ Polls!kill_timeout
             \/ Polls!victim_gone \/ Polls!other_handler
      PROVE  PInv'
  <2>1. /\ UNCHANGED <<Polls!cont_vars, killing, calm>> /\ kill_pending' \in {kill_pending, FALSE}
        /\ \/ UNCHANGED Polls!poll_vars
           \/ \E u : Polls!call_handler_end(Polls!None, u, wbf_effective)
    BY <1>3, Zenon DEF Polls!kill_done_handler, Polls!kill_fail_handler, Polls!kill_timeout,
         Polls!victim_gone, Polls!other_handler, Polls!ResumePolling, Polls!env_vars,
         Polls!kill_vars
  <2>2. CountInv'
    BY <1>0, <2>1, CountKept
  <2>3. PollInv'
    <3>1. CASE UNCHANGED Polls!poll_vars
      BY <1>0, <3>1 DEF PollInv, Polls!poll_vars
    <3>2. CASE \E u : Polls!call_handler_end(Polls!None, u, wbf_effective)
      <4>1. PICK u, w : w = wbf_effective /\ Polls!call_handler_end(Polls!None, u, w)
        BY <3>2
      <4> QED
        BY <1>0, <4>1, HandlerEnds
    <3> QED
      BY <2>1, <3>1, <3>2
  <2> QED
    BY <1>0, <2>1, <2>2, <2>3, Zenon DEF PInv
<1>4. ASSUME Polls!tick PROVE PInv'
  <2>1. CountInv'
    BY <1>0, <1>4, TickEarned
  <2>2. /\ UNCHANGED <<poll_handler, paused_handler, wbf_effective, killing, kill_pending, calm>>
        /\ poll_start' = Polls!AtMost(poll_start + 1, Polls!Far)
    BY <1>4, Zenon DEF Polls!tick, Polls!kill_vars, Polls!env_vars
  <2>3. PollInv'
    BY <1>0, <2>2, FarIsFar DEF PollInv, Polls!AtMost
  <2> QED
    BY <1>0, <2>1, <2>2, <2>3 DEF PInv
<1>5. ASSUME Polls!pressure_ends \/ UNCHANGED Polls!vars PROVE PInv'
  <2>1. UNCHANGED <<Polls!cont_vars, Polls!poll_vars, Polls!kill_vars>> /\ calm' \in {calm, TRUE}
    BY <1>5, Zenon DEF Polls!pressure_ends, Polls!vars, Polls!env_vars
  <2>2. CountInv'
    BY <1>0, <2>1, CountKept
  <2> QED
    BY <1>0, <2>1, <2>2, Zenon DEF PInv, PollInv, Polls!poll_vars, Polls!kill_vars
<1> QED
  BY <1>1, <1>2, <1>3, <1>4, <1>5, Zenon DEF Polls!Next

(* It holds initially.                                                     *)
LEMMA InitEarned == ASSUME PollingConstants PROVE Polls!Init => PInv
<1> SUFFICES ASSUME Polls!Init PROVE PInv
  OBVIOUS
<1>1. Polls!C = [med |-> Polls!Far, crit |-> Polls!Far, upgrad |-> Polls!Far, count |-> 0,
                 upgraded |-> FALSE, earned |-> [seen |-> 0, span |-> 0]]
  BY Zenon DEF Polls!Init, Polls!C
<1>2. CountInv
  BY <1>1, FarIsFar, SMTT(20) DEF CountInv, Cont, Earned, PollingConstants
<1>3. PollInv
  BY FarIsFar DEF PollInv, Polls!Init, PollingConstants
<1>4. {killing, kill_pending, calm} \subseteq BOOLEAN
  BY Zenon DEF Polls!Init
<1> QED
  BY <1>2, <1>3, <1>4 DEF PInv

(* Whatever the length of the window, the threshold and the boost, polling *)
(* at critical level is earned: check_cont_lmkd_events counts n events     *)
(* only over more than n - 1 psi windows, in each of which direct reclaim  *)
(* was seen.                                                               *)
THEOREM UpgradesAreEarned ==
  PollingConstants => (Polls!Spec => []Polls!UpgradeEarned)
<1> SUFFICES ASSUME PollingConstants PROVE Polls!Spec => []Polls!UpgradeEarned
  OBVIOUS
<1>1. Polls!Init => PInv
  BY InitEarned
<1>2. PInv /\ [Polls!Next]_(Polls!vars) => PInv'
  BY NextEarned
<1>3. PInv => Polls!UpgradeEarned
  <2> SUFFICES ASSUME PInv PROVE Polls!UpgradeEarned
    OBVIOUS
  <2> DEFINE n == count_upgraded_event
  <2>1. /\ Polls!C \in Cont /\ Earned(Polls!C)
        /\ Polls!C = [med |-> tmed, crit |-> tcrit, upgrad |-> tupgrad, count |-> n,
                      upgraded |-> last_event_upgraded, earned |-> earned]
    BY SMTT(20) DEF PInv, CountInv, Polls!C
  <2>2. /\ tmed \in 0..Polls!Far /\ tcrit \in 0..Polls!Far /\ tupgrad \in 0..Polls!Far
        /\ n \in 0..MaxCount /\ last_event_upgraded \in BOOLEAN
        /\ earned.seen \in Nat /\ earned.span \in Nat
    BY <2>1 DEF Cont
  <2>3. Polls!TypeOK
    BY <2>2 DEF Polls!TypeOK, PInv, PollInv
  <2>4. ASSUME n > 0 PROVE earned.seen >= n - 1 /\ earned.span >= Spaced(n)
    <3>1. /\ earned.seen >= n - (IF last_event_upgraded THEN 0 ELSE 1)
          /\ earned.span >= Polls!AtMost(Spaced(n) + Polls!AtMost(tupgrad, Window + 1),
                                         Polls!Longest)
      BY <2>1, <2>4 DEF Earned
    <3>2. Spaced(n) \in Nat /\ Spaced(n) <= Polls!Longest /\ Polls!Longest \in Int
      BY <2>2, <2>4, Spacing
    <3> QED
      BY <2>2, <3>1, <3>2, FarIsFar, SMTT(20) DEF Polls!AtMost
  <2> QED
    BY <2>3, <2>4 DEF Polls!UpgradeEarned, Spaced
<1> QED
  BY <1>1, <1>2, <1>3, PTL DEF Polls!Spec

(* A medium or critical psi event that reaches the end of mp_event_psi     *)
(* while nothing is polled starts polling, or waits for a victim.          *)
LEMMA InitialEventStarts ==
  ASSUME NEW c, NEW l \in {1, 2}, NEW direct, NEW w, poll_handler = Polls!None,
         Polls!handled(c, l, TRUE, direct, w), poll_handler' = Polls!None
  PROVE  Polls!is_waiting_for_kill(kill_pending')
<1>1. PICK d, found, v, k, p : Polls!no_kill(d, l, TRUE, found, v, k, p)
  BY Zenon DEF Polls!handled, Polls!Killed
<1>2. kill_pending' = p
  BY <1>1, Zenon DEF Polls!no_kill
<1> SUFFICES ASSUME ~Polls!is_waiting_for_kill(p) PROVE FALSE
  BY <1>2, Zenon
<1>3. \/ Polls!call_handler_end(l, "CRIT_UPGRADE", v)
      \/ \E u : Polls!call_handler_end(l, "START", u)
  <2>1. Polls!Starts(l)
    BY Zenon DEF Polls!Starts
  <2> QED
    BY <1>1, <2>1, Zenon DEF Polls!no_kill
<1>4. poll_handler' = Polls!CRITICAL \/ poll_handler' = l
  <2>1. ASSUME Polls!call_handler_end(l, "CRIT_UPGRADE", v) PROVE poll_handler' = Polls!CRITICAL
    BY <2>1 DEF Polls!call_handler_end, Polls!CRITICAL
  <2>2. ASSUME NEW u, Polls!call_handler_end(l, "START", u) PROVE poll_handler' = l
    BY <2>2 DEF Polls!call_handler_end
  <2> QED
    BY <1>3, <2>1, <2>2, Zenon
<1> QED
  BY <1>4 DEF Polls!None, Polls!CRITICAL

(* Critical polling is not taken over by an event of a lower level.        *)
LEMMA CriticalStays ==
  ASSUME PInv, NEW l \in Polls!Level, NEW direct, Polls!psi_event(l, direct),
         poll_handler >= Polls!CRITICAL
  PROVE  poll_handler' # Polls!MEDIUM
<1>1. \E u, v : /\ Polls!call_handler_end(l, u, v)
                /\ u = "START" => Polls!Starts(l)
                /\ u \in {"START", "PAUSE", "CRIT_UPGRADE", "DO_NOT_CHANGE"}
  <2>1. ASSUME NEW c, NEW e, NEW d, NEW w, NEW k, NEW p, Polls!no_kill(c, l, e, d, w, k, p)
        PROVE  \E u, v : /\ Polls!call_handler_end(l, u, v)
                         /\ u = "START" => Polls!Starts(l)
                         /\ u \in {"START", "PAUSE", "CRIT_UPGRADE", "DO_NOT_CHANGE"}
    BY <2>1, Zenon DEF Polls!no_kill
  <2>2. ASSUME NEW c, NEW w, Polls!parse_fails(c, l, w)
        PROVE  Polls!call_handler_end(l, "DO_NOT_CHANGE", w)
    BY <2>2, Zenon DEF Polls!parse_fails
  <2>3. \/ \E c, e, d, w, k, p : Polls!no_kill(c, l, e, d, w, k, p)
        \/ \E c, w : Polls!parse_fails(c, l, w)
    BY Zenon DEF Polls!psi_event, Polls!mp_event_psi, Polls!handled, Polls!Killed
  <2> QED
    BY <2>1, <2>2, <2>3, Zenon
<1>2. PICK u, v : /\ Polls!call_handler_end(l, u, v)
                  /\ u = "START" => Polls!Starts(l)
                  /\ u \in {"START", "PAUSE", "CRIT_UPGRADE", "DO_NOT_CHANGE"}
  BY <1>1
<1>0. poll_handler \in 0..3 /\ l \in 1..3
  BY DEF PInv, PollInv, Polls!Level, Polls!MEDIUM, Polls!SUPER_CRITICAL, Polls!None
<1>3. CASE u = "START"
  BY <1>0, <1>2, <1>3 DEF Polls!call_handler_end, Polls!Starts, Polls!MEDIUM, Polls!CRITICAL, Polls!None
<1>4. CASE u = "PAUSE"
  BY <1>2, <1>4 DEF Polls!call_handler_end, Polls!MEDIUM, Polls!None
<1>5. CASE u = "CRIT_UPGRADE"
  BY <1>2, <1>5 DEF Polls!call_handler_end, Polls!MEDIUM, Polls!CRITICAL
<1>6. CASE u = "DO_NOT_CHANGE"
  BY <1>2, <1>6 DEF Polls!call_handler_end, Polls!MEDIUM, Polls!CRITICAL, Polls!None
<1> QED
  BY <1>2, <1>3, <1>4, <1>5, <1>6

(* The initial medium or critical psi event always starts polling, unless  *)
(* lmkd then waits for a victim, and critical polling is never taken over  *)
(* by an event of a lower level: of all the ways through mp_event_psi and  *)
(* call_handler.                                                           *)
THEOREM PollingAlwaysStarts ==
  PollingConstants => (Polls!Spec => Polls!PollingStarts)
<1> SUFFICES ASSUME PollingConstants PROVE Polls!Spec => Polls!PollingStarts
  OBVIOUS
<1> DEFINE Starting ==
             poll_handler = Polls!None /\ poll_handler' = Polls!None
             /\ ~Polls!is_waiting_for_kill(kill_pending') /\ ~calm
             => \A l \in Polls!MEDIUM..Polls!CRITICAL, direct \in BOOLEAN :
                  ~Polls!handled(Polls!Contd(l), l, TRUE, direct, wmark_boost_factor)
           Staying ==
             poll_handler >= Polls!CRITICAL /\ poll_handler' = Polls!MEDIUM
             => \A l \in Polls!Level, direct \in BOOLEAN : ~Polls!psi_event(l, direct)
<1>1. Starting
  <2>1. Polls!MEDIUM..Polls!CRITICAL = {1, 2}
    BY DEF Polls!MEDIUM, Polls!CRITICAL
  <2> QED
    BY <2>1, InitialEventStarts, Zenon
<1>2. PInv => Staying
  BY CriticalStays, Zenon
<1>3. PInv /\ [Polls!Next]_(Polls!vars) => [Starting /\ Staying]_(Polls!vars)
  BY <1>1, <1>2, Zenon
<1>4. Polls!Init => PInv
  BY InitEarned
<1>5. PInv /\ [Polls!Next]_(Polls!vars) => PInv'
  BY NextEarned
<1> QED
  BY <1>3, <1>4, <1>5, PTL DEF Polls!Spec, Polls!PollingStarts
=============================================================================
