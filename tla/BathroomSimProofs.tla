------------------------- MODULE BathroomSimProofs -------------------------
(***************************************************************************)
(* Proofs about the simulation around the bathroom, for any finite set of  *)
(* threads, any loop counts and any number of failed pthread_create calls. *)
(*                                                                         *)
(* The simulation uses the monitor as its specification says, so what      *)
(* BathroomProofs shows of the monitor holds in it.  The statistics need   *)
(* sums over all threads and over all cells of a histogram: the first part *)
(* derives, by the smallest set that would be a counterexample, how a sum  *)
(* changes with one of its terms.                                          *)
(***************************************************************************)
EXTENDS BathroomSim, BathroomProofs

USE DEF Unborn, Failed, Skipped, Visiting, Tallying, Report, Printing, Ended,
        Stages, Running, Over
USE DEF Outside, Deciding, Blocked, Woken, Resuming, Using, Leaving, Points,
        Gender, VACANT, MALE, FEMALE

-----------------------------------------------------------------------------
(* Sums.                                                                    *)

\* A set of subsets of a finite set has one that contains no other.
LEMMA SmallestSet ==
  ASSUME NEW S, IsFiniteSet(S), NEW C, C \subseteq SUBSET S, C # {}
  PROVE  \E T \in C : \A U \in C : U \subseteq T => U = T
<1>1. C \subseteq FiniteSubsetsOf(S)
  BY FS_Subset DEF FiniteSubsetsOf
<1>2. PICK T \in C : \A U \in C : <<U, T>> \notin StrictSubsetOrdering(S)
  BY <1>1, FS_StrictSubsetOrderingWellFounded, WFMin, Zenon
<1> QED
  BY <1>1, <1>2 DEF StrictSubsetOrdering, FiniteSubsetsOf

\* The element a sum takes first.
Pick(s) == CHOOSE x \in s : TRUE

\* It is one.
LEMMA PickIsIn == \A s : s # {} => Pick(s) \in s
BY DEF Pick

\* The recursion of SumFunctionOnSet: g adds up f over the subsets of T.
IsSum(f, T, g) ==
  g = [s \in SUBSET T |-> IF s = {} THEN 0 ELSE f[Pick(s)] + g[s \ {Pick(s)}]]

\* The same, set by set.
Adds(f, T, g) ==
  /\ g = [s \in SUBSET T |-> g[s]]
  /\ g[{}] = 0
  /\ \A s \in SUBSET T : s # {} =>
       /\ Pick(s) \in s /\ s \ {Pick(s)} \in SUBSET T
       /\ g[s] = f[Pick(s)] + g[s \ {Pick(s)}]

\* The function that adds up is the one that obeys the rule, set by set.
LEMMA SumRule ==
  ASSUME NEW T, NEW f, NEW g
  PROVE  IsSum(f, T, g) <=> Adds(f, T, g)
<1> DEFINE rule(s) == IF s = {} THEN 0 ELSE f[Pick(s)] + g[s \ {Pick(s)}]
<1>0. IsSum(f, T, g) <=> g = [s \in SUBSET T |-> rule(s)]
  BY Zenon DEF IsSum
<1> HIDE DEF rule
<1>1. ASSUME g = [s \in SUBSET T |-> rule(s)]
      PROVE  Adds(f, T, g)
  <2>1. \A s \in SUBSET T : g[s] = rule(s)
    BY <1>1
  <2>2. g = [s \in SUBSET T |-> g[s]]
    BY <1>1
  <2>3. \A s \in SUBSET T : s # {} => Pick(s) \in s /\ s \ {Pick(s)} \in SUBSET T
    BY PickIsIn
  <2>4. g[{}] = 0
    BY <2>1 DEF rule
  <2>5. \A s \in SUBSET T : s # {} => g[s] = f[Pick(s)] + g[s \ {Pick(s)}]
    BY <2>1 DEF rule
  <2> QED BY <2>2, <2>3, <2>4, <2>5 DEF Adds
<1>2. ASSUME Adds(f, T, g)
      PROVE  g = [s \in SUBSET T |-> rule(s)]
  <2>1. \A s \in SUBSET T : g[s] = rule(s)
    BY <1>2 DEF Adds, rule
  <2>2. g = [s \in SUBSET T |-> g[s]]
    BY <1>2, Zenon DEF Adds
  <2> QED BY <2>1, <2>2
<1> QED BY <1>0, <1>1, <1>2

\* There is only one such function.
LEMMA SumIsOne ==
  ASSUME NEW T, IsFiniteSet(T), NEW f, NEW g, NEW h, Adds(f, T, g), Adds(f, T, h)
  PROVE  g = h
<1> DEFINE C == {s \in SUBSET T : g[s] # h[s]}
<1>0. C \subseteq SUBSET T
  OBVIOUS
<1>1. ASSUME C # {}
      PROVE  FALSE
  <2>1. PICK s \in C : \A u \in C : u \subseteq s => u = s
    <3> HIDE DEF C
    <3> QED BY <1>0, <1>1, SmallestSet
  <2>2. s \in SUBSET T /\ g[s] # h[s]
    OBVIOUS
  <2>3. s # {}
    BY <2>2 DEF Adds
  <2>4. Pick(s) \in s /\ s \ {Pick(s)} \in SUBSET T
    BY <2>2, <2>3 DEF Adds
  <2>5. s \ {Pick(s)} \notin C
    <3> HIDE DEF C
    <3> QED BY <2>1, <2>4
  <2>6. g[s \ {Pick(s)}] = h[s \ {Pick(s)}]
    BY <2>4, <2>5
  <2>7. g[s] = f[Pick(s)] + g[s \ {Pick(s)}] /\ h[s] = f[Pick(s)] + h[s \ {Pick(s)}]
    BY <2>2, <2>3 DEF Adds
  <2> QED BY <2>2, <2>6, <2>7
<1>2. \A s \in SUBSET T : g[s] = h[s]
  BY <1>1
<1>3. g = [s \in SUBSET T |-> g[s]] /\ h = [s \in SUBSET T |-> h[s]]
  BY Zenon DEF Adds
<1> QED BY <1>2, <1>3

\* It adds up the subsets of a smaller set too.
LEMMA RestrictedSum ==
  ASSUME NEW T, NEW U, U \subseteq T, NEW f, NEW g, Adds(f, T, g),
         NEW h, h = [s \in SUBSET U |-> g[s]]
  PROVE  Adds(f, U, h)
<1>1. \A s \in SUBSET U : h[s] = g[s] /\ s \in SUBSET T
  OBVIOUS
<1>2. h = [s \in SUBSET U |-> h[s]]
  OBVIOUS
<1>3. h[{}] = 0
  BY <1>1 DEF Adds
<1>4. ASSUME NEW s \in SUBSET U, s # {}
      PROVE  /\ Pick(s) \in s /\ s \ {Pick(s)} \in SUBSET U
             /\ h[s] = f[Pick(s)] + h[s \ {Pick(s)}]
  <2>1. Pick(s) \in s /\ s \ {Pick(s)} \in SUBSET U
    BY <1>4, PickIsIn
  <2>2. g[s] = f[Pick(s)] + g[s \ {Pick(s)}]
    BY <1>1, <1>4 DEF Adds
  <2> QED BY <1>1, <2>1, <2>2
<1> QED BY <1>2, <1>3, <1>4 DEF Adds

\* There is one.
LEMMA SumExists ==
  ASSUME NEW T, IsFiniteSet(T), NEW f
  PROVE  \E g : Adds(f, T, g)
<1> DEFINE C == {U \in SUBSET T : ~ \E g : Adds(f, U, g)}
           G(U) == CHOOSE g : Adds(f, U, g)
<1> SUFFICES ASSUME C # {} PROVE FALSE
  OBVIOUS
<1>1. PICK U \in C : \A V \in C : V \subseteq U => V = U
  <2>1. C \subseteq SUBSET T
    OBVIOUS
  <2> HIDE DEF C
  <2> QED BY <2>1, SmallestSet
<1>2. U \in SUBSET T /\ ~ \E g : Adds(f, U, g)
  OBVIOUS
<1>3. \A V \in SUBSET U : V # U => Adds(f, V, G(V)) /\ IsFiniteSet(V)
  <2> SUFFICES ASSUME NEW V \in SUBSET U, V # U PROVE Adds(f, V, G(V)) /\ IsFiniteSet(V)
    OBVIOUS
  <2>1. V \in SUBSET T /\ V \notin C
    <3>1. V \notin C
      <4> HIDE DEF C
      <4> QED BY <1>1
    <3> QED BY <1>2, <3>1
  <2>2. \E g : Adds(f, V, g)
    BY <2>1
  <2>3. IsFiniteSet(V)
    BY <2>1, FS_Subset
  <2>4. Adds(f, V, CHOOSE g : Adds(f, V, g))
    BY <2>2, Zenon
  <2> QED BY <2>3, <2>4
<1> HIDE DEF C, G
<1>4. PICK h : h = [s \in SUBSET U |-> IF s = U /\ U # {}
                                       THEN f[Pick(U)] + G(U \ {Pick(U)})[U \ {Pick(U)}]
                                       ELSE G(s)[s]]
  OBVIOUS
<1>5. h = [s \in SUBSET U |-> h[s]]
  BY <1>4
<1>6. U # {}
  <2> SUFFICES ASSUME U = {} PROVE FALSE
    OBVIOUS
  <2>1. PICK z : z = [s \in SUBSET U |-> 0]
    OBVIOUS
  <2>2. z = [s \in SUBSET U |-> z[s]] /\ z[{}] = 0
    BY <2>1
  <2>3. Adds(f, U, z)
    BY <2>2 DEF Adds
  <2> QED BY <1>2, <2>3
<1>7. h[{}] = 0
  <2>1. h[{}] = G({})[{}]
    BY <1>4, <1>6
  <2>2. G({})[{}] = 0
    BY <1>3, <1>6 DEF Adds
  <2> QED BY <2>1, <2>2
<1>8. ASSUME NEW s \in SUBSET U, s # {}
      PROVE  /\ Pick(s) \in s /\ s \ {Pick(s)} \in SUBSET U
             /\ h[s] = f[Pick(s)] + h[s \ {Pick(s)}]
  <2>1. PICK v : v = s \ {Pick(s)}
    OBVIOUS
  <2>2. Pick(s) \in s /\ v \in SUBSET U /\ v # U /\ v \in SUBSET s
    BY <1>8, <2>1, PickIsIn
  <2>3. h[v] = G(v)[v]
    BY <1>4, <2>2
  <2>4. h[s] = f[Pick(s)] + G(v)[v]
    <3>1. CASE s = U
      BY <1>4, <1>6, <2>1, <3>1
    <3>2. CASE s # U
      <4>1. h[s] = G(s)[s]
        BY <1>4, <3>2
      <4>2. Adds(f, s, G(s)) /\ Adds(f, v, G(v)) /\ IsFiniteSet(v)
        BY <1>3, <2>2, <3>2
      <4>3. G(s)[s] = f[Pick(s)] + G(s)[v]
        BY <1>8, <2>1, <4>2 DEF Adds
      <4>4. PICK r : r = [w \in SUBSET v |-> G(s)[w]]
        OBVIOUS
      <4>5. Adds(f, v, r)
        BY <2>2, <4>2, <4>4, RestrictedSum
      <4>6. r = G(v)
        BY <4>2, <4>5, SumIsOne
      <4>7. r[v] = G(s)[v]
        BY <4>4
      <4> QED BY <4>1, <4>3, <4>6, <4>7
    <3> QED BY <3>1, <3>2
  <2> QED BY <2>1, <2>2, <2>3, <2>4
<1>9. Adds(f, U, h)
  BY <1>5, <1>7, <1>8 DEF Adds
<1> QED BY <1>2, <1>9

\* SumFunctionOnSet is what this function says of the whole set.
LEMMA SumIsSum ==
  ASSUME NEW T, IsFiniteSet(T), NEW f
  PROVE  \E g : Adds(f, T, g) /\ SumFunctionOnSet(f, T) = g[T]
<1>1. SumFunctionOnSet(f, T) = (CHOOSE g : IsSum(f, T, g))[T]
  BY Zenon DEF SumFunctionOnSet, FoldFunctionOnSet, MapThenFoldSet, Pick, IsSum
<1>2. \E g : IsSum(f, T, g)
  BY SumExists, SumRule, Zenon
<1>3. IsSum(f, T, CHOOSE g : IsSum(f, T, g))
  BY <1>2, Zenon
<1>4. Adds(f, T, CHOOSE g : IsSum(f, T, g))
  BY <1>3, SumRule, Zenon
<1> QED BY <1>1, <1>4, Zenon

\* The sum over no terms is 0,
LEMMA SumOfNone == \A f : SumFunctionOnSet(f, {}) = 0
<1> TAKE f
<1>1. PICK g : Adds(f, {}, g) /\ SumFunctionOnSet(f, {}) = g[{}]
  BY SumIsSum, FS_EmptySet
<1> QED BY <1>1 DEF Adds

\* and a term comes off any other.
LEMMA SumOfSome ==
  ASSUME NEW T, IsFiniteSet(T), T # {}, NEW f
  PROVE  /\ Pick(T) \in T
         /\ SumFunctionOnSet(f, T) = f[Pick(T)] + SumFunctionOnSet(f, T \ {Pick(T)})
<1>1. PICK v : v = T \ {Pick(T)}
  OBVIOUS
<1>2. PICK g : Adds(f, T, g) /\ SumFunctionOnSet(f, T) = g[T]
  BY SumIsSum
<1>3. Pick(T) \in T /\ v \in SUBSET T /\ IsFiniteSet(v)
  BY <1>1, PickIsIn, FS_Subset
<1>4. PICK h : Adds(f, v, h) /\ SumFunctionOnSet(f, v) = h[v]
  BY <1>3, SumIsSum
<1>5. PICK r : r = [w \in SUBSET v |-> g[w]]
  OBVIOUS
<1>6. Adds(f, v, r)
  <2>1. v \subseteq T /\ Adds(f, T, g)
    BY <1>2, <1>3
  <2> QED BY <1>5, <2>1, RestrictedSum, Zenon
<1>7. r = h
  BY <1>3, <1>4, <1>6, SumIsOne
<1>8. r[v] = g[v]
  BY <1>5
<1>9. g[T] = f[Pick(T)] + g[v]
  BY <1>1, <1>2 DEF Adds
<1> QED BY <1>1, <1>2, <1>3, <1>4, <1>7, <1>8, <1>9

\* A sum of integers is an integer.
LEMMA SumsAreInt ==
  ASSUME NEW T, IsFiniteSet(T), NEW f, \A x \in T : f[x] \in Int
  PROVE  SumFunctionOnSet(f, T) \in Int
<1> DEFINE C == {U \in SUBSET T : SumFunctionOnSet(f, U) \notin Int}
<1> SUFFICES ASSUME C # {} PROVE FALSE
  OBVIOUS
<1>1. PICK U \in C : \A V \in C : V \subseteq U => V = U
  <2>1. C \subseteq SUBSET T
    OBVIOUS
  <2> HIDE DEF C
  <2> QED BY <2>1, SmallestSet
<1>2. U \in SUBSET T /\ SumFunctionOnSet(f, U) \notin Int
  OBVIOUS
<1>3. IsFiniteSet(U) /\ U # {}
  <2>1. IsFiniteSet(U)
    BY <1>2, FS_Subset
  <2>2. U # {}
    <3>1. SumFunctionOnSet(f, {}) = 0
      BY SumOfNone
    <3> QED BY <1>2, <3>1
  <2> QED BY <2>1, <2>2
<1>4. /\ Pick(U) \in U
      /\ SumFunctionOnSet(f, U) = f[Pick(U)] + SumFunctionOnSet(f, U \ {Pick(U)})
  BY <1>3, SumOfSome
<1>5. U \ {Pick(U)} \notin C
  <2> HIDE DEF C
  <2> QED BY <1>1, <1>4
<1>6. SumFunctionOnSet(f, U \ {Pick(U)}) \in Int
  BY <1>2, <1>5
<1> QED BY <1>2, <1>4, <1>6

\* Any term may come off first.
LEMMA SumWithout ==
  ASSUME NEW T, IsFiniteSet(T), NEW f, \A x \in T : f[x] \in Int
  PROVE  \A x \in T : SumFunctionOnSet(f, T) = f[x] + SumFunctionOnSet(f, T \ {x})
<1> DEFINE Sum(U) == SumFunctionOnSet(f, U)
           C == {U \in SUBSET T : \E x \in U : Sum(U) # f[x] + Sum(U \ {x})}
<1> SUFFICES ASSUME C # {} PROVE FALSE
  <2>1. T \notin C => \A x \in T : Sum(T) = f[x] + Sum(T \ {x})
    <3> HIDE DEF Sum
    <3> QED OBVIOUS
  <2> QED BY <2>1
<1>0. \A U \in SUBSET T : IsFiniteSet(U) /\ Sum(U) \in Int
  BY FS_Subset, SumsAreInt
<1>0a. \A U \in SUBSET T : U # {} => Pick(U) \in U /\ Sum(U) = f[Pick(U)] + Sum(U \ {Pick(U)})
  BY <1>0, SumOfSome
<1> HIDE DEF Sum
<1>1. PICK U \in C : \A V \in C : V \subseteq U => V = U
  <2>1. C \subseteq SUBSET T
    OBVIOUS
  <2> HIDE DEF C
  <2> QED BY <2>1, SmallestSet
<1>2. PICK x \in U : Sum(U) # f[x] + Sum(U \ {x})
  OBVIOUS
<1>3. PICK p : p = Pick(U)
  OBVIOUS
<1>4. U \in SUBSET T /\ p \in U /\ Sum(U) = f[p] + Sum(U \ {p})
  BY <1>0a, <1>2, <1>3
<1>5. x # p
  BY <1>2, <1>4
<1>6. U \ {p} \notin C /\ U \ {x} \notin C
  <2> HIDE DEF C
  <2> QED BY <1>1, <1>2, <1>4
<1>7. U \ {p} \in SUBSET T /\ U \ {x} \in SUBSET T /\ x \in U \ {p} /\ p \in U \ {x}
  BY <1>2, <1>4, <1>5
<1>8. /\ Sum(U \ {p}) = f[x] + Sum((U \ {p}) \ {x})
      /\ Sum(U \ {x}) = f[p] + Sum((U \ {x}) \ {p})
  BY <1>6, <1>7
<1>9. (U \ {p}) \ {x} = (U \ {x}) \ {p} /\ (U \ {p}) \ {x} \in SUBSET T
  BY <1>4
<1>10. f[p] \in Int /\ f[x] \in Int /\ Sum((U \ {p}) \ {x}) \in Int
  BY <1>0, <1>2, <1>4, <1>9
<1>11. PICK a \in Int, b \in Int, c \in Int :
         a = f[p] /\ b = f[x] /\ c = Sum((U \ {p}) \ {x})
  BY <1>10
<1>12. Sum((U \ {x}) \ {p}) = c
  BY <1>9, <1>11
<1>13. Sum(U) = a + (b + c) /\ Sum(U \ {x}) = a + c
  BY <1>4, <1>8, <1>11, <1>12
<1> QED BY <1>2, <1>11, <1>13

\* Equal terms, equal sums.
LEMMA SumsAgree ==
  ASSUME NEW T, IsFiniteSet(T), NEW f, NEW g, \A x \in T : f[x] = g[x]
  PROVE  SumFunctionOnSet(f, T) = SumFunctionOnSet(g, T)
<1> DEFINE C == {U \in SUBSET T : SumFunctionOnSet(f, U) # SumFunctionOnSet(g, U)}
<1> SUFFICES ASSUME C # {} PROVE FALSE
  OBVIOUS
<1>1. PICK U \in C : \A V \in C : V \subseteq U => V = U
  <2>1. C \subseteq SUBSET T
    OBVIOUS
  <2> HIDE DEF C
  <2> QED BY <2>1, SmallestSet
<1>2. U \in SUBSET T /\ SumFunctionOnSet(f, U) # SumFunctionOnSet(g, U)
  OBVIOUS
<1>3. IsFiniteSet(U) /\ U # {}
  <2>1. IsFiniteSet(U)
    BY <1>2, FS_Subset
  <2>2. U # {}
    <3>1. SumFunctionOnSet(f, {}) = 0 /\ SumFunctionOnSet(g, {}) = 0
      BY SumOfNone
    <3> QED BY <1>2, <3>1
  <2> QED BY <2>1, <2>2
<1>4. /\ Pick(U) \in U
      /\ SumFunctionOnSet(f, U) = f[Pick(U)] + SumFunctionOnSet(f, U \ {Pick(U)})
      /\ SumFunctionOnSet(g, U) = g[Pick(U)] + SumFunctionOnSet(g, U \ {Pick(U)})
  BY <1>3, SumOfSome
<1>5. U \ {Pick(U)} \notin C
  <2> HIDE DEF C
  <2> QED BY <1>1, <1>4
<1>6. SumFunctionOnSet(f, U \ {Pick(U)}) = SumFunctionOnSet(g, U \ {Pick(U)})
  BY <1>2, <1>5
<1> QED BY <1>2, <1>4, <1>6

\* The form the steps need: one value of the function changes.
LEMMA SumChanges ==
  ASSUME NEW T, IsFiniteSet(T)
  PROVE  \A f \in [T -> Int] : \A x \in T : \A v \in Int :
           /\ SumFunction(f) \in Int
           /\ SumFunction([f EXCEPT ![x] = v]) = SumFunction(f) - f[x] + v
<1> SUFFICES ASSUME NEW f \in [T -> Int], NEW x \in T, NEW v \in Int,
                    NEW g, g = [f EXCEPT ![x] = v]
             PROVE  /\ SumFunction(f) \in Int
                    /\ SumFunction(g) = SumFunction(f) - f[x] + v
  BY Zenon
<1>1. /\ DOMAIN f = T /\ DOMAIN g = T /\ g[x] = v
      /\ \A y \in T : f[y] \in Int /\ g[y] \in Int
      /\ \A y \in T \ {x} : f[y] = g[y]
  OBVIOUS
<1>2. /\ SumFunctionOnSet(f, T) = f[x] + SumFunctionOnSet(f, T \ {x})
      /\ SumFunctionOnSet(g, T) = g[x] + SumFunctionOnSet(g, T \ {x})
  BY <1>1, SumWithout
<1>3. IsFiniteSet(T \ {x})
  BY FS_Subset
<1>4. SumFunctionOnSet(f, T \ {x}) = SumFunctionOnSet(g, T \ {x})
  BY <1>1, <1>3, SumsAgree
<1>5. SumFunctionOnSet(f, T \ {x}) \in Int
  BY <1>1, <1>3, SumsAreInt
<1> QED BY <1>1, <1>2, <1>4, <1>5 DEF SumFunction

\* A function that is 0 everywhere adds up to 0.
LEMMA SumOfZeros ==
  ASSUME NEW T, IsFiniteSet(T), NEW f, f \in [T -> Int], \A x \in T : f[x] = 0
  PROVE  SumFunction(f) = 0
<1> DEFINE C == {U \in SUBSET T : SumFunctionOnSet(f, U) # 0}
<1>0. SumFunction(f) = SumFunctionOnSet(f, T)
  BY DEF SumFunction
<1> SUFFICES ASSUME C # {} PROVE FALSE
  BY <1>0
<1>1. PICK U \in C : \A V \in C : V \subseteq U => V = U
  <2>1. C \subseteq SUBSET T
    OBVIOUS
  <2> HIDE DEF C
  <2> QED BY <2>1, SmallestSet
<1>2. U \in SUBSET T /\ SumFunctionOnSet(f, U) # 0
  OBVIOUS
<1>3. IsFiniteSet(U) /\ U # {}
  <2>1. IsFiniteSet(U)
    BY <1>2, FS_Subset
  <2>2. U # {}
    <3>1. SumFunctionOnSet(f, {}) = 0
      BY SumOfNone
    <3> QED BY <1>2, <3>1
  <2> QED BY <2>1, <2>2
<1>4. /\ Pick(U) \in U
      /\ SumFunctionOnSet(f, U) = f[Pick(U)] + SumFunctionOnSet(f, U \ {Pick(U)})
  BY <1>3, SumOfSome
<1>5. U \ {Pick(U)} \notin C
  <2> HIDE DEF C
  <2> QED BY <1>1, <1>4
<1>6. SumFunctionOnSet(f, U \ {Pick(U)}) = 0
  BY <1>2, <1>5
<1> QED BY <1>2, <1>4, <1>6

-----------------------------------------------------------------------------
(* Control: threads, monitor and main.                                      *)

\* The locals of the threads and of main have their types.
Locals ==
  /\ main \in Running \cup Over
  /\ stage \in [Threads -> Stages]
  /\ loopcount \in [Threads -> 0 .. MaxLoops]
  /\ visits \in [Threads -> Nat]
  /\ numwaits \in [Threads -> Nat]
  /\ print \in Threads \cup {Unlocked}
  /\ \A t \in Threads : numwaits[t] <= visits[t]

\* How far the loop of a thread is.
Rounds == \A t \in Threads :
  /\ stage[t] \in {Unborn, Failed, Skipped} => loopcount[t] = 0 /\ visits[t] = 0
  /\ stage[t] \in {Visiting, Tallying} => visits[t] < loopcount[t]
  /\ stage[t] \in {Report, Printing, Ended} => visits[t] = loopcount[t]

\* A thread is in the monitor during a visit only, and before it is let in *wait
\* still says 1.
Places == \A t \in Threads :
  /\ stage[t] # Visiting => pc[t] = Outside
  /\ pc[t] \in {Deciding, Blocked, Woken, Resuming} => wait[t]

\* print is held by the thread that prints.
PrintHeld == \A t \in Threads : stage[t] = Printing <=> print = t

\* Finalize was reached when every thread was joined.
Joined == main \in {"done", "aborted"} => \A t \in Threads : stage[t] \in {Ended, Skipped}

\* The control part of the inductive invariant.
Control == Locals /\ Rounds /\ Places /\ PrintHeld /\ Joined

\* Every step of the simulation is a step of the monitor or none of its business.
LEMMA StepOfMonitor ==
  ASSUME [SimNext]_vars
  PROVE  [Next]_monitorVars
<1>1. CASE \E t \in Threads : LockEnter(t) \/ EnterStep(t) \/ LockLeave(t) \/ LeaveStep(t) \/ Spurious(t)
  BY <1>1 DEF Next, Step
<1>2. CASE UNCHANGED monitorVars
  BY <1>2
<1> QED
  BY <1>1, <1>2 DEF SimNext, MainStep, ThreadStep, SpuriousWakeup, Stopped, vars, Create, CreateFails,
     StartJoining, JoinGarbage, Finalize, PrintAndFree, Visit, FinishVisit, Tally, LockPrint, Terminate

\* Threads use the monitor as it is meant to be used, one Enter, one Leave, round
\* after round, and main leaves it alone: every behaviour of the simulation is one
\* of module Bathroom, so all that is proved there holds here.
\* (bathroomsim.c, Individual)
THEOREM SimulationUsesMonitor == SimSpec => Spec
<1>1. SimInit => Init
  BY DEF SimInit
<1>2. [SimNext]_vars => [Next]_monitorVars
  BY StepOfMonitor
<1> QED BY <1>1, <1>2, PTL DEF SimSpec, Spec

\* At the start no thread exists.
LEMMA StartsInControl == SimInit => Control
<1> SUFFICES ASSUME SimInit PROVE Control
  OBVIOUS
<1>1. MaxLoops \in Nat /\ 0 \in 0 .. MaxLoops
  BY LoopsAssumption
<1>2. Unlocked \notin Threads
  BY ThreadsAssumption
<1> QED
  BY <1>1, <1>2 DEF SimInit, Init, Control, Locals, Rounds, Places, PrintHeld, Joined

\* main.
LEMMA MainInControl ==
  ASSUME Control, TypeOK, MainStep
  PROVE  Control'
<1> USE DEF Control, Locals, Rounds, Places, PrintHeld, Joined
<1>0. MaxLoops \in Nat /\ Unlocked \notin Threads
  BY LoopsAssumption, ThreadsAssumption
<1>m. ASSUME UNCHANGED monitorVars
      PROVE  pc' = pc /\ wait' = wait
  BY <1>m DEF monitorVars
<1>1. ASSUME NEW t \in Threads, Create(t)
      PROVE  Control'
  <2>1. PICK n \in 1 .. MaxLoops : loopcount' = [loopcount EXCEPT ![t] = n]
    BY <1>1 DEF Create
  <2>2. n \in 0 .. MaxLoops /\ n > 0
    BY <1>0
  <2>3. /\ stage[t] = Unborn /\ stage' = [stage EXCEPT ![t] = Visiting]
        /\ main' = main /\ main = "creating" /\ visits' = visits /\ numwaits' = numwaits /\ print' = print
        /\ pc' = pc /\ wait' = wait
    BY <1>1, <1>m DEF Create
  <2> QED BY <2>1, <2>2, <2>3
<1>2. ASSUME NEW t \in Threads, CreateFails(t)
      PROVE  Control'
  BY <1>2, <1>m DEF CreateFails
<1>3. ASSUME NEW t \in Threads, JoinGarbage(t)
      PROVE  Control'
  BY <1>3, <1>m DEF JoinGarbage
<1>4. CASE StartJoining
  BY <1>4, <1>m DEF StartJoining
<1>5. CASE Finalize
  BY <1>5, <1>m DEF Finalize, PrintAndFree, In
<1> QED BY <1>1, <1>2, <1>3, <1>4, <1>5 DEF MainStep

\* Inside the monitor.
LEMMA VisitsInControl ==
  ASSUME Control, TypeOK, NEW t \in Threads, main \in Running,
         Visit(t) \/ (Spurious(t) /\ UNCHANGED simVars)
  PROVE  Control'
<1> USE DEF TypeOK
<1>1. simVars' = simVars
  BY DEF Visit
<1>2. stage[t] = Visiting
  BY DEF Visit, Spurious, Control, Places
<1>3. /\ pc' \in [Threads -> Points] /\ wait' \in [Threads -> BOOLEAN]
      /\ \A u \in Threads \ {t} : pc'[u] = pc[u] /\ wait'[u] = wait[u]
      /\ pc'[t] \in {Deciding, Blocked, Woken, Resuming} => wait'[t]
  BY DEF Visit, LockEnter, EnterStep, EnterVacant, EnterSame, Queue, Relock, Resume, LockLeave,
     Spurious, Acquire, Release, Control, Places
<1>4. /\ main' = main /\ stage' = stage /\ loopcount' = loopcount /\ visits' = visits
      /\ numwaits' = numwaits /\ print' = print
  BY <1>1 DEF simVars
<1> QED BY <1>2, <1>3, <1>4 DEF Control, Locals, Rounds, Places, PrintHeld, Joined

\* The last step in the monitor, and the rest of Individual.
LEMMA ThreadInControl ==
  ASSUME Control, TypeOK, NEW t \in Threads, main \in Running,
         FinishVisit(t) \/ Tally(t) \/ LockPrint(t) \/ Terminate(t)
  PROVE  Control'
<1> USE DEF Control, Locals, Rounds, Places, PrintHeld, Joined
<1>0. MaxLoops \in Nat /\ Unlocked \notin Threads
  BY LoopsAssumption, ThreadsAssumption
<1>m. ASSUME UNCHANGED monitorVars
      PROVE  pc' = pc /\ wait' = wait
  BY <1>m DEF monitorVars
<1>1. CASE FinishVisit(t)
  <2>1. /\ pc' \in [Threads -> Points] /\ wait' = wait /\ pc'[t] = Outside
        /\ \A u \in Threads \ {t} : pc'[u] = pc[u] \/ (pc[u] = Blocked /\ pc'[u] = Woken)
    <3>1. CASE LeaveOccupied(t)
      BY <3>1 DEF LeaveOccupied, Release, TypeOK
    <3>2. CASE LeaveEmpty(t)
      BY <3>2 DEF LeaveEmpty, TypeOK
    <3> QED BY <1>1, <3>1, <3>2 DEF FinishVisit, LeaveStep
  <2> QED BY <1>1, <2>1 DEF FinishVisit
<1>2. CASE Tally(t)
  <2>1. /\ stage[t] = Tallying /\ visits[t] < loopcount[t] /\ loopcount[t] \in Nat
        /\ visits' = [visits EXCEPT ![t] = visits[t] + 1]
        /\ numwaits' = [numwaits EXCEPT ![t] = IF wait[t] THEN numwaits[t] + 1 ELSE numwaits[t]]
        /\ stage' = [stage EXCEPT ![t] = IF visits[t] + 1 < loopcount[t] THEN Visiting ELSE Report]
        /\ main' = main /\ loopcount' = loopcount /\ print' = print /\ pc' = pc /\ wait' = wait
    BY <1>0, <1>2, <1>m DEF Tally
  <2>2. visits[t] + 1 \in Nat /\ visits'[t] = visits[t] + 1 /\ numwaits'[t] <= visits'[t]
    BY <2>1
  <2> QED BY <2>1, <2>2
<1>3. CASE LockPrint(t)
  BY <1>0, <1>3, <1>m DEF LockPrint
<1>4. CASE Terminate(t)
  BY <1>0, <1>4, <1>m DEF Terminate
<1> QED BY <1>1, <1>2, <1>3, <1>4

\* Every step of the simulation keeps Control.
LEMMA ControlSteps ==
  ASSUME Control, TypeOK, [SimNext]_vars
  PROVE  Control'
<1>1. CASE UNCHANGED vars
  BY <1>1 DEF vars, simVars, monitorVars, Control, Locals, Rounds, Places, PrintHeld, Joined
<1> QED
  BY <1>1, MainInControl, VisitsInControl, ThreadInControl
     DEF SimNext, ThreadStep, SpuriousWakeup, Stopped

-----------------------------------------------------------------------------
(* Statistics.                                                              *)

\* The threads with a visit that is not in visits yet, and those of them that had
\* to wait.
Present == {t \in Threads : stage[t] = Tallying \/ t \in Inside}
Waited  == {t \in Threads : wait[t] /\ (stage[t] = Tallying \/ t \in Inside)}

\* How many increments a histogram shows.
Counted(array) == Frequency(array) + Nonempty(array)

\* StatisticsBalance, of these.
Balance ==
  /\ uses = SumFunction(visits) + Cardinality(Present)
  /\ ques = SumFunction(numwaits) + quers + Cardinality(Waited)
  /\ uses = Counted(barray) + missedB
  /\ ques = Counted(qarray) + missedQ

\* The totals of Finalize are those of the arrays.
Totals ==
  /\ bper \in Int /\ qper \in Int
  /\ main \in {"done", "aborted"} => bper = Frequency(barray) /\ qper = Frequency(qarray)

\* Balance is StatisticsBalance with its operators named.
LEMMA BalanceIsBalance == Balance /\ Totals => StatisticsBalance
<1>1. {t \in {u \in Threads : wait[u]} : stage[t] = Tallying \/ t \in Inside} = Waited
  BY DEF Waited
<1>2. Balance => /\ uses = Frequency(barray) + Nonempty(barray) + missedB
                 /\ ques = Frequency(qarray) + Nonempty(qarray) + missedQ
  BY Zenon DEF Balance, Counted
<1>3. Balance /\ Totals /\ main \in {"done", "aborted"}
        => /\ uses = bper + Nonempty(barray) + missedB
           /\ ques = qper + Nonempty(qarray) + missedQ
  BY <1>2, Zenon DEF Totals
<1> QED
  BY <1>1, <1>2, <1>3, Zenon DEF StatisticsBalance, Balance, Present

\* The histograms have finitely many cells.
LEMMA HistogramIsFinite == IsFiniteSet(0 .. NumUsers - 1)
<1>1. NumUsers - 1 \in Int /\ 0 \in Int
  BY FS_CardinalityType, ThreadsAssumption DEF NumUsers
<1>2. \A m, n \in Int : IsFiniteSet(m .. n)
  BY FS_Interval, Zenon
<1> QED BY <1>1, <1>2, Zenon

\* An increment is in the histogram or beside it: the first of a cell makes it
\* nonempty, the others add to the sum.
LEMMA HistogramCounts ==
  ASSUME NEW array, array \in [0 .. NumUsers - 1 -> Nat \cup {-1}], NEW i
  PROVE  /\ Frequency(array) \in Int /\ Nonempty(array) \in Nat
         /\ Counted(array) \in Int /\ Missed(array, i) \in Nat
         /\ Counted(Bump(array, i)) + Missed(array, i) = Counted(array) + 1
<1> DEFINE F(a) == [j \in DOMAIN a |-> IF a[j] = -1 THEN 0 ELSE a[j]]
           E(a) == {j \in DOMAIN a : a[j] # -1}
<1>1. PICK T : T = 0 .. NumUsers - 1
  OBVIOUS
<1>2. /\ array \in [T -> Nat \cup {-1}] /\ F(array) \in [T -> Int] /\ E(array) \subseteq T
      /\ IsFiniteSet(T)
  BY <1>1, HistogramIsFinite
<1>3. \A a : Frequency(a) = SumFunction(F(a)) /\ Nonempty(a) = Cardinality(E(a))
  BY Zenon DEF Frequency, Nonempty
<1>4. SumFunction(F(array)) \in Int
  <2>1. \A x \in T : F(array)[x] \in Int
    BY <1>2
  <2>2. DOMAIN F(array) = T
    BY <1>2
  <2> HIDE DEF F
  <2> QED BY <1>2, <2>1, <2>2, SumsAreInt DEF SumFunction
<1>5. IsFiniteSet(E(array)) /\ Cardinality(E(array)) \in Nat
  BY <1>2, FS_Subset, FS_CardinalityType
<1>d. Frequency(array) \in Int /\ Nonempty(array) \in Nat /\ Counted(array) \in Int
  <2> HIDE DEF E, F
  <2>1. Frequency(array) \in Int /\ Nonempty(array) \in Nat
    BY <1>3, <1>4, <1>5, Zenon
  <2> QED BY <2>1 DEF Counted
<1>m. /\ DOMAIN array = T
      /\ \A v : DOMAIN [array EXCEPT ![i] = v] = T
      /\ \A v, x : x \in T => [array EXCEPT ![i] = v][x] = IF x = i THEN v ELSE array[x]
      /\ i \in T => array[i] = -1 \/ array[i] \in Nat
  BY <1>2
<1>6. CASE i \in T /\ array[i] = -1
  <2>1. Missed(array, i) = 0 /\ Bump(array, i) = [array EXCEPT ![i] = 0]
    BY <1>m, <1>6 DEF Missed, Bump
  <2>2. E(Bump(array, i)) = E(array) \cup {i} /\ i \notin E(array)
    <3>1. \A x \in T : ([array EXCEPT ![i] = 0][x] # -1) <=> (x = i \/ array[x] # -1)
      BY <1>m, <1>6
    <3>2. E(Bump(array, i)) = {x \in T : x = i \/ array[x] # -1}
      BY <1>m, <2>1, <3>1, Zenon
    <3> QED BY <1>m, <1>6, <3>2
  <2>3. F(Bump(array, i)) = F(array)
    <3>1. \A x \in T : (IF [array EXCEPT ![i] = 0][x] = -1 THEN 0 ELSE [array EXCEPT ![i] = 0][x])
                         = IF array[x] = -1 THEN 0 ELSE array[x]
      BY <1>m, <1>6
    <3> QED BY <1>m, <2>1, <3>1
  <2>4. Cardinality(E(array) \cup {i}) = Cardinality(E(array)) + 1
    BY <1>5, <2>2, FS_AddElement
  <2> HIDE DEF E, F
  <2>5. Counted(Bump(array, i)) = SumFunction(F(array)) + (Cardinality(E(array)) + 1)
    BY <1>3, <2>2, <2>3, <2>4, Zenon DEF Counted
  <2>6. Counted(array) = SumFunction(F(array)) + Cardinality(E(array))
    BY <1>3, Zenon DEF Counted
  <2> QED BY <1>d, <1>4, <1>5, <2>1, <2>5, <2>6
<1>7. CASE i \in T /\ array[i] # -1
  <2>1. Missed(array, i) = 0 /\ Bump(array, i) = [array EXCEPT ![i] = array[i] + 1]
    BY <1>m, <1>7 DEF Missed, Bump
  <2>2. array[i] \in Nat /\ array[i] + 1 \in Int /\ array[i] + 1 # -1
    <3>1. array[i] \in Nat
      BY <1>m, <1>7
    <3> QED BY <3>1
  <2>3. E(Bump(array, i)) = E(array)
    <3>1. \A x \in T : ([array EXCEPT ![i] = array[i] + 1][x] # -1) <=> (array[x] # -1)
      BY <1>m, <1>7, <2>2
    <3> QED BY <1>m, <2>1, <3>1
  <2>4. PICK f : f = F(array)
    OBVIOUS
  <2>5. f \in [T -> Int] /\ f[i] = array[i]
    BY <1>2, <1>m, <1>7, <2>4
  <2>6. F(Bump(array, i)) = [f EXCEPT ![i] = array[i] + 1]
    <3>1. \A x \in T : (IF [array EXCEPT ![i] = array[i] + 1][x] = -1
                         THEN 0 ELSE [array EXCEPT ![i] = array[i] + 1][x])
                         = IF x = i THEN array[i] + 1 ELSE IF array[x] = -1 THEN 0 ELSE array[x]
      BY <1>m, <1>7, <2>2
    <3>2. F(Bump(array, i)) = [x \in T |-> IF x = i THEN array[i] + 1
                                           ELSE IF array[x] = -1 THEN 0 ELSE array[x]]
      BY <1>m, <2>1, <3>1
    <3> QED BY <1>m, <2>4, <3>2
  <2>7. SumFunction([f EXCEPT ![i] = array[i] + 1]) = SumFunction(f) - f[i] + (array[i] + 1)
    <3>1. IsFiniteSet(T) /\ i \in T
      BY <1>2, <1>7
    <3>2. f \in [T -> Int] /\ array[i] + 1 \in Int
      BY <2>2, <2>5, Zenon
    <3> QED BY <3>1, <3>2, SumChanges, Zenon
  <2> HIDE DEF E, F
  <2>8. SumFunction(F(Bump(array, i))) = SumFunction(F(array)) + 1
    <3>1. SumFunction(F(Bump(array, i))) = SumFunction(F(array)) - array[i] + (array[i] + 1)
      BY <2>4, <2>5, <2>6, <2>7, Zenon
    <3> QED BY <1>4, <2>2, <3>1
  <2>9. Counted(Bump(array, i)) = SumFunction(F(array)) + 1 + Cardinality(E(array))
    BY <1>3, <2>3, <2>8, Zenon DEF Counted
  <2>10. Counted(array) = SumFunction(F(array)) + Cardinality(E(array))
    BY <1>3, Zenon DEF Counted
  <2> QED BY <1>d, <1>4, <1>5, <2>1, <2>9, <2>10
<1>8. CASE i \notin T
  <2>1. Missed(array, i) = 1 /\ Bump(array, i) = array
    BY <1>m, <1>8 DEF Missed, Bump
  <2> HIDE DEF E, F
  <2> QED BY <1>d, <2>1
<1> HIDE DEF E, F
<1> QED BY <1>6, <1>7, <1>8

\* What the steps need of the numbers.
LEMMA BalanceTypes ==
  ASSUME Control, TypeOK
  PROVE  /\ SumFunction(visits) \in Int /\ SumFunction(numwaits) \in Int
         /\ Cardinality(Present) \in Nat /\ Cardinality(Waited) \in Nat
         /\ Counted(barray) \in Int /\ Counted(qarray) \in Int
         /\ uses \in Nat /\ ques \in Nat /\ quers \in Nat /\ missedB \in Nat /\ missedQ \in Nat
<1>1. \A t \in Threads : visits[t] \in Int /\ numwaits[t] \in Int
  BY DEF Control, Locals
<1>2. DOMAIN visits = Threads /\ DOMAIN numwaits = Threads
  BY DEF Control, Locals
<1>3. SumFunction(visits) \in Int /\ SumFunction(numwaits) \in Int
  BY <1>1, <1>2, ThreadsAssumption, SumsAreInt DEF SumFunction
<1>4. Present \in SUBSET Threads /\ Waited \in SUBSET Threads
  BY DEF Present, Waited
<1> QED BY <1>3, <1>4, SetsOfThreads, HistogramCounts DEF TypeOK

\* A step that changes nothing but where a thread is.
LEMMA SameBalance ==
  ASSUME Balance, UNCHANGED <<uses, ques, quers, barray, qarray, missedB, missedQ, visits, numwaits>>,
         Present' = Present, Waited' = Waited
  PROVE  Balance'
<1>1. Counted(barray)' = Counted(barray) /\ Counted(qarray)' = Counted(qarray)
  BY Zenon DEF Counted, Frequency, Nonempty
<1>2. SumFunction(visits') = SumFunction(visits) /\ SumFunction(numwaits') = SumFunction(numwaits)
  OBVIOUS
<1> QED BY <1>1, <1>2 DEF Balance

\* A thread that comes or goes changes the numbers by one.
LEMMA OneMorePresent ==
  ASSUME NEW t \in Threads
  PROVE  /\ t \notin Present => Cardinality(Present \cup {t}) = Cardinality(Present) + 1
         /\ t \in Present => Cardinality(Present \ {t}) = Cardinality(Present) - 1
         /\ t \notin Waited => Cardinality(Waited \cup {t}) = Cardinality(Waited) + 1
         /\ t \in Waited => Cardinality(Waited \ {t}) = Cardinality(Waited) - 1
<1>1. Present \in SUBSET Threads /\ Waited \in SUBSET Threads
  BY DEF Present, Waited
<1> QED BY <1>1, OneMoreOneLess

\* Somebody walks in: one more use, one more inside, one more in barray or beside it.
LEMMA EntryBalance ==
  ASSUME Control, TypeOK, TypeOK', Balance, NEW t \in Threads, UNCHANGED simVars, stage[t] = Visiting,
         EnterVacant(t) \/ EnterSame(t) \/ Resume(t)
  PROVE  Balance'
<1>0. NumUsers' = NumUsers /\ barray \in [0 .. NumUsers - 1 -> Nat \cup {-1}]
  BY DEF TypeOK
<1>1. /\ pc' = [pc EXCEPT ![t] = Using] /\ pc[t] \in {Deciding, Resuming}
      /\ stage' = stage /\ visits' = visits /\ numwaits' = numwaits
      /\ qarray' = qarray /\ missedQ' = missedQ /\ ques' = ques
      /\ uses' = uses + 1
      /\ \E i : barray' = Bump(barray, i) /\ missedB' = missedB + Missed(barray, i)
  BY DEF EnterVacant, EnterSame, Resume, Release, CountEntry, simVars
<1>2. t \notin Present /\ t \notin Waited /\ Present' = Present \cup {t}
  BY <1>1 DEF Present, Waited, Inside, At, TypeOK
<1>3. Counted(barray)' + missedB' = Counted(barray) + missedB + 1
  <2>1. PICK i : barray' = Bump(barray, i) /\ missedB' = missedB + Missed(barray, i)
    BY <1>1
  <2>2. Counted(barray)' = Counted(Bump(barray, i))
    BY <2>1, Zenon DEF Counted, Frequency, Nonempty
  <2>3. /\ Counted(barray) \in Int /\ Missed(barray, i) \in Nat
        /\ Counted(Bump(barray, i)) + Missed(barray, i) = Counted(barray) + 1
    BY <1>0, HistogramCounts
  <2>4. Counted(Bump(barray, i)) \in Int
    <3>1. barray' \in [0 .. NumUsers - 1 -> Nat \cup {-1}]
      BY <1>0 DEF TypeOK
    <3> QED BY <2>1, <3>1, HistogramCounts
  <2>5. missedB \in Nat
    BY DEF TypeOK
  <2> QED BY <2>1, <2>2, <2>3, <2>4, <2>5
<1>4. Counted(qarray)' = Counted(qarray)
  BY <1>1, Zenon DEF Counted, Frequency, Nonempty
<1>5. Cardinality(Present') = Cardinality(Present) + 1
  BY <1>2, OneMorePresent
<1>6. SumFunction(visits)' = SumFunction(visits) /\ SumFunction(numwaits)' = SumFunction(numwaits)
  BY <1>1
<1>7. quers' + Cardinality(Waited') = quers + Cardinality(Waited)
  <2>1. CASE Resume(t)
    <3>1. quers' = quers - 1 /\ wait' = wait /\ wait[t]
      BY <2>1 DEF Resume, Release, Control, Places
    <3>2. Waited' = Waited \cup {t}
      BY <1>1, <3>1 DEF Waited, Inside, At, TypeOK
    <3>3. Cardinality(Waited') = Cardinality(Waited) + 1
      BY <1>2, <3>2, OneMorePresent
    <3> QED BY <3>1, <3>3, BalanceTypes
  <2>2. CASE EnterVacant(t) \/ EnterSame(t)
    <3>1. quers' = quers /\ wait' = [wait EXCEPT ![t] = FALSE]
      BY <2>2 DEF EnterVacant, EnterSame
    <3>2. Waited' = Waited
      BY <1>1, <1>2, <3>1 DEF Waited, Inside, At, TypeOK
    <3> QED BY <3>1, <3>2
  <2> QED BY <2>1, <2>2
<1>8. Cardinality(Waited') \in Nat /\ quers' \in Nat
  <2>1. Waited' \in SUBSET Threads
    BY DEF Waited
  <2> QED BY <2>1, SetsOfThreads DEF TypeOK
<1> QED BY <1>1, <1>3, <1>4, <1>5, <1>6, <1>7, <1>8, BalanceTypes DEF Balance

\* Somebody lines up: one more in the queue, one more in qarray.
LEMMA QueueBalance ==
  ASSUME Control, TypeOK, TypeOK', Balance, NEW t \in Threads, UNCHANGED simVars, stage[t] = Visiting,
         Queue(t)
  PROVE  Balance'
<1>0. qarray \in [0 .. NumUsers - 1 -> Nat \cup {-1}] /\ qarray' \in [0 .. NumUsers - 1 -> Nat \cup {-1}]
  BY DEF TypeOK
<1>1. /\ pc' = [pc EXCEPT ![t] = Blocked] /\ pc[t] = Deciding
      /\ stage' = stage /\ visits' = visits /\ numwaits' = numwaits /\ wait' = wait
      /\ barray' = barray /\ missedB' = missedB /\ uses' = uses
      /\ ques' = ques + 1 /\ quers' = quers + 1
      /\ qarray' = Bump(qarray, quers + 1) /\ missedQ' = missedQ + Missed(qarray, quers + 1)
  BY DEF Queue, Release, simVars
<1>2. Present' = Present /\ Waited' = Waited
  BY <1>1 DEF Present, Waited, Inside, At, TypeOK
<1>3. Counted(qarray)' + missedQ' = Counted(qarray) + missedQ + 1
  <2>2. Counted(qarray)' = Counted(Bump(qarray, quers + 1))
    BY <1>1, Zenon DEF Counted, Frequency, Nonempty
  <2>3. /\ Counted(qarray) \in Int /\ Missed(qarray, quers + 1) \in Nat
        /\ Counted(Bump(qarray, quers + 1)) + Missed(qarray, quers + 1) = Counted(qarray) + 1
    BY <1>0, HistogramCounts
  <2>4. Counted(Bump(qarray, quers + 1)) \in Int
    BY <1>0, <1>1, HistogramCounts
  <2>5. missedQ \in Nat
    BY DEF TypeOK
  <2> QED BY <1>1, <2>2, <2>3, <2>4, <2>5
<1>4. Counted(barray)' = Counted(barray)
  BY <1>1, Zenon DEF Counted, Frequency, Nonempty
<1>5. SumFunction(visits)' = SumFunction(visits) /\ SumFunction(numwaits)' = SumFunction(numwaits)
  BY <1>1
<1> QED BY <1>1, <1>2, <1>3, <1>4, <1>5, BalanceTypes DEF Balance

\* Leave turns a thread inside into one that has a visit to note.
LEMMA LeaveBalance ==
  ASSUME Control, TypeOK, Balance, NEW t \in Threads, FinishVisit(t)
  PROVE  Balance'
<1>1. /\ UNCHANGED <<uses, ques, quers, barray, qarray, missedB, missedQ, wait>>
      /\ \A u \in Threads \ {t} : pc'[u] = pc[u] \/ (pc[u] = Blocked /\ pc'[u] = Woken)
      /\ pc[t] = Leaving /\ pc'[t] = Outside
  <2>1. CASE LeaveOccupied(t)
    BY <2>1 DEF LeaveOccupied, Release, TypeOK, statVars
  <2>2. CASE LeaveEmpty(t)
    BY <2>2 DEF LeaveEmpty, TypeOK, statVars
  <2> QED BY <2>1, <2>2 DEF FinishVisit, LeaveStep
<1>2. stage' = [stage EXCEPT ![t] = Tallying] /\ UNCHANGED <<visits, numwaits>>
  BY DEF FinishVisit
<1>3. Present' = Present /\ Waited' = Waited
  BY <1>1, <1>2 DEF Present, Waited, Inside, At, Control, Locals
<1> QED BY <1>1, <1>2, <1>3, SameBalance

\* The thread notes it.
LEMMA TallyBalance ==
  ASSUME Control, TypeOK, Balance, NEW t \in Threads, Tally(t)
  PROVE  Balance'
<1>0. /\ UNCHANGED <<uses, ques, quers, barray, qarray, missedB, missedQ, wait, pc>>
      /\ visits \in [Threads -> Int] /\ numwaits \in [Threads -> Int]
      /\ visits' = [visits EXCEPT ![t] = visits[t] + 1]
      /\ numwaits' = [numwaits EXCEPT ![t] = IF wait[t] THEN numwaits[t] + 1 ELSE numwaits[t]]
      /\ stage[t] = Tallying /\ stage \in [Threads -> Stages]
      /\ stage'[t] # Tallying /\ \A u \in Threads \ {t} : stage'[u] = stage[u]
      /\ pc[t] = Outside
  BY DEF Tally, monitorVars, statVars, Control, Locals, Places
<1>1. /\ t \in Present /\ Present' = Present \ {t}
      /\ Waited' = IF wait[t] THEN Waited \ {t} ELSE Waited
      /\ wait[t] => t \in Waited
  BY <1>0 DEF Present, Waited, Inside, At
<1>2. /\ Cardinality(Present') = Cardinality(Present) - 1
      /\ Cardinality(Waited') = Cardinality(Waited) - (IF wait[t] THEN 1 ELSE 0)
  <2>1. Cardinality(Present') = Cardinality(Present) - 1
    BY <1>1, OneMorePresent
  <2>2. CASE wait[t]
    BY <1>1, <2>1, <2>2, OneMorePresent
  <2>3. CASE ~ wait[t]
    BY <1>1, <2>1, <2>3, BalanceTypes
  <2> QED BY <2>2, <2>3
<1>3. /\ visits[t] \in Int /\ visits[t] + 1 \in Int
      /\ numwaits[t] \in Int /\ numwaits[t] + 1 \in Int
  BY <1>0
<1>4. IsFiniteSet(Threads)
  BY ThreadsAssumption
<1>5. SumFunction(visits') = SumFunction(visits) + 1
  <2>1. SumFunction(visits') = SumFunction(visits) - visits[t] + (visits[t] + 1)
    <3>1. visits \in [Threads -> Int] /\ visits' = [visits EXCEPT ![t] = visits[t] + 1]
      BY <1>0
    <3>2. SumFunction([visits EXCEPT ![t] = visits[t] + 1])
            = SumFunction(visits) - visits[t] + (visits[t] + 1)
      BY <1>3, <1>4, <3>1, SumChanges, Zenon
    <3> QED BY <3>1, <3>2
  <2> QED BY <1>3, <2>1, BalanceTypes
<1>6. SumFunction(numwaits') = SumFunction(numwaits) + (IF wait[t] THEN 1 ELSE 0)
  <2>1. PICK n \in Int : n = IF wait[t] THEN numwaits[t] + 1 ELSE numwaits[t]
    BY <1>3
  <2>2. numwaits' = [numwaits EXCEPT ![t] = n]
    BY <1>0, <2>1
  <2>3. SumFunction(numwaits') = SumFunction(numwaits) - numwaits[t] + n
    <3>1. numwaits \in [Threads -> Int]
      BY <1>0
    <3>2. SumFunction([numwaits EXCEPT ![t] = n]) = SumFunction(numwaits) - numwaits[t] + n
      BY <1>4, <2>1, <3>1, SumChanges, Zenon
    <3> QED BY <2>2, <3>2
  <2> QED BY <1>3, <2>1, <2>3, BalanceTypes
<1>7. Counted(barray)' = Counted(barray) /\ Counted(qarray)' = Counted(qarray)
  BY <1>0, Zenon DEF Counted, Frequency, Nonempty
<1> QED BY <1>0, <1>2, <1>3, <1>5, <1>6, <1>7, BalanceTypes DEF Balance

\* The steps that count nothing.
LEMMA OtherBalance ==
  ASSUME Control, TypeOK, Balance, NEW t \in Threads,
         \/ UNCHANGED simVars /\ stage[t] = Visiting
              /\ (LockEnter(t) \/ Relock(t) \/ LockLeave(t) \/ Spurious(t))
         \/ UNCHANGED vars
         \/ Create(t) \/ CreateFails(t) \/ JoinGarbage(t) \/ StartJoining \/ Finalize
         \/ LockPrint(t) \/ Terminate(t)
  PROVE  Balance'
<1>1. UNCHANGED <<uses, ques, quers, barray, qarray, missedB, missedQ, visits, numwaits>>
  BY DEF simVars, vars, monitorVars, statVars, LockEnter, Relock, LockLeave, Spurious, Create, CreateFails,
     JoinGarbage, StartJoining, Finalize, PrintAndFree, LockPrint, Terminate
<1>2. Present' = Present /\ Waited' = Waited
  <2>1. CASE UNCHANGED simVars /\ stage[t] = Visiting
              /\ (LockEnter(t) \/ Relock(t) \/ LockLeave(t) \/ Spurious(t))
    BY <2>1 DEF simVars, LockEnter, Relock, LockLeave, Spurious, Acquire, Present, Waited, Inside, At, TypeOK
  <2>2. CASE UNCHANGED <<monitorVars, stage>>
    BY <2>2 DEF monitorVars, Present, Waited, Inside, At
  <2>3. CASE /\ UNCHANGED monitorVars
             /\ \E u \in Threads, s \in Stages \ {Tallying} :
                  stage[u] # Tallying /\ stage' = [stage EXCEPT ![u] = s]
    BY <2>3 DEF monitorVars, Present, Waited, Inside, At, Control, Locals
  <2>4. /\ Create(t) => stage[t] = Unborn /\ stage' = [stage EXCEPT ![t] = Visiting]
        /\ CreateFails(t) => stage[t] = Unborn /\ stage' = [stage EXCEPT ![t] = Failed]
        /\ JoinGarbage(t) => stage[t] = Failed /\ (stage' = stage \/ stage' = [stage EXCEPT ![t] = Skipped])
        /\ LockPrint(t) => stage[t] = Report /\ stage' = [stage EXCEPT ![t] = Printing]
        /\ Terminate(t) => stage[t] = Printing /\ stage' = [stage EXCEPT ![t] = Ended]
        /\ StartJoining \/ Finalize => stage' = stage
    BY DEF Create, CreateFails, JoinGarbage, StartJoining, Finalize, PrintAndFree, LockPrint, Terminate
  <2>5. Create(t) \/ CreateFails(t) \/ JoinGarbage(t) \/ StartJoining \/ Finalize
           \/ LockPrint(t) \/ Terminate(t) => UNCHANGED monitorVars
    BY DEF Create, CreateFails, JoinGarbage, StartJoining, Finalize, PrintAndFree, LockPrint, Terminate
  <2>6. UNCHANGED vars => UNCHANGED <<monitorVars, stage>>
    BY DEF vars, simVars
  <2>7. Create(t) \/ CreateFails(t) \/ JoinGarbage(t) \/ LockPrint(t) \/ Terminate(t)
          => \/ stage' = stage
             \/ \E u \in Threads, s \in Stages \ {Tallying} :
                  stage[u] # Tallying /\ stage' = [stage EXCEPT ![u] = s]
    BY <2>4
  <2> QED BY <2>1, <2>2, <2>3, <2>4, <2>5, <2>6, <2>7
<1> QED BY <1>1, <1>2, SameBalance

\* At the start there is nothing to add up.
LEMMA BalanceAtStart == SimInit => Balance
<1> SUFFICES ASSUME SimInit PROVE Balance
  OBVIOUS
<1>1. IsFiniteSet(Threads) /\ IsFiniteSet(0 .. NumUsers - 1)
  BY ThreadsAssumption, HistogramIsFinite
<1>2. Present = {} /\ Waited = {}
  BY DEF SimInit, Init, Present, Waited, Inside, At
<1>3. SumFunction(visits) = 0 /\ SumFunction(numwaits) = 0
  <2>1. /\ visits \in [Threads -> Int] /\ \A t \in Threads : visits[t] = 0
        /\ numwaits \in [Threads -> Int] /\ \A t \in Threads : numwaits[t] = 0
    BY DEF SimInit
  <2> QED BY <1>1, <2>1, SumOfZeros
<1>4. PICK T : T = 0 .. NumUsers - 1
  OBVIOUS
<1>5. barray = [i \in T |-> -1] /\ qarray = [i \in T |-> -1]
  BY <1>4 DEF SimInit, Init
<1>6. \A array : array = [i \in T |-> -1] => Counted(array) = 0
  <2> SUFFICES ASSUME NEW array, array = [i \in T |-> -1] PROVE Counted(array) = 0
    OBVIOUS
  <2>1. PICK f : f = [i \in DOMAIN array |-> IF array[i] = -1 THEN 0 ELSE array[i]]
    OBVIOUS
  <2>2. f \in [T -> Int] /\ \A i \in T : f[i] = 0
    BY <2>1
  <2>3. SumFunction(f) = 0
    BY <1>1, <1>4, <2>2, SumOfZeros
  <2>4. {i \in DOMAIN array : array[i] # -1} = {}
    OBVIOUS
  <2>5. Frequency(array) = 0
    BY <2>1, <2>3, Zenon DEF Frequency
  <2>6. Nonempty(array) = 0
    BY <2>4, FS_EmptySet, Zenon DEF Nonempty
  <2> QED BY <2>5, <2>6 DEF Counted
<1>7. Counted(barray) = 0 /\ Counted(qarray) = 0
  BY <1>5, <1>6
<1>8. Cardinality({}) = 0
  BY FS_EmptySet
<1>9. uses = 0 /\ ques = 0 /\ quers = 0 /\ missedB = 0 /\ missedQ = 0
  BY DEF SimInit, Init
<1> QED BY <1>2, <1>3, <1>7, <1>8, <1>9 DEF Balance

\* Every step keeps the balance.
LEMMA BalanceSteps ==
  ASSUME Control, TypeOK, TypeOK', Balance, [SimNext]_vars
  PROVE  Balance'
<1>1. PICK u \in Threads : TRUE
  BY ThreadsAssumption
<1>2. CASE UNCHANGED vars
  BY <1>1, <1>2, OtherBalance
<1>3. CASE MainStep
  BY <1>1, <1>3, OtherBalance DEF MainStep
<1>4. ASSUME NEW t \in Threads, Visit(t)
      PROVE  Balance'
  <2>1. UNCHANGED simVars /\ stage[t] = Visiting
    BY <1>4 DEF Visit
  <2>2. CASE LockEnter(t) \/ Relock(t) \/ LockLeave(t)
    BY <2>1, <2>2, OtherBalance
  <2>3. CASE EnterVacant(t) \/ EnterSame(t) \/ Resume(t)
    BY <2>1, <2>3, EntryBalance
  <2>4. CASE Queue(t)
    BY <2>1, <2>4, QueueBalance
  <2> QED BY <1>4, <2>2, <2>3, <2>4 DEF Visit, EnterStep
<1>5. ASSUME NEW t \in Threads, FinishVisit(t) \/ Tally(t) \/ LockPrint(t) \/ Terminate(t)
      PROVE  Balance'
  BY <1>5, LeaveBalance, TallyBalance, OtherBalance
<1>6. ASSUME NEW t \in Threads, SpuriousWakeup(t)
      PROVE  Balance'
  <2>1. UNCHANGED simVars /\ stage[t] = Visiting /\ Spurious(t)
    BY <1>6 DEF SpuriousWakeup, Spurious, Control, Places
  <2> QED BY <2>1, OtherBalance
<1> QED
  BY <1>2, <1>3, <1>4, <1>5, <1>6 DEF SimNext, ThreadStep, Stopped

\* Only Finalize sets the totals, and the arrays rest from then on.
LEMMA TotalsSteps ==
  ASSUME TypeOK, Totals, [SimNext]_vars
  PROVE  Totals'
<1>1. CASE Finalize
  <2>1. /\ bper' = Frequency(barray) /\ qper' = Frequency(qarray)
        /\ barray' = barray /\ qarray' = qarray
    BY <1>1 DEF Finalize, PrintAndFree, monitorVars
  <2>2. Frequency(barray) \in Int /\ Frequency(qarray) \in Int
    BY HistogramCounts DEF TypeOK
  <2>3. Frequency(barray)' = Frequency(barray) /\ Frequency(qarray)' = Frequency(qarray)
    BY <2>1, Zenon DEF Frequency
  <2> QED BY <2>1, <2>2, <2>3, Zenon DEF Totals
<1>2. CASE UNCHANGED vars
  <2>1. UNCHANGED <<bper, qper, main, barray, qarray>>
    BY <1>2 DEF vars, simVars, totals, monitorVars
  <2>2. Frequency(barray)' = Frequency(barray) /\ Frequency(qarray)' = Frequency(qarray)
    BY <2>1, Zenon DEF Frequency
  <2> QED BY <2>1, <2>2, Zenon DEF Totals
<1>3. ASSUME UNCHANGED totals, main' \notin {"done", "aborted"}
      PROVE  Totals'
  BY <1>3 DEF Totals, totals
<1>4. ASSUME NEW t \in Threads, Create(t) \/ CreateFails(t) \/ JoinGarbage(t) \/ StartJoining
      PROVE  UNCHANGED totals /\ main' \notin {"done", "aborted"}
  BY <1>4 DEF Create, CreateFails, JoinGarbage, StartJoining
<1>5. ASSUME NEW t \in Threads, ThreadStep(t) \/ SpuriousWakeup(t)
      PROVE  UNCHANGED totals /\ main' \notin {"done", "aborted"}
  BY <1>5 DEF ThreadStep, SpuriousWakeup, Visit, FinishVisit, Tally, LockPrint, Terminate, simVars,
     Running
<1>6. PICK u \in Threads : TRUE
  BY ThreadsAssumption
<1> QED BY <1>1, <1>2, <1>3, <1>4, <1>5, <1>6 DEF SimNext, MainStep, Stopped

-----------------------------------------------------------------------------
(* Theorems.                                                                *)

\* No thread makes more rounds than its loopcount or counts more waits than rounds,
\* and main, the threads and print keep to their values. (bathroomsim.c, Individual)
THEOREM SimTypeCorrect == SimSpec => []SimTypeOK
<1>1. SimSpec => []TypeOK
  BY SimulationUsesMonitor, TypeCorrect, PTL
<1>2. TypeOK /\ Control /\ [SimNext]_vars => Control'
  BY ControlSteps
<1>3. Control /\ Totals => SimTypeOK
  <2> SUFFICES ASSUME Control, Totals PROVE SimTypeOK
    OBVIOUS
  <2>1. \A t \in Threads : stage[t] \in Stages /\ loopcount[t] \in Nat
    BY LoopsAssumption DEF Control, Locals
  <2>2. \A t \in Threads : visits[t] \in 0 .. loopcount[t] /\ numwaits[t] \in 0 .. visits[t]
    BY <2>1 DEF Control, Locals, Rounds
  <2> QED BY <2>2 DEF Control, Locals, SimTypeOK, Totals
<1>4. TypeOK /\ Totals /\ [SimNext]_vars => Totals'
  BY TotalsSteps
<1>5. SimInit => Totals
  BY DEF SimInit, Totals
<1> QED BY <1>1, <1>2, <1>3, <1>4, <1>5, StartsInControl, PTL DEF SimSpec

\* The inductive invariant of the simulation.
LEMMA SimInvariant == SimSpec => [](IInv /\ Control /\ Balance /\ Totals)
<1>1. SimSpec => []IInv
  BY SimulationUsesMonitor, AlwaysIInv, PTL
<1>2. IInv /\ IInv' /\ Control /\ [SimNext]_vars => Control'
  BY ControlSteps DEF IInv
<1>3. IInv /\ IInv' /\ Control /\ Balance /\ [SimNext]_vars => Balance'
  BY BalanceSteps DEF IInv
<1>4. IInv /\ Totals /\ [SimNext]_vars => Totals'
  BY TotalsSteps DEF IInv
<1>5. SimInit => Totals
  BY DEF SimInit, Totals
<1> QED BY <1>1, <1>2, <1>3, <1>4, <1>5, StartsInControl, BalanceAtStart, PTL DEF SimSpec

\* uses, ques and the histograms, updated under the mutex by different threads, agree
\* at every moment with what each thread has counted for itself, and the totals of
\* Finalize fall short of them by the cells in use and the counts outside the arrays.
\* (bathroom.c, Enter and Finalize; bathroomsim.c, Individual)
THEOREM StatisticsAddUp == SimSpec => []StatisticsBalance
<1>1. Balance /\ Totals => StatisticsBalance
  BY BalanceIsBalance
<1> QED BY <1>1, SimInvariant, PTL

\* Finalize frees the monitor only when every visit is over and recorded, though a
\* thread that was never created is not joined. (bathroomsim.c, main; bathroom.c,
\* Finalize)
THEOREM QuietEnd == SimSpec => []QuietAtFinalize
<1>1. IInv /\ Control /\ Balance => QuietAtFinalize
  <2> SUFFICES ASSUME IInv, Control, Balance, main \in {"done", "aborted"}
               PROVE  /\ \A t \in Threads : pc[t] = Outside
                      /\ lock = Unlocked /\ print = Unlocked
                      /\ flag = VACANT /\ users = 0 /\ quers = 0
                      /\ uses = SumFunction(loopcount)
    BY DEF QuietAtFinalize
  <2>1. \A t \in Threads : stage[t] \in {Ended, Skipped} /\ pc[t] = Outside
    BY DEF Control, Joined, Places
  <2>2. Inside = {} /\ Queued = {} /\ Holders = {} /\ Present = {}
    BY <2>1 DEF Inside, Queued, Holders, At, Present
  <2>3. lock = Unlocked
    BY <2>2 DEF IInv, LockDiscipline, TypeOK
  <2>4. print = Unlocked
    BY <2>1 DEF Control, PrintHeld, Locals
  <2>5. flag = VACANT
    BY <2>2 DEF IInv, FlagAgrees
  <2>6. users = 0 /\ quers = 0
    BY <2>2, FS_EmptySet DEF IInv, CountersAgree
  <2>7. visits = loopcount
    <3>1. \A t \in Threads : visits[t] = loopcount[t]
      BY <2>1 DEF Control, Rounds
    <3>2. DOMAIN visits = Threads /\ DOMAIN loopcount = Threads
          /\ visits = [t \in Threads |-> visits[t]] /\ loopcount = [t \in Threads |-> loopcount[t]]
      BY DEF Control, Locals
    <3> QED BY <3>1, <3>2
  <2>8. uses = SumFunction(loopcount)
    <3>1. Cardinality(Present) = 0 /\ SumFunction(visits) \in Int
      BY <2>2, FS_EmptySet, BalanceTypes DEF IInv
    <3> QED BY <2>7, <3>1 DEF Balance
  <2> QED BY <2>1, <2>3, <2>4, <2>5, <2>6, <2>8
<1> QED BY <1>1, SimInvariant, PTL

=============================================================================
