----------------------------- MODULE SumProofs -----------------------------
(***************************************************************************)
(* Lemmas about the fold with which a module adds up a function's values.  *)
(* The fold takes its elements in an order nobody knows; the lemmas say    *)
(* that for a finite domain the sum exists, that the order does not matter *)
(* and what one more or one less element makes of it.                      *)
(***************************************************************************)
EXTENDS Chain, Functions, FiniteSetTheorems, WellFoundedInduction, TLAPS

SumOf(f) == FoldFunction(+, 0, f)

\* The element the fold takes next
Chosen(s) == CHOOSE x \in s : TRUE

\* `g` tells for every subset of `U` what the fold makes of `f` on it.
Tallies(g, f, U) ==
    g = [s \in SUBSET U |-> IF s = {} THEN 0 ELSE f[Chosen(s)] + g[s \ {Chosen(s)}]]

\* Of some subsets of a finite set, one has no other of them below it.
LEMMA MinimalSubset ==
    ASSUME NEW U, IsFiniteSet(U), NEW T, T \subseteq SUBSET U, T # {}
    PROVE  \E t \in T : \A u \in T : u \subseteq t => u = t
<1> DEFINE R == StrictSubsetOrdering(U)
<1>1. T \subseteq FiniteSubsetsOf(U)
  BY FS_Subset DEF FiniteSubsetsOf
<1>2. \E t \in T : \A u \in T : ~ (<<u, t>> \in R)
  <2>1. IsWellFoundedOn(R, FiniteSubsetsOf(U))
    BY FS_StrictSubsetOrderingWellFounded
  <2> HIDE DEF R
  <2> QED BY <1>1, <2>1, WFMin
<1> QED BY <1>2 DEF StrictSubsetOrdering

\* A tally, unfolded once.
LEMMA TallyStep ==
    ASSUME NEW g, NEW f, NEW U, Tallies(g, f, U)
    PROVE  /\ g[{}] = 0
           /\ \A s \in (SUBSET U) \ {{}} :
                 /\ Chosen(s) \in s
                 /\ s \ {Chosen(s)} \in SUBSET U
                 /\ g[s] = f[Chosen(s)] + g[s \ {Chosen(s)}]
<1>1. \A s \in (SUBSET U) \ {{}} : Chosen(s) \in s
  BY DEF Chosen
<1>2. \A s \in SUBSET U :
         g[s] = IF s = {} THEN 0 ELSE f[Chosen(s)] + g[s \ {Chosen(s)}]
  BY DEF Tallies
<1> QED BY <1>1, <1>2

\* Two tallies agree wherever the functions they add up agree.
LEMMA TalliesAgree ==
    ASSUME NEW g, NEW f, NEW U, Tallies(g, f, U),
           NEW h, NEW e, NEW V, Tallies(h, e, V),
           NEW S, IsFiniteSet(S), S \subseteq U, S \subseteq V,
           \A x \in S : f[x] = e[x]
    PROVE  g[S] = h[S]
<1>g. /\ g[{}] = 0
      /\ \A s \in (SUBSET U) \ {{}} :
            Chosen(s) \in s /\ g[s] = f[Chosen(s)] + g[s \ {Chosen(s)}]
  BY TallyStep
<1>h. /\ h[{}] = 0
      /\ \A s \in (SUBSET V) \ {{}} :
            Chosen(s) \in s /\ h[s] = e[Chosen(s)] + h[s \ {Chosen(s)}]
  BY TallyStep
<1> DEFINE T == {t \in SUBSET S : g[t] # h[t]}
<1>1. SUFFICES ASSUME T # {} PROVE FALSE
  OBVIOUS
<1>2. PICK t \in T : \A u \in T : u \subseteq t => u = t
  <2>1. T \subseteq SUBSET S
    OBVIOUS
  <2> HIDE DEF T
  <2> QED BY <1>1, <2>1, MinimalSubset
<1>3. t \in SUBSET U /\ t \in SUBSET V /\ t \subseteq S /\ g[t] # h[t]
  BY <1>2
<1>4. t # {}
  BY <1>3, <1>g, <1>h
<1> DEFINE r == t \ {Chosen(t)}
<1>5. /\ Chosen(t) \in t
      /\ g[t] = f[Chosen(t)] + g[r] /\ h[t] = e[Chosen(t)] + h[r]
  BY <1>3, <1>4, <1>g, <1>h
<1>6. g[r] = h[r]
  <2>1. r \notin T
    BY <1>2, <1>5
  <2> QED BY <1>3, <2>1
<1> QED BY <1>3, <1>5, <1>6

\* On a finite set there is a tally.
LEMMA TallyExists ==
    ASSUME NEW f, NEW U, IsFiniteSet(U)
    PROVE  \E g : Tallies(g, f, U)
<1> DEFINE T == {t \in SUBSET U : ~ \E g : Tallies(g, f, t)}
<1>1. SUFFICES ASSUME T # {} PROVE FALSE
  OBVIOUS
<1>2. PICK t \in T : \A u \in T : u \subseteq t => u = t
  <2>1. T \subseteq SUBSET U
    OBVIOUS
  <2> HIDE DEF T
  <2> QED BY <1>1, <2>1, MinimalSubset
<1> DEFINE G(u) == CHOOSE g : Tallies(g, f, u)
           Rest(s) == s \ {Chosen(s)}
           g == [s \in SUBSET t |-> IF s = {} THEN 0 ELSE f[Chosen(s)] + G(Rest(s))[Rest(s)]]
<1>3. \A u \in SUBSET t : u # t => Tallies(G(u), f, u)
  BY <1>2
<1>4. \A s \in SUBSET t : s # {} => /\ Chosen(s) \in s
                                    /\ Rest(s) \in SUBSET t /\ Rest(s) # t
  BY DEF Chosen
<1> HIDE DEF G
<1>5. ASSUME NEW r \in SUBSET t, r # t
      PROVE  g[r] = G(r)[r]
  <2>1. Tallies(G(r), f, r)
    BY <1>3, <1>5
  <2>2. CASE r = {}
    BY <2>1, <2>2, TallyStep
  <2>3. CASE r # {}
    <3>1. G(r)[r] = f[Chosen(r)] + G(r)[Rest(r)]
      BY <2>1, <2>3, TallyStep
    <3>2. G(r)[Rest(r)] = G(Rest(r))[Rest(r)]
      <4>1. Tallies(G(Rest(r)), f, Rest(r))
        BY <1>3, <1>4, <2>3
      <4>2. IsFiniteSet(Rest(r))
        BY <1>2, FS_Subset
      <4> QED BY <2>1, <4>1, <4>2, TalliesAgree
    <3>3. g[r] = f[Chosen(r)] + G(Rest(r))[Rest(r)]
      BY <2>3
    <3> QED BY <3>1, <3>2, <3>3
  <2> QED BY <2>2, <2>3
<1>6. \A s \in SUBSET t : s # {} => g[Rest(s)] = G(Rest(s))[Rest(s)]
  BY <1>4, <1>5
<1>7. Tallies(g, f, t)
  <2>1. \A s \in SUBSET t :
           (IF s = {} THEN 0 ELSE f[Chosen(s)] + G(Rest(s))[Rest(s)])
         = (IF s = {} THEN 0 ELSE f[Chosen(s)] + g[Rest(s)])
    BY <1>6
  <2> QED BY <2>1 DEF Tallies
<1> QED BY <1>2, <1>7

\* The sum is what the tally says of the whole domain.
LEMMA SumIsTally ==
    ASSUME NEW f, IsFiniteSet(DOMAIN f)
    PROVE  \E g : Tallies(g, f, DOMAIN f) /\ SumOf(f) = g[DOMAIN f]
<1> DEFINE g == CHOOSE g : Tallies(g, f, DOMAIN f)
<1>1. Tallies(g, f, DOMAIN f)
  BY TallyExists
<1>2. SumOf(f) = g[DOMAIN f]
  BY DEF SumOf, Tallies, Chosen, FoldFunction, FoldFunctionOnSet, MapThenFoldSet
<1> QED BY <1>1, <1>2

\* Tallies of naturals are naturals.
LEMMA TallyType ==
    ASSUME NEW g, NEW f, NEW U, Tallies(g, f, U), \A x \in U : f[x] \in Nat,
           NEW S, IsFiniteSet(S), S \subseteq U
    PROVE  g[S] \in Nat
<1>s. /\ g[{}] = 0
      /\ \A s \in (SUBSET U) \ {{}} :
            Chosen(s) \in s /\ g[s] = f[Chosen(s)] + g[s \ {Chosen(s)}]
  BY TallyStep
<1> DEFINE T == {t \in SUBSET S : g[t] \notin Nat}
<1>1. SUFFICES ASSUME T # {} PROVE FALSE
  OBVIOUS
<1>2. PICK t \in T : \A u \in T : u \subseteq t => u = t
  <2>1. T \subseteq SUBSET S
    OBVIOUS
  <2> HIDE DEF T
  <2> QED BY <1>1, <2>1, MinimalSubset
<1>3. t \in SUBSET U /\ t # {}
  <2>1. g[t] \notin Nat /\ t \in SUBSET S
    BY <1>2
  <2>2. 0 \in Nat
    OBVIOUS
  <2> QED BY <2>1, <2>2, <1>s
<1>4. Chosen(t) \in t /\ g[t] = f[Chosen(t)] + g[t \ {Chosen(t)}]
  BY <1>3, <1>s
<1>5. g[t \ {Chosen(t)}] \in Nat
  BY <1>2, <1>4
<1> QED BY <1>2, <1>3, <1>4, <1>5

\* Any element may be taken first.
LEMMA TallyAnyElement ==
    ASSUME NEW g, NEW f, NEW U, Tallies(g, f, U), \A x \in U : f[x] \in Nat,
           NEW S, IsFiniteSet(S), S \subseteq U, NEW x \in S
    PROVE  g[S] = f[x] + g[S \ {x}]
<1>s. \A s \in (SUBSET U) \ {{}} :
         Chosen(s) \in s /\ g[s] = f[Chosen(s)] + g[s \ {Chosen(s)}]
  BY TallyStep
<1> DEFINE T == {t \in SUBSET S : \E y \in t : g[t] # f[y] + g[t \ {y}]}
<1>1. SUFFICES ASSUME T # {} PROVE FALSE
  OBVIOUS
<1>2. PICK t \in T : \A u \in T : u \subseteq t => u = t
  <2>1. T \subseteq SUBSET S
    OBVIOUS
  <2> HIDE DEF T
  <2> QED BY <1>1, <2>1, MinimalSubset
<1>3. PICK y \in t : g[t] # f[y] + g[t \ {y}]
  BY <1>2
<1> DEFINE c == Chosen(t)
           r == t \ {c, y}
<1>4. t \in SUBSET U /\ t # {}
  BY <1>2, <1>3
<1>5. c \in t /\ g[t] = f[c] + g[t \ {c}]
  BY <1>4, <1>s
<1> HIDE DEF c
<1>6. c # y
  BY <1>3, <1>5
<1>7. g[t \ {c}] = f[y] + g[r]
  <2>1. t \ {c} \notin T /\ t \ {c} \in SUBSET S
    BY <1>2, <1>5
  <2>2. (t \ {c}) \ {y} = r /\ y \in t \ {c}
    BY <1>6
  <2> HIDE DEF r
  <2> QED BY <2>1, <2>2
<1>8. g[t \ {y}] = f[c] + g[r]
  <2>1. t \ {y} \notin T /\ t \ {y} \in SUBSET S
    BY <1>2
  <2>2. (t \ {y}) \ {c} = r /\ c \in t \ {y}
    BY <1>5, <1>6
  <2> HIDE DEF r
  <2> QED BY <2>1, <2>2
<1>9. f[c] \in Nat /\ f[y] \in Nat /\ g[r] \in Nat
  <2>1. IsFiniteSet(r) /\ r \subseteq U
    BY <1>2, <1>4, FS_Subset
  <2> HIDE DEF r
  <2> QED BY <1>4, <1>5, <2>1, TallyType
<1> QED BY <1>3, <1>5, <1>7, <1>8, <1>9

-----------------------------------------------------------------------------
(* Sums of the values of a map.                                            *)

\* Nothing adds up to nothing.
LEMMA SumOfNothing ==
    ASSUME NEW f, DOMAIN f = {}
    PROVE  SumOf(f) = 0
<1>1. PICK g : Tallies(g, f, {}) /\ SumOf(f) = g[{}]
  BY SumIsTally, FS_EmptySet
<1> QED BY <1>1, TallyStep

\* The sum of a finite map of naturals is a natural.
LEMMA SumType ==
    ASSUME NEW f, IsFiniteSet(DOMAIN f), \A x \in DOMAIN f : f[x] \in Nat
    PROVE  SumOf(f) \in Nat
<1>1. PICK g : Tallies(g, f, DOMAIN f) /\ SumOf(f) = g[DOMAIN f]
  BY SumIsTally
<1> QED BY <1>1, TallyType

\* Taking an entry out of the map takes its value out of the sum.
LEMMA SumWithout ==
    ASSUME NEW f, IsFiniteSet(DOMAIN f), \A x \in DOMAIN f : f[x] \in Nat,
           NEW key \in DOMAIN f
    PROVE  /\ SumOf(Delete(f, key)) \in Nat
           /\ SumOf(f) = f[key] + SumOf(Delete(f, key))
<1> DEFINE rest == Delete(f, key)
           S == DOMAIN f \ {key}
<1>1. DOMAIN rest = S /\ \A x \in S : rest[x] = f[x]
  BY DEF Delete
<1>2. IsFiniteSet(S)
  BY FS_Subset
<1> HIDE DEF rest
<1>3. SumOf(rest) \in Nat
  BY <1>1, <1>2, SumType
<1>4. PICK g : Tallies(g, f, DOMAIN f) /\ SumOf(f) = g[DOMAIN f]
  BY SumIsTally
<1>5. PICK h : Tallies(h, rest, S) /\ SumOf(rest) = h[S]
  BY <1>1, <1>2, SumIsTally
<1>6. g[DOMAIN f] = f[key] + g[S]
  BY <1>4, TallyAnyElement
<1>7. g[S] = h[S]
  BY <1>1, <1>2, <1>4, <1>5, TalliesAgree
<1> QED BY <1>3, <1>4, <1>5, <1>6, <1>7 DEF rest
=============================================================================
