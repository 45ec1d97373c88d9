--------------------------- MODULE Wallet_proofs ---------------------------
(***************************************************************************)
(* Proofs about Wallet, for any requests, accounts and jobs.               *)
(*                                                                         *)
(* What a request read under its locks still stands when it commits        *)
(* (Locked below): nobody else changes a row it holds, because whoever     *)
(* moves a balance has passed that row, and passing a row that exists      *)
(* means holding it.                                                       *)
(*                                                                         *)
(* A sum over a finite set is computed one element at a time, so what it   *)
(* adds up to is shown by induction over sets: of the sets that refute a   *)
(* claim there would be a smallest, and it cannot be one.                  *)
(***************************************************************************)
EXTENDS Wallet, FiniteSetTheorems, TLAPS

-----------------------------------------------------------------------------
(* Sums                                                                    *)

(* Of a set of finite sets one is smallest.                                *)
LEMMA SmallestSet ==
  ASSUME NEW S, IsFiniteSet(S), NEW T \in SUBSET SUBSET S, T # {}
  PROVE  \E A \in T : \A B \in T : B \subseteq A => B = A
<1>1. IsWellFoundedOn(StrictSubsetOrdering(S), FiniteSubsetsOf(S))
  BY FS_StrictSubsetOrderingWellFounded
<1>2. T \subseteq FiniteSubsetsOf(S)
  BY FS_FiniteSubsetsOfFinite
<1>3. \E A \in T : \A B \in T : ~ (<<B, A>> \in StrictSubsetOrdering(S))
  BY <1>1, <1>2, WFMin
<1>4. QED
  BY <1>3 DEF StrictSubsetOrdering

AnyOf(s) == CHOOSE x \in s : TRUE
Unfolds(g, f, S) ==
  g = [s \in SUBSET S |-> IF s = {} THEN 0 ELSE f[AnyOf(s)] + g[s \ {AnyOf(s)}]]

LEMMA SumUnfolds ==
  ASSUME NEW f, NEW S
  PROVE  SumFunctionOnSet(f, S) = (CHOOSE g : Unfolds(g, f, S))[S]
  BY DEF SumFunctionOnSet, FoldFunctionOnSet, MapThenFoldSet, Unfolds, AnyOf

LEMMA UnfoldsAt ==
  ASSUME NEW f, NEW S, NEW g, Unfolds(g, f, S), NEW s \in SUBSET S
  PROVE  /\ s = {} => g[s] = 0
         /\ s # {} => AnyOf(s) \in s /\ g[s] = f[AnyOf(s)] + g[s \ {AnyOf(s)}]
<1>1. g[s] = IF s = {} THEN 0 ELSE f[AnyOf(s)] + g[s \ {AnyOf(s)}]
  BY DEF Unfolds
<1>2. s # {} => AnyOf(s) \in s
  BY DEF AnyOf
<1>3. QED
  BY <1>1, <1>2

LEMMA UnfoldsOneWay ==
  ASSUME NEW f, NEW S, IsFiniteSet(S), NEW T, NEW g, NEW h,
         Unfolds(g, f, S), Unfolds(h, f, T),
         NEW s \in SUBSET S, s \in SUBSET T
  PROVE  g[s] = h[s]
<1> DEFINE Bad == {x \in SUBSET S : x \subseteq T /\ g[x] # h[x]}
<1>1. SUFFICES ASSUME Bad # {} PROVE FALSE
  OBVIOUS
<1>2. PICK x \in Bad : \A y \in Bad : y \subseteq x => y = x
  <2>1. Bad \in SUBSET SUBSET S
    OBVIOUS
  <2> HIDE DEF Bad
  <2>2. QED
    BY <1>1, <2>1, SmallestSet
<1>3. x # {}
  BY UnfoldsAt
<1>4. /\ AnyOf(x) \in x
      /\ g[x] = f[AnyOf(x)] + g[x \ {AnyOf(x)}]
      /\ h[x] = f[AnyOf(x)] + h[x \ {AnyOf(x)}]
  BY <1>3, UnfoldsAt
<1>5. x \ {AnyOf(x)} \notin Bad
  BY <1>2, <1>4
<1>6. g[x \ {AnyOf(x)}] = h[x \ {AnyOf(x)}]
  BY <1>5
<1>7. QED
  BY <1>4, <1>6

LEMMA UnfoldingExists ==
  ASSUME NEW f, NEW S, IsFiniteSet(S)
  PROVE  Unfolds(CHOOSE g : Unfolds(g, f, S), f, S)
<1> DEFINE Bad == {x \in SUBSET S : \A g : ~ Unfolds(g, f, x)}
           At(x) == CHOOSE g : Unfolds(g, f, x)
<1>1. SUFFICES ASSUME Bad # {} PROVE FALSE
  BY S \in SUBSET S
<1>2. PICK x \in Bad : \A y \in Bad : y \subseteq x => y = x
  <2>1. Bad \in SUBSET SUBSET S
    OBVIOUS
  <2> HIDE DEF Bad
  <2>2. QED
    BY <1>1, <2>1, SmallestSet
<1>3. ASSUME NEW s \in SUBSET x, s # x PROVE Unfolds(At(s), f, s)
  <2>1. s \notin Bad
    BY <1>2, <1>3
  <2>2. QED
    BY <2>1
<1> DEFINE G == [s \in SUBSET x |-> IF s = {} THEN 0
                 ELSE f[AnyOf(s)] + At(s \ {AnyOf(s)})[s \ {AnyOf(s)}]]
<1>4. ASSUME NEW s \in SUBSET x, s # x PROVE G[s] = At(s)[s]
  <2> HIDE DEF At
  <2>1. Unfolds(At(s), f, s) /\ s \in SUBSET s
    BY <1>3, <1>4
  <2>2. CASE s = {}
    BY <2>1, <2>2, UnfoldsAt
  <2>3. CASE s # {}
    <3> DEFINE r == s \ {AnyOf(s)}
    <3>1. AnyOf(s) \in s /\ At(s)[s] = f[AnyOf(s)] + At(s)[r]
      BY <2>1, <2>3, UnfoldsAt
    <3>2. Unfolds(At(r), f, r)
      BY <1>3, <3>1, <1>4
    <3>3. IsFiniteSet(s)
      BY FS_Subset
    <3>4. r \in SUBSET s /\ r \in SUBSET r
      OBVIOUS
    <3>5. At(s)[r] = At(r)[r]
      BY <2>1, <3>2, <3>3, <3>4, UnfoldsOneWay
    <3>6. QED
      BY <2>3, <3>1, <3>5
  <2>4. QED
    BY <2>2, <2>3
<1>5. ASSUME NEW s \in SUBSET x, s # {}
      PROVE  G[s] = f[AnyOf(s)] + G[s \ {AnyOf(s)}]
  <2>1. AnyOf(s) \in s
    BY <1>5 DEF AnyOf
  <2>2. s \ {AnyOf(s)} \in SUBSET x /\ s \ {AnyOf(s)} # x
    BY <2>1
  <2>3. G[s \ {AnyOf(s)}] = At(s \ {AnyOf(s)})[s \ {AnyOf(s)}]
    BY <1>4, <2>2
  <2>4. QED
    BY <1>5, <2>3
<1>6. Unfolds(G, f, x)
  <2>1. G[{}] = 0
    OBVIOUS
  <2> HIDE DEF At
  <2>2. G = [s \in SUBSET x |-> G[s]]
    OBVIOUS
  <2>3. \A s \in SUBSET x : G[s] = IF s = {} THEN 0 ELSE f[AnyOf(s)] + G[s \ {AnyOf(s)}]
    BY <1>5, <2>1
  <2> HIDE DEF G
  <2>4. QED
    BY <2>2, <2>3 DEF Unfolds
<1>7. QED
  BY <1>2, <1>6

(* The three facts about sums the proofs below cite.                       *)
LEMMA SumOfNone == ASSUME NEW f PROVE SumFunctionOnSet(f, {}) = 0
<1>1. Unfolds(CHOOSE g : Unfolds(g, f, {}), f, {})
  BY FS_EmptySet, UnfoldingExists
<1>2. QED
  BY <1>1, UnfoldsAt, SumUnfolds

LEMMA SumOfSome ==
  ASSUME NEW f, NEW S, IsFiniteSet(S), S # {}
  PROVE  \E x \in S : SumFunctionOnSet(f, S) = f[x] + SumFunctionOnSet(f, S \ {x})
<1> DEFINE R == S \ {AnyOf(S)}
           At(x) == CHOOSE g : Unfolds(g, f, x)
<1>1. IsFiniteSet(R)
  BY FS_Subset
<1>2. Unfolds(At(S), f, S) /\ Unfolds(At(R), f, R)
  BY <1>1, UnfoldingExists
<1>3. SumFunctionOnSet(f, S) = At(S)[S] /\ SumFunctionOnSet(f, R) = At(R)[R]
  BY SumUnfolds
<1> HIDE DEF At
<1>4. S \in SUBSET S /\ R \in SUBSET S /\ R \in SUBSET R
  OBVIOUS
<1>5. AnyOf(S) \in S /\ At(S)[S] = f[AnyOf(S)] + At(S)[R]
  BY <1>2, <1>4, UnfoldsAt
<1> HIDE DEF R
<1>6. At(S)[R] = At(R)[R]
  BY <1>2, <1>4, UnfoldsOneWay
<1>7. QED
  BY <1>3, <1>5, <1>6 DEF R

(* A sum of integers is one, and every element may be taken first.         *)
LEMMA SumOfInts ==
  ASSUME NEW S, IsFiniteSet(S), NEW f, \A x \in S : f[x] \in Int
  PROVE  SumFunctionOnSet(f, S) \in Int
<1> DEFINE Bad == {s \in SUBSET S : SumFunctionOnSet(f, s) \notin Int}
<1>1. SUFFICES ASSUME Bad # {} PROVE FALSE
  OBVIOUS
<1>2. PICK s \in Bad : \A r \in Bad : r \subseteq s => r = s
  <2>1. Bad \in SUBSET SUBSET S
    OBVIOUS
  <2> HIDE DEF Bad
  <2>2. QED
    BY <1>1, <2>1, SmallestSet
<1>3. s # {}
  BY SumOfNone
<1>4. PICK x \in s : SumFunctionOnSet(f, s) = f[x] + SumFunctionOnSet(f, s \ {x})
  BY <1>3, FS_Subset, SumOfSome
<1>5. SumFunctionOnSet(f, s \ {x}) \in Int
  BY <1>2
<1>6. QED
  BY <1>4, <1>5

LEMMA SumTakesOut ==
  ASSUME NEW S, IsFiniteSet(S), NEW f, \A x \in S : f[x] \in Int, NEW e \in S
  PROVE  SumFunctionOnSet(f, S) = f[e] + SumFunctionOnSet(f, S \ {e})
<1> DEFINE Sum(s) == SumFunctionOnSet(f, s)
           Bad == {s \in SUBSET S : \E x \in s : Sum(s) # f[x] + Sum(s \ {x})}
<1> HIDE DEF Sum
<1>0. \A s \in SUBSET S : IsFiniteSet(s) /\ Sum(s) \in Int
  BY FS_Subset, SumOfInts DEF Sum
<1>1. SUFFICES ASSUME Bad # {} PROVE FALSE
  BY DEF Sum
<1>2. PICK s \in Bad : \A r \in Bad : r \subseteq s => r = s
  <2>1. Bad \in SUBSET SUBSET S
    OBVIOUS
  <2> HIDE DEF Bad
  <2>2. QED
    BY <1>1, <2>1, SmallestSet
<1>3. PICK x \in s : Sum(s) # f[x] + Sum(s \ {x})
  BY <1>2
<1>4. PICK y \in s : Sum(s) = f[y] + Sum(s \ {y})
  BY <1>0, <1>3, SumOfSome DEF Sum
<1>5. x # y
  BY <1>3, <1>4
<1>6. s \ {x} \notin Bad /\ s \ {y} \notin Bad
  BY <1>2
<1>7. /\ Sum(s \ {x}) = f[y] + Sum((s \ {x}) \ {y})
      /\ Sum(s \ {y}) = f[x] + Sum((s \ {y}) \ {x})
  BY <1>5, <1>6
<1>8. (s \ {x}) \ {y} = (s \ {y}) \ {x}
  OBVIOUS
<1>9. /\ f[x] \in Int /\ f[y] \in Int /\ Sum((s \ {x}) \ {y}) \in Int
  BY <1>0
<1> DEFINE rest == Sum((s \ {x}) \ {y})
<1>10. /\ Sum(s) = f[y] + (f[x] + rest) /\ f[x] + Sum(s \ {x}) = f[x] + (f[y] + rest)
       /\ f[x] \in Int /\ f[y] \in Int /\ rest \in Int
  BY <1>4, <1>7, <1>8, <1>9
<1> HIDE DEF rest
<1>11. Sum(s) = f[x] + Sum(s \ {x})
  BY <1>10
<1>12. QED
  BY <1>3, <1>11

(* Sums of the same numbers, and of differences.                           *)
LEMMA SumsAdd ==
  ASSUME NEW S, IsFiniteSet(S), NEW f, NEW g, NEW h,
         \A x \in S : f[x] \in Int /\ g[x] \in Int /\ h[x] = f[x] + g[x]
  PROVE  SumFunctionOnSet(h, S) = SumFunctionOnSet(f, S) + SumFunctionOnSet(g, S)
<1> DEFINE F(s) == SumFunctionOnSet(f, s)
           G(s) == SumFunctionOnSet(g, s)
           H(s) == SumFunctionOnSet(h, s)
           Bad == {s \in SUBSET S : H(s) # F(s) + G(s)}
<1>0. \A s \in SUBSET S : IsFiniteSet(s) /\ F(s) \in Int /\ G(s) \in Int /\ H(s) \in Int
  BY FS_Subset, SumOfInts
<1>1. SUFFICES ASSUME Bad # {} PROVE FALSE
  OBVIOUS
<1>2. PICK s \in Bad : \A r \in Bad : r \subseteq s => r = s
  <2>1. Bad \in SUBSET SUBSET S
    OBVIOUS
  <2> HIDE DEF Bad
  <2>2. QED
    BY <1>1, <2>1, SmallestSet
<1>3. s # {}
  <2>1. F({}) = 0 /\ G({}) = 0 /\ H({}) = 0
    BY SumOfNone
  <2>2. {} \notin Bad
    BY <2>1
  <2>3. QED
    BY <1>2, <2>2
<1>4. PICK x \in s : TRUE
  BY <1>3
<1>5. /\ F(s) = f[x] + F(s \ {x})
      /\ G(s) = g[x] + G(s \ {x})
      /\ H(s) = h[x] + H(s \ {x})
  BY <1>0, SumTakesOut
<1> HIDE DEF F, G, H
<1>6. H(s \ {x}) = F(s \ {x}) + G(s \ {x})
  BY <1>2
<1>7. /\ F(s \ {x}) \in Int /\ G(s \ {x}) \in Int
      /\ f[x] \in Int /\ g[x] \in Int /\ h[x] = f[x] + g[x]
  BY <1>0
<1>8. QED
  BY <1>2, <1>5, <1>6, <1>7

(* Sums of the same numbers, of nothing but noughts, of one number and of  *)
(* two.                                                                    *)
LEMMA SumOfZeros ==
  ASSUME NEW S, IsFiniteSet(S), NEW f, \A x \in S : f[x] = 0
  PROVE  SumFunctionOnSet(f, S) = 0
<1> DEFINE Bad == {s \in SUBSET S : SumFunctionOnSet(f, s) # 0}
<1>1. SUFFICES ASSUME Bad # {} PROVE FALSE
  OBVIOUS
<1>2. PICK s \in Bad : \A r \in Bad : r \subseteq s => r = s
  <2>1. Bad \in SUBSET SUBSET S
    OBVIOUS
  <2> HIDE DEF Bad
  <2>2. QED
    BY <1>1, <2>1, SmallestSet
<1>3. s # {}
  BY SumOfNone
<1>4. PICK x \in s : SumFunctionOnSet(f, s) = f[x] + SumFunctionOnSet(f, s \ {x})
  BY <1>3, FS_Subset, SumOfSome
<1>5. SumFunctionOnSet(f, s \ {x}) = 0
  BY <1>2
<1>6. QED
  BY <1>4, <1>5

LEMMA SumsAgree ==
  ASSUME NEW S, IsFiniteSet(S), NEW f, NEW g, \A x \in S : f[x] \in Int /\ g[x] = f[x]
  PROVE  SumFunctionOnSet(g, S) = SumFunctionOnSet(f, S)
<1> DEFINE z == [x \in S |-> 0]
<1>1. SumFunctionOnSet(g, S) = SumFunctionOnSet(f, S) + SumFunctionOnSet(z, S)
  <2>1. \A x \in S : f[x] \in Int /\ z[x] \in Int /\ g[x] = f[x] + z[x]
    OBVIOUS
  <2> HIDE DEF z
  <2>2. QED
    BY <2>1, SumsAdd
<1>2. SumFunctionOnSet(z, S) = 0
  BY SumOfZeros
<1>3. SumFunctionOnSet(f, S) \in Int
  BY SumOfInts
<1>4. QED
  BY <1>1, <1>2, <1>3

LEMMA SumOfOne ==
  ASSUME NEW S, IsFiniteSet(S), NEW f, NEW e \in S, f[e] \in Int, \A x \in S \ {e} : f[x] = 0
  PROVE  SumFunctionOnSet(f, S) = f[e]
<1>1. SumFunctionOnSet(f, S) = f[e] + SumFunctionOnSet(f, S \ {e})
  BY SumTakesOut
<1>2. SumFunctionOnSet(f, S \ {e}) = 0
  BY FS_Subset, SumOfZeros
<1>3. QED
  BY <1>1, <1>2

LEMMA SumOfTwo ==
  ASSUME NEW S, IsFiniteSet(S), NEW f, NEW d \in S, NEW e \in S, d # e,
         f[d] \in Int, f[e] \in Int, \A x \in S \ {d, e} : f[x] = 0
  PROVE  SumFunctionOnSet(f, S) = f[d] + f[e]
<1>1. SumFunctionOnSet(f, S) = f[d] + SumFunctionOnSet(f, S \ {d})
  BY SumTakesOut
<1>2. SumFunctionOnSet(f, S \ {d}) = f[e]
  <2>1. IsFiniteSet(S \ {d}) /\ e \in S \ {d} /\ \A x \in (S \ {d}) \ {e} : f[x] = 0
    BY FS_Subset
  <2>2. QED
    BY <2>1, SumOfOne
<1>3. QED
  BY <1>1, <1>2

LEMMA SumOfNats ==
  ASSUME NEW S, IsFiniteSet(S), NEW f, \A x \in S : f[x] \in Nat
  PROVE  /\ SumFunctionOnSet(f, S) \in Nat
         /\ SumFunctionOnSet(f, S) # 0 => S # {}
<1> DEFINE Bad == {s \in SUBSET S : SumFunctionOnSet(f, s) \notin Nat}
<1>1. SUFFICES ASSUME Bad # {} PROVE FALSE
  BY SumOfNone
<1>2. PICK s \in Bad : \A r \in Bad : r \subseteq s => r = s
  <2>1. Bad \in SUBSET SUBSET S
    OBVIOUS
  <2> HIDE DEF Bad
  <2>2. QED
    BY <1>1, <2>1, SmallestSet
<1>3. s # {}
  BY SumOfNone
<1>4. PICK x \in s : SumFunctionOnSet(f, s) = f[x] + SumFunctionOnSet(f, s \ {x})
  BY <1>3, FS_Subset, SumOfSome
<1>5. SumFunctionOnSet(f, s \ {x}) \in Nat
  BY <1>2
<1>6. QED
  BY <1>4, <1>5

(* A sum over a union of sets that have nothing in common.                 *)
LEMMA SumOfUnion ==
  ASSUME NEW S, IsFiniteSet(S), NEW R \in SUBSET S, NEW f, \A x \in S : f[x] \in Int
  PROVE  SumFunctionOnSet(f, S) = SumFunctionOnSet(f, R) + SumFunctionOnSet(f, S \ R)
<1> DEFINE Sum(s) == SumFunctionOnSet(f, s)
           Bad == {s \in SUBSET R : Sum(s \cup (S \ R)) # Sum(s) + Sum(S \ R)}
<1> HIDE DEF Sum
<1>0. \A s \in SUBSET S : IsFiniteSet(s) /\ Sum(s) \in Int
  BY FS_Subset, SumOfInts DEF Sum
<1>1. SUFFICES ASSUME Bad # {} PROVE FALSE
  <2>1. R \cup (S \ R) = S
    OBVIOUS
  <2>2. QED
    BY <2>1 DEF Sum
<1>2. PICK s \in Bad : \A r \in Bad : r \subseteq s => r = s
  <2>1. Bad \in SUBSET SUBSET R /\ IsFiniteSet(R)
    BY <1>0
  <2> HIDE DEF Bad
  <2>2. QED
    BY <1>1, <2>1, SmallestSet
<1>3. s # {}
  <2>1. Sum({}) = 0 /\ Sum(S \ R) \in Int /\ {} \cup (S \ R) = S \ R
    BY <1>0, SumOfNone DEF Sum
  <2>2. {} \notin Bad
    BY <2>1
  <2>3. QED
    BY <1>2, <2>2
<1>4. PICK x \in s : TRUE
  BY <1>3
<1> DEFINE u == s \cup (S \ R)
           v == (s \ {x}) \cup (S \ R)
<1>5. u \ {x} = v /\ x \in u /\ u \in SUBSET S /\ s \in SUBSET S
  OBVIOUS
<1>6. Sum(u) = f[x] + Sum(v) /\ Sum(s) = f[x] + Sum(s \ {x})
  <2>1. Sum(u) = f[x] + Sum(u \ {x})
    BY <1>0, <1>5, SumTakesOut DEF Sum
  <2>2. Sum(s) = f[x] + Sum(s \ {x})
    BY <1>0, <1>5, SumTakesOut DEF Sum
  <2>3. QED
    BY <1>5, <2>1, <2>2
<1>7. Sum(v) = Sum(s \ {x}) + Sum(S \ R)
  <2>1. s \ {x} \in SUBSET R /\ s \ {x} \subseteq s /\ s \ {x} # s
    OBVIOUS
  <2>2. s \ {x} \notin Bad
    BY <1>2, <2>1
  <2>3. QED
    BY <2>1, <2>2
<1>8. f[x] \in Int /\ Sum(s \ {x}) \in Int /\ Sum(S \ R) \in Int /\ Sum(u) # Sum(s) + Sum(S \ R)
  BY <1>0, <1>2
<1> HIDE DEF u, v
<1>9. QED
  BY <1>6, <1>7, <1>8

-----------------------------------------------------------------------------
(* Operators                                                               *)

(* A request's own fields are what they should be.                         *)
LEMMA JobFields ==
  ASSUME NEW t \in Requests
  PROVE  /\ Job[t].kind \in Keyed \cup Spends \cup Resolves
         /\ Job[t].from \in Accounts /\ Job[t].to \in Accounts
         /\ Job[t].amount \in Nat \ {0} /\ Job[t].bought \in Nat \ {0}
         /\ Job[t].key \in Keys /\ Job[t].hold \in Requests
  BY JobAssumption

(* What holds keep on a row is a number, and is none if no hold is on it.  *)
LEMMA KeptIsNat ==
  ASSUME NEW hs \in SUBSET Requests, NEW a \in Accounts
  PROVE  /\ Kept(hs, a) \in Nat
         /\ Kept(hs, a) # 0 => \E h \in hs : Job[h].from = a
<1> DEFINE On == {g \in hs : Job[g].from = a}
           f  == [h \in On |-> Job[h].amount]
<1>1. IsFiniteSet(On)
  BY FS_Subset, RequestsAssumption
<1>2. \A h \in On : f[h] \in Nat
  BY JobFields
<1>3. Kept(hs, a) = SumFunctionOnSet(f, On)
  BY DEF Kept, SumFunction
<1> HIDE DEF f
<1>4. QED
  <2>1. SumFunctionOnSet(f, On) \in Nat /\ (SumFunctionOnSet(f, On) # 0 => On # {})
    <3> HIDE DEF On
    <3>1. QED
      BY <1>1, <1>2, SumOfNats
  <2>2. QED
    BY <1>3, <2>1

(* Holds taken out of others take what they keep with them.                *)
LEMMA KeptSplits ==
  ASSUME NEW hs \in SUBSET Requests, NEW gone \in SUBSET hs, NEW a \in Accounts
  PROVE  Kept(hs, a) = Kept(gone, a) + Kept(hs \ gone, a)
<1> DEFINE On(s) == {g \in s : Job[g].from = a}
           f(s)  == [h \in On(s) |-> Job[h].amount]
           all   == [h \in Requests |-> Job[h].amount]
<1>1. ASSUME NEW s \in SUBSET Requests
      PROVE  Kept(s, a) = SumFunctionOnSet(all, On(s))
  <2>1. Kept(s, a) = SumFunctionOnSet(f(s), On(s))
    BY DEF Kept, SumFunction
  <2>2. IsFiniteSet(On(s)) /\ \A h \in On(s) : all[h] \in Int /\ f(s)[h] = all[h]
    BY FS_Subset, RequestsAssumption, JobFields
  <2> HIDE DEF f, all, On
  <2>3. SumFunctionOnSet(f(s), On(s)) = SumFunctionOnSet(all, On(s))
    BY <2>2, SumsAgree
  <2>4. QED
    BY <2>1, <2>3
<1>2. /\ IsFiniteSet(On(hs)) /\ On(gone) \in SUBSET On(hs)
      /\ On(hs) \ On(gone) = On(hs \ gone)
      /\ \A h \in On(hs) : all[h] \in Int
  BY FS_Subset, RequestsAssumption, JobFields
<1>3. gone \in SUBSET Requests /\ hs \ gone \in SUBSET Requests
  OBVIOUS
<1> HIDE DEF On, all
<1>4. SumFunctionOnSet(all, On(hs))
        = SumFunctionOnSet(all, On(gone)) + SumFunctionOnSet(all, On(hs) \ On(gone))
  BY <1>2, SumOfUnion
<1>5. QED
  BY <1>1, <1>2, <1>3, <1>4

LEMMA KeptOfOne ==
  ASSUME NEW h \in Requests, NEW a \in Accounts
  PROVE  Kept({h}, a) = IF Job[h].from = a THEN Job[h].amount ELSE 0
<1> DEFINE On == {g \in {h} : Job[g].from = a}
           f  == [g \in On |-> Job[g].amount]
<1>1. Kept({h}, a) = SumFunctionOnSet(f, On)
  BY DEF Kept, SumFunction
<1>2. CASE Job[h].from = a
  <2>1. On = {h} /\ f[h] = Job[h].amount /\ Job[h].amount \in Int
    BY <1>2, JobFields
  <2>2. IsFiniteSet({h})
    BY FS_Singleton
  <2> HIDE DEF f, On
  <2>3. SumFunctionOnSet(f, {h}) = f[h]
    BY <2>1, <2>2, SumOfOne
  <2>4. QED
    BY <1>1, <1>2, <2>1, <2>3
<1>3. CASE Job[h].from # a
  <2>1. On = {}
    BY <1>3
  <2> HIDE DEF f, On
  <2>2. QED
    BY <1>1, <1>3, <2>1, SumOfNone
<1>4. QED
  BY <1>2, <1>3

(* Balances move by whole amounts, and only on rows the request needs.     *)
LEMMA Moves ==
  ASSUME NEW t \in Requests, NEW a \in Accounts, picked[t] \in SUBSET Requests
  PROVE  /\ In(t, a) \in Nat /\ Out(t, a) \in Nat /\ Reserve(t, a) \in Int
         /\ In(t, a) # 0 \/ Out(t, a) # 0 \/ Reserve(t, a) # 0 => a \in Needs(t, picked[t])
<1> DEFINE K == Kept(picked[t], a)
<1>1. K \in Nat /\ (K # 0 => \E h \in picked[t] : Job[h].from = a)
  BY KeptIsNat
<1>2. Job[t].kind \in Resolves /\ K # 0 => a \in Needs(t, picked[t])
  BY <1>1 DEF Needs
<1> HIDE DEF K
<1>3. Kept(picked[t], a) = K
  BY DEF K
<1>4. /\ In(t, a) \in Nat
      /\ In(t, a) # 0 => a \in Needs(t, picked[t])
  BY <1>1, <1>2, <1>3, JobFields DEF In, Needs, Payee, Swapped, Credited, Resolves, Spends, Keyed
<1>5. /\ Out(t, a) \in Nat
      /\ Out(t, a) # 0 => a \in Needs(t, picked[t])
  BY JobFields DEF Out, Needs, Payer, Swapped, Credited, Resolves, Spends, Keyed
<1>6. /\ Reserve(t, a) \in Int
      /\ Reserve(t, a) # 0 => a \in Needs(t, picked[t])
  BY <1>1, <1>2, <1>3, JobFields DEF Reserve, Needs, Credited, Resolves, Spends, Keyed
<1>7. QED
  BY <1>4, <1>5, <1>6

LEMMA NeedsAccounts ==
  ASSUME NEW t \in Requests, NEW hs \in SUBSET Requests
  PROVE  Needs(t, hs) \subseteq Accounts
  BY JobFields DEF Needs, Credited

(* A request asks for a row it has not passed, or for none if none is left.*)
LEMMA Follows ==
  ASSUME NEW t \in Requests, NEW rest \in SUBSET Accounts, NEW a \in Follow(t, rest)
  PROVE  /\ a \in Accounts \cup {NoAccount}
         /\ a = NoAccount => rest = {}
         /\ a # NoAccount => a \in rest
  BY AccountsAssumption DEF Follow
-----------------------------------------------------------------------------
(* What a step leaves alone                                                *)

(* A step of t is a step of t only: it changes no other request, and of    *)
(* the locks only those t has.                                             *)
OthersKeep(t) ==
  /\ \A u \in Requests \ {t} :
       /\ pc'[u] = pc[u] /\ picked'[u] = picked[u] /\ passed'[u] = passed[u]
       /\ fresh'[u] = fresh[u] /\ seen'[u] = seen[u] /\ next'[u] = next[u]
  /\ \A a \in Accounts : \A u \in Requests \ {t} : owner'[a] = u <=> owner[a] = u

(* The ways a step changes the requests' own state.                        *)
Begins(t)  == /\ pc[t] = "start"
              /\ UNCHANGED balances
              /\ \E hs \in SUBSET {h \in Requests : hold[h] = "active"} :
                   Begin(t, hs) /\ (hs # {} => Job[t].kind \in Resolves)
Replays(t) == /\ pc[t] = "start" /\ Job[t].kind \in Keyed /\ EntryKeys(t, {}) \subseteq keys
              /\ UNCHANGED balances /\ Finish(t, "replayed")
Ending(t)  == /\ pc[t] \in {"start", "locking"}
              /\ UNCHANGED balances
              /\ \E how \in {"refused", "aborted"} : Finish(t, how)

LEMMA StepKinds ==
  ASSUME TypeOK, NEW t \in Requests, Step(t)
  PROVE  Begins(t) \/ Replays(t) \/ Ending(t) \/ Lock(t) \/ Fail(t) \/ Apply(t)
<1>1. CASE Look(t)
  BY <1>1 DEF Look, Begins, Replays
<1>2. CASE ReadHold(t)
  <2>1. Job[t].hold \in Requests
    BY JobFields
  <2>2. QED
    BY <1>2, <2>1 DEF ReadHold, Begins, Ending, Resolves
<1>3. CASE Refuse(t)
  BY <1>3 DEF Refuse, Ending
<1>4. CASE Abort(t)
  BY <1>4 DEF Abort, InDeadlock, Blocked, Ending
<1>5. QED
  BY <1>1, <1>2, <1>3, <1>4 DEF Step

OwnFieldsTyped ==
  /\ pc \in [Requests -> {"start", "locking"} \cup Ends]
  /\ picked \in [Requests -> SUBSET Requests]
  /\ \A t \in Requests : picked[t] # {} => Job[t].kind \in Resolves
  /\ passed \in [Requests -> SUBSET Accounts]
  /\ fresh \in [Requests -> SUBSET Accounts]
  /\ seen \in [Requests -> [Accounts -> Int \X Int]]
  /\ next \in [Requests -> Accounts \cup {NoAccount}]
  /\ owner \in [Accounts -> Requests \cup {NoOne}]

(* The end of a request, field by field.                                   *)
LEMMA Finished ==
  ASSUME TypeOK, NEW t \in Requests, NEW how \in Ends, Finish(t, how)
  PROVE  /\ OwnFieldsTyped'
         /\ pc' = [pc EXCEPT ![t] = how]
         /\ picked'[t] = IF how = "applied" THEN picked[t] ELSE {}
         /\ passed'[t] = {} /\ fresh'[t] = {} /\ seen'[t] = Nothing
         /\ \A a \in Accounts : owner'[a] # t /\ (owner[a] # t => owner'[a] = owner[a])
         /\ OthersKeep(t)
<1>1. Nothing \in [Accounts -> Int \X Int]
  BY DEF Nothing
<1>2. \A a \in Accounts : owner'[a] # t /\ (owner[a] # t => owner'[a] = owner[a])
  BY RequestsAssumption DEF Finish, Unlock
<1>3. owner' \in [Accounts -> Requests \cup {NoOne}]
  BY DEF Finish, Unlock, TypeOK
<1>4. \A a \in Accounts : \A u \in Requests \ {t} : owner'[a] = u <=> owner[a] = u
  BY <1>2, RequestsAssumption DEF Finish, Unlock
<1>5. QED
  BY <1>1, <1>2, <1>3, <1>4 DEF Finish, Close, TypeOK, OthersKeep, OwnFieldsTyped

LEMMA StepOfOne ==
  ASSUME TypeOK, NEW t \in Requests, Step(t)
  PROVE  OthersKeep(t)
<1>1. CASE Begins(t)
  BY <1>1 DEF Begins, Begin, OthersKeep, TypeOK
<1>2. CASE \E how \in Ends : Finish(t, how)
  BY <1>2, Finished
<1>3. CASE Lock(t)
  <2>1. next[t] \in Accounts
    BY <1>3 DEF Lock, TypeOK
  <2>2. \A a \in Accounts : \A u \in Requests \ {t} : owner'[a] = u <=> owner[a] = u
    BY <1>3, <2>1, RequestsAssumption DEF Lock, Lockable, TypeOK
  <2>3. QED
    BY <1>3, <2>2 DEF Lock, OthersKeep, TypeOK
<1>4. QED
  BY <1>1, <1>2, <1>3, StepKinds DEF Replays, Ending, Fail, Apply, Ends
-----------------------------------------------------------------------------
(* Types                                                                   *)

LEMMA TypeInit == Init => TypeOK
  BY AccountsAssumption, RequestsAssumption DEF Init, TypeOK, Nothing

(* A lock whose owner does not step, or goes on locking, is still backed.  *)
LEMMA OwnersLock ==
  ASSUME TypeOK, NEW t \in Requests, Step(t)
  PROVE  \A a \in Accounts : owner'[a] = NoOne \/ pc'[owner'[a]] = "locking"
<1> SUFFICES ASSUME NEW a \in Accounts, owner'[a] # NoOne
             PROVE  pc'[owner'[a]] = "locking"
  OBVIOUS
<1>1. OthersKeep(t)
  BY StepOfOne
<1>2. CASE owner'[a] = t
  <2>1. CASE Begins(t)
    BY <1>2, <2>1, RequestsAssumption DEF Begins, Begin, TypeOK
  <2>2. CASE Lock(t)
    BY <1>2, <2>2 DEF Lock, TypeOK
  <2>3. ASSUME NEW how \in Ends, Finish(t, how) PROVE FALSE
    BY <1>2, <2>3, Finished
  <2>4. QED
    BY <2>1, <2>2, <2>3, StepKinds DEF Replays, Ending, Fail, Apply, Ends
<1>3. CASE owner'[a] # t
  <2>1. owner'[a] \in Requests
    <3>1. owner' \in [Accounts -> Requests \cup {NoOne}]
      <4>1. CASE \E how \in Ends : Finish(t, how)
        BY <4>1, Finished DEF OwnFieldsTyped
      <4>2. CASE Begins(t) \/ Lock(t)
        BY <4>2 DEF Begins, Begin, Lock, TypeOK
      <4>3. QED
        BY <4>1, <4>2, StepKinds DEF Replays, Ending, Fail, Apply, Ends
    <3>2. QED
      BY <3>1
  <2>2. owner[a] = owner'[a]
    BY <1>1, <1>3, <2>1 DEF OthersKeep
  <2>3. pc'[owner'[a]] = pc[owner[a]]
    BY <1>1, <1>3, <2>1, <2>2 DEF OthersKeep
  <2>4. QED
    BY <2>2, <2>3 DEF TypeOK
<1>4. QED
  BY <1>2, <1>3

LEMMA KeysTyped ==
  ASSUME NEW t \in Requests, NEW hs \in SUBSET Requests
  PROVE  EntryKeys(t, hs) \subseteq EntryKeys(t, Requests)
  BY DEF EntryKeys

LEMMA TypeStep ==
  ASSUME TypeOK, NEW t \in Requests, Step(t)
  PROVE  TypeOK'
<1>1. \A a \in Accounts : owner'[a] = NoOne \/ pc'[owner'[a]] = "locking"
  BY OwnersLock
<1>2. CASE Begins(t)
  <2>1. PICK hs \in SUBSET {h \in Requests : hold[h] = "active"} :
                  Begin(t, hs) /\ (hs # {} => Job[t].kind \in Resolves)
    BY <1>2 DEF Begins
  <2>2. hs \in SUBSET Requests /\ Needs(t, hs) \in SUBSET Accounts
    BY NeedsAccounts
  <2>3. next' \in [Requests -> Accounts \cup {NoAccount}]
    <3>1. PICK a \in Follow(t, Needs(t, hs)) : next' = [next EXCEPT ![t] = a]
      BY <2>1 DEF Begin
    <3>2. a \in Accounts \cup {NoAccount}
      BY <2>2, <3>1, Follows
    <3>3. QED
      BY <3>1, <3>2 DEF TypeOK
  <2>4. QED
    BY <1>1, <1>2, <2>1, <2>2, <2>3 DEF Begins, Begin, TypeOK, balances
<1>3. ASSUME UNCHANGED balances, NEW how \in Ends, Finish(t, how)
      PROVE  TypeOK'
  <2>1. OwnFieldsTyped'
    BY <1>3, Finished
  <2>2. QED
    BY <1>1, <1>3, <2>1 DEF OwnFieldsTyped, TypeOK, balances
<1>4. CASE Lock(t)
  <2>1. next[t] \in Accounts /\ picked[t] \in SUBSET Requests
    BY <1>4 DEF Lock, TypeOK
  <2>2. Needs(t, picked[t]) \ passed'[t] \in SUBSET Accounts
    BY <2>1, NeedsAccounts
  <2>3. next' \in [Requests -> Accounts \cup {NoAccount}]
    <3>1. PICK b \in Follow(t, Needs(t, picked[t]) \ passed'[t]) : next' = [next EXCEPT ![t] = b]
      BY <1>4 DEF Lock
    <3>2. b \in Accounts \cup {NoAccount}
      BY <2>2, <3>1, Follows
    <3>3. QED
      BY <3>1, <3>2 DEF TypeOK
  <2>4. passed' \in [Requests -> SUBSET Accounts] /\ fresh' \in [Requests -> SUBSET Accounts]
    <3>1. /\ passed' = [passed EXCEPT ![t] = @ \cup {next[t]}]
          /\ fresh' = fresh \/ fresh' = [fresh EXCEPT ![t] = @ \cup {next[t]}]
      BY <1>4 DEF Lock
    <3>2. passed \in [Requests -> SUBSET Accounts] /\ fresh \in [Requests -> SUBSET Accounts]
      BY DEF TypeOK
    <3>3. QED
      BY <2>1, <3>1, <3>2
  <2>5. seen' \in [Requests -> [Accounts -> Int \X Int]]
    <3>1. <<available[next[t]], held[next[t]]>> \in Int \X Int
      BY <2>1 DEF TypeOK
    <3>2. \/ seen' = seen
          \/ seen' = [seen EXCEPT ![t][next[t]] = <<available[next[t]], held[next[t]]>>]
      BY <1>4 DEF Lock
    <3>3. seen \in [Requests -> [Accounts -> Int \X Int]]
      BY DEF TypeOK
    <3> DEFINE Pairs == Int \X Int
               row   == <<available[next[t]], held[next[t]]>>
    <3>4. row \in Pairs /\ seen \in [Requests -> [Accounts -> Pairs]]
      BY <3>1, <3>3
    <3>5. seen' = seen \/ seen' = [seen EXCEPT ![t][next[t]] = row]
      BY <3>2
    <3> HIDE DEF Pairs, row
    <3>6. seen' \in [Requests -> [Accounts -> Pairs]]
      BY <2>1, <3>4, <3>5
    <3>7. QED
      BY <3>6 DEF Pairs
  <2>6. owner' \in [Accounts -> Requests \cup {NoOne}]
    BY <1>4, <2>1 DEF Lock, TypeOK
  <2>7. QED
    BY <1>1, <1>4, <2>3, <2>4, <2>5, <2>6 DEF Lock, TypeOK, balances
<1>5. CASE Apply(t)
  <2>1. picked[t] \in SUBSET Requests
    BY DEF TypeOK
  <2>2. Finish(t, "applied") /\ "applied" \in Ends
    BY <1>5 DEF Apply, Ends
  <2>3. available' \in [Accounts -> Int] /\ held' \in [Accounts -> Int]
    <3>1. \A a \in Accounts : In(t, a) \in Nat /\ Out(t, a) \in Nat /\ Reserve(t, a) \in Int
      BY <2>1, Moves
    <3>2. QED
      BY <1>5, <3>1 DEF Apply, TypeOK
  <2>4. exists' \subseteq Accounts
    BY <1>5 DEF Apply, TypeOK
  <2>5. keys' \subseteq UNION {EntryKeys(u, Requests) : u \in Requests}
    <3>1. EntryKeys(t, picked[t]) \subseteq EntryKeys(t, Requests)
      BY <2>1, KeysTyped
    <3>2. keys' = keys \cup EntryKeys(t, picked[t])
      BY <1>5 DEF Apply
    <3>3. QED
      BY <3>1, <3>2 DEF TypeOK
  <2>6. hold' \in [Requests -> {"none", "active", "released", "captured", "expired"}]
    <3>1. hold' = [h \in Requests |-> CASE h \in picked[t] -> Resolution[Job[t].kind]
                                         [] h = t /\ Job[t].kind = "hold" -> "active"
                                         [] OTHER -> hold[h]]
      BY <1>5 DEF Apply
    <3>2. picked[t] # {} => Job[t].kind \in Resolves
      BY DEF TypeOK
    <3>3. QED
      BY <3>1, <3>2 DEF Resolution, Resolves, TypeOK
  <2>7. QED
    <3>1. OwnFieldsTyped'
      BY <2>2, Finished
    <3>2. QED
      BY <1>1, <2>3, <2>4, <2>5, <2>6, <3>1 DEF TypeOK, OwnFieldsTyped
<1>6. QED
  BY <1>2, <1>3, <1>4, <1>5, StepKinds DEF Replays, Ending, Fail, Ends
(* Every variable keeps its type, and no lock outlives its transaction.    *)
THEOREM TypeCorrect == Spec => []TypeOK
<1>1. TypeOK /\ [Next]_vars => TypeOK'
  <2> SUFFICES ASSUME TypeOK, [Next]_vars PROVE TypeOK'
    OBVIOUS
  <2>1. CASE UNCHANGED vars
    BY <2>1 DEF vars, TypeOK
  <2>2. QED
    BY <2>1, TypeStep DEF Next
<1>2. QED
  BY <1>1, TypeInit, PTL DEF Spec

-----------------------------------------------------------------------------
(* What locks are good for                                                 *)

(* A locking request has passed, or is at, every row it needs.             *)
Covers(t) ==
  pc[t] = "locking" =>
    /\ next[t] = NoAccount => Needs(t, picked[t]) \subseteq passed[t]
    /\ next[t] # NoAccount => next[t] \in Needs(t, picked[t]) \ passed[t]

(* A row it passed is its own, as it read it, or was not there.            *)
Backed(t) ==
  /\ fresh[t] \subseteq passed[t]
  /\ pc[t] # "locking" => passed[t] = {}
  /\ \A a \in Accounts :
       /\ owner[a] = t <=> a \in passed[t] \ fresh[t]
       /\ owner[a] = t => a \in exists /\ seen[t][a] = <<available[a], held[a]>>
       /\ owner[a] # t => seen[t][a] = <<0, 0>>

Locked == \A t \in Requests : Covers(t) /\ Backed(t)

LEMMA LockedInit == Init => Locked
  BY RequestsAssumption DEF Init, Locked, Covers, Backed, Nothing

(* Whoever moves a balance holds its row, or has just created it.          *)
LEMMA MoversHold ==
  ASSUME TypeOK, Locked, NEW t \in Requests, Apply(t), NEW a \in Accounts,
         available'[a] # available[a] \/ held'[a] # held[a]
  PROVE  a \notin exists \/ owner[a] = t
<1>1. picked[t] \in SUBSET Requests /\ available[a] \in Int /\ held[a] \in Int
  BY DEF TypeOK
<1>2. /\ available'[a] = available[a] + In(t, a) - Out(t, a)
      /\ held'[a] = held[a] + Reserve(t, a)
  BY DEF Apply
<1>3. /\ In(t, a) \in Nat /\ Out(t, a) \in Nat /\ Reserve(t, a) \in Int
      /\ In(t, a) # 0 \/ Out(t, a) # 0 \/ Reserve(t, a) # 0 => a \in Needs(t, picked[t])
  BY <1>1, Moves
<1>4. a \in Needs(t, picked[t])
  BY <1>1, <1>2, <1>3
<1>5. a \in passed[t]
  BY <1>4 DEF Apply, Locked, Covers
<1>6. a \in fresh[t] => a \notin exists
  BY DEF Apply, RowTaken
<1>7. QED
  BY <1>5, <1>6 DEF Locked, Backed

(* A step leaves alone the rows others hold.                               *)
LEMMA HeldRowsStand ==
  ASSUME TypeOK, Locked, NEW t \in Requests, Step(t),
         NEW u \in Requests \ {t}, NEW a \in Accounts, owner[a] = u
  PROVE  a \in exists' /\ available'[a] = available[a] /\ held'[a] = held[a]
<1>1. a \in exists
  BY DEF Locked, Backed
<1>2. CASE Apply(t)
  BY <1>1, <1>2, MoversHold DEF Apply
<1>3. QED
  BY <1>1, <1>2, StepKinds DEF Begins, Replays, Ending, Lock, Fail, balances

LEMMA OthersStayLocked ==
  ASSUME TypeOK, Locked, NEW t \in Requests, Step(t), NEW u \in Requests \ {t}
  PROVE  Covers(u)' /\ Backed(u)'
<1>1. /\ pc'[u] = pc[u] /\ picked'[u] = picked[u] /\ passed'[u] = passed[u]
      /\ fresh'[u] = fresh[u] /\ seen'[u] = seen[u] /\ next'[u] = next[u]
      /\ \A a \in Accounts : owner'[a] = u <=> owner[a] = u
  BY StepOfOne DEF OthersKeep
<1>2. Covers(u) /\ Backed(u)
  BY DEF Locked
<1>3. Covers(u)'
  BY <1>1, <1>2 DEF Covers
<1>4. Backed(u)'
  BY <1>1, <1>2, HeldRowsStand DEF Backed
<1>5. QED
  BY <1>3, <1>4

LEMMA SelfStaysLocked ==
  ASSUME TypeOK, Locked, NEW t \in Requests, Step(t)
  PROVE  Covers(t)' /\ Backed(t)'
<1>1. Covers(t) /\ Backed(t)
  BY DEF Locked
<1>2. ASSUME NEW how \in Ends, Finish(t, how) PROVE Covers(t)' /\ Backed(t)'
  <2>1. /\ pc'[t] = how /\ how # "locking"
        /\ passed'[t] = {} /\ fresh'[t] = {} /\ seen'[t] = Nothing
        /\ \A a \in Accounts : owner'[a] # t
    BY <1>2, Finished DEF TypeOK, Ends
  <2>2. QED
    BY <2>1 DEF Covers, Backed, Nothing
<1>3. CASE Begins(t)
  <2>1. PICK hs \in SUBSET {h \in Requests : hold[h] = "active"} : Begin(t, hs)
    BY <1>3 DEF Begins
  <2>2. PICK a \in Follow(t, Needs(t, hs)) : next' = [next EXCEPT ![t] = a]
    BY <2>1 DEF Begin
  <2>3. Needs(t, hs) \in SUBSET Accounts
    BY NeedsAccounts
  <2>4. passed[t] = {}
    BY <1>1, <1>3 DEF Begins, Backed
  <2>5. picked'[t] = hs /\ passed'[t] = {} /\ next'[t] = a
    BY <2>1, <2>2, <2>4 DEF Begin, TypeOK
  <2>6. Covers(t)'
    BY <2>2, <2>3, <2>5, Follows DEF Covers
  <2>7. Backed(t)'
    BY <1>1, <1>3, <2>1, <2>4 DEF Begins, Begin, Backed, TypeOK, balances
  <2>8. QED
    BY <2>6, <2>7
<1>4. CASE Lock(t)
  <2> DEFINE a == next[t]
  <2>1. a \in Accounts /\ picked[t] \in SUBSET Requests /\ a \notin passed[t]
    BY <1>1, <1>4 DEF Lock, TypeOK, Covers
  <2>2. PICK b \in Follow(t, Needs(t, picked[t]) \ passed'[t]) : next' = [next EXCEPT ![t] = b]
    BY <1>4 DEF Lock
  <2>3. Needs(t, picked[t]) \ passed'[t] \in SUBSET Accounts
    BY <2>1, NeedsAccounts
  <2>4. /\ passed'[t] = passed[t] \cup {a} /\ next'[t] = b /\ picked'[t] = picked[t]
        /\ pc'[t] = "locking" /\ UNCHANGED balances
    BY <1>4, <2>2 DEF Lock, TypeOK
  <2>5. Covers(t)'
    BY <2>2, <2>3, <2>4, Follows DEF Covers
  <2>6. CASE /\ a \in exists /\ owner' = [owner EXCEPT ![a] = t] /\ fresh' = fresh
             /\ seen' = [seen EXCEPT ![t][a] = <<available[a], held[a]>>]
    <3>1. /\ owner'[a] = t /\ \A c \in Accounts \ {a} : owner'[c] = owner[c]
          /\ seen'[t][a] = <<available[a], held[a]>>
          /\ \A c \in Accounts \ {a} : seen'[t][c] = seen[t][c]
      BY <2>1, <2>6 DEF TypeOK
    <3>2. QED
      BY <1>1, <2>1, <2>4, <2>5, <2>6, <3>1 DEF Backed, balances
  <2>7. CASE fresh'[t] = fresh[t] \cup {a} /\ UNCHANGED <<owner, seen>>
    BY <1>1, <2>1, <2>4, <2>5, <2>7 DEF Backed, balances
  <2>8. QED
    BY <1>4, <2>6, <2>7 DEF Lock, TypeOK
<1>5. QED
  BY <1>2, <1>3, <1>4, StepKinds DEF Replays, Ending, Fail, Apply, Ends
LEMMA LockedStep == TypeOK /\ Locked /\ [Next]_vars => Locked'
<1> SUFFICES ASSUME TypeOK, Locked, [Next]_vars PROVE Locked'
  OBVIOUS
<1>1. CASE UNCHANGED vars
  BY <1>1 DEF vars, Locked, Covers, Backed
<1>2. ASSUME NEW t \in Requests, Step(t) PROVE Locked'
  BY <1>2, OthersStayLocked, SelfStaysLocked DEF Locked
<1>3. QED
  BY <1>1, <1>2 DEF Next

THEOREM LocksHold == Spec => []Locked
  BY LockedInit, LockedStep, TypeCorrect, PTL DEF Spec

LEMMA NeverStale ==
  ASSUME TypeOK, Locked, NEW t \in Requests
  PROVE  ~ Stale(t)
  BY DEF Stale, Locked, Backed, TypeOK

(* Locking before reading leaves the version check nothing to catch        *)
(* (WalletBalance's @Version): a request fails only where a unique index   *)
(* stops it.                                                               *)
THEOREM LocksPreventConflicts == Spec => FailsForCause
<1>1. TypeOK /\ Locked /\ [Next]_vars =>
        [\A t \in Requests : pc[t] # "failed" /\ pc'[t] = "failed" => KeyTaken(t) \/ RowTaken(t)]_vars
  <2> SUFFICES ASSUME TypeOK, Locked, NEW u \in Requests, Step(u), NEW t \in Requests,
                      pc[t] # "failed", pc'[t] = "failed"
               PROVE  KeyTaken(t) \/ RowTaken(t)
    BY DEF Next
  <2>1. t = u
    BY StepOfOne DEF OthersKeep
  <2>2. CASE Fail(u)
    BY <2>1, <2>2, NeverStale DEF Fail
  <2>3. CASE Begins(u) \/ Lock(u)
    BY <2>1, <2>3 DEF Begins, Begin, Lock, TypeOK
  <2>4. ASSUME NEW how \in Ends \ {"failed"}, Finish(u, how) PROVE FALSE
    BY <2>1, <2>4, Finished DEF TypeOK
  <2>5. QED
    BY <2>2, <2>3, <2>4, StepKinds DEF Replays, Ending, Apply, Ends
<1>2. QED
  BY <1>1, TypeCorrect, LocksHold, PTL DEF Spec, FailsForCause

(* A row nobody has inserted yet holds nothing.                            *)
UnbornEmpty == \A a \in Accounts \ exists : available[a] = 0

LEMMA UnbornStayEmpty ==
  ASSUME TypeOK, Locked, UnbornEmpty, [Next]_vars
  PROVE  UnbornEmpty'
<1> SUFFICES ASSUME NEW a \in Accounts, a \notin exists'
             PROVE  available'[a] = 0
  BY DEF UnbornEmpty
<1>1. CASE UNCHANGED vars
  BY <1>1 DEF vars, UnbornEmpty
<1>2. ASSUME NEW t \in Requests, Step(t) PROVE available'[a] = 0
  <2>1. CASE Apply(t)
    <3>1. picked[t] \in SUBSET Requests /\ available[a] = 0
      BY <2>1 DEF Apply, UnbornEmpty, TypeOK
    <3>2. a \notin passed[t]
      BY <2>1 DEF Apply, Locked, Backed
    <3>3. a \notin Needs(t, picked[t])
      BY <2>1, <3>2 DEF Apply, Locked, Covers
    <3>4. In(t, a) = 0 /\ Out(t, a) = 0
      BY <3>1, <3>3, Moves
    <3>5. QED
      BY <2>1, <3>1, <3>4 DEF Apply
  <2>2. QED
    BY <1>2, <2>1, StepKinds DEF Begins, Replays, Ending, Lock, Fail, balances, UnbornEmpty
<1>3. QED
  BY <1>1, <1>2 DEF Next

(* A transaction that requireFunds or lockBalance refuses would be refused *)
(* for the balances as they are at that moment, too: its row is locked, or *)
(* it has none yet.                                                        *)
THEOREM RefusalsAreJust == Spec => RefusedForCause
<1>1. TypeOK /\ Locked /\ UnbornEmpty /\ [Next]_vars =>
        [\A t \in Requests : pc[t] = "locking" /\ pc'[t] = "refused" =>
           \/ next[t] \in Accounts \ exists
           \/ available[Payer(t)] < Job[t].amount
           \/ RowTaken(t)]_vars
  <2> SUFFICES ASSUME TypeOK, Locked, UnbornEmpty, NEW u \in Requests, Step(u),
                      NEW t \in Requests, pc[t] = "locking", pc'[t] = "refused"
               PROVE  \/ next[t] \in Accounts \ exists
                      \/ available[Payer(t)] < Job[t].amount
                      \/ RowTaken(t)
    BY DEF Next
  <2>1. t = u
    BY StepOfOne DEF OthersKeep
  <2>2. CASE Refuse(t)
    <3>1. CASE next[t] \in Accounts \ (exists \cup Credited(t))
      BY <3>1
    <3>2. CASE next[t] = NoAccount /\ ~ Funds(t)
      <4> DEFINE a == Payer(t)
      <4>1. /\ Job[t].kind \in Spends /\ ~ (seen[t][a][1] >= Job[t].amount)
            /\ a \in Accounts /\ Job[t].amount \in Nat \ {0}
        BY <3>2, JobFields DEF Funds, Payer
      <4>2. a \in passed[t]
        BY <2>2, <3>2, <4>1, JobFields
           DEF Refuse, Locked, Covers, Needs, Credited, Payer, Swapped, Spends, Resolves
      <4>3. CASE a \in fresh[t]
        BY <4>1, <4>3 DEF RowTaken, UnbornEmpty
      <4>4. CASE a \notin fresh[t]
        <5>1. seen[t][a] = <<available[a], held[a]>>
          BY <4>1, <4>2, <4>4 DEF Locked, Backed
        <5>2. available[a] \in Int
          BY <4>1 DEF TypeOK
        <5>3. QED
          BY <4>1, <5>1, <5>2
      <4>5. QED
        BY <4>3, <4>4
    <3>3. QED
      BY <2>2, <3>1, <3>2 DEF Refuse
  <2>3. CASE Look(t) \/ ReadHold(t)
    BY <2>3 DEF Look, ReadHold
  <2>4. CASE Lock(t)
    BY <2>4 DEF Lock
  <2>5. ASSUME NEW how \in Ends \ {"refused"}, Finish(t, how) PROVE FALSE
    BY <2>5, Finished DEF TypeOK
  <2>6. QED
    BY <2>1, <2>2, <2>3, <2>4, <2>5 DEF Step, Fail, Apply, Abort, Ends
<1>2. Init => UnbornEmpty
  BY AccountsAssumption DEF Init, UnbornEmpty
<1>3. TypeOK /\ Locked /\ UnbornEmpty /\ [Next]_vars => UnbornEmpty'
  BY UnbornStayEmpty
<1>4. QED
  BY <1>1, <1>2, <1>3, TypeCorrect, LocksHold, PTL DEF Spec, RefusedForCause

(* No account is overdrawn (requireFunds): what a payment read of its row  *)
(* is what the row still holds.                                            *)
THEOREM NothingOverdrawn == Spec => []NoOverdraft
<1>1. Init => NoOverdraft
  BY AccountsAssumption DEF Init, NoOverdraft
<1>2. TypeOK /\ Locked /\ NoOverdraft /\ [Next]_vars => NoOverdraft'
  <2> SUFFICES ASSUME TypeOK, Locked, NoOverdraft, [Next]_vars, NEW a \in Accounts
               PROVE  available'[a] >= 0
    BY DEF NoOverdraft
  <2>1. available[a] \in Int /\ available[a] >= 0
    BY DEF TypeOK, NoOverdraft
  <2>2. CASE UNCHANGED vars
    BY <2>1, <2>2 DEF vars
  <2>3. ASSUME NEW t \in Requests, Step(t) PROVE available'[a] >= 0
    <3>1. CASE Apply(t)
      <4>1. available'[a] = available[a] + In(t, a) - Out(t, a)
        BY <3>1 DEF Apply
      <4>2. In(t, a) \in Nat /\ Out(t, a) \in Nat
        BY Moves DEF TypeOK
      <4>3. Out(t, a) <= available[a] \/ Out(t, a) = 0
        <5>1. CASE Job[t].kind \in Spends /\ a = Payer(t)
          <6>1. seen[t][a][1] >= Job[t].amount /\ Job[t].amount \in Nat \ {0}
            BY <3>1, <5>1, JobFields DEF Apply, Funds
          <6>2. CASE owner[a] = t
            BY <5>1, <6>1, <6>2 DEF Out, Locked, Backed
          <6>3. CASE owner[a] # t
            BY <6>1, <6>3 DEF Locked, Backed
          <6>4. QED
            BY <6>2, <6>3
        <5>2. QED
          BY <5>1 DEF Out
      <4>4. QED
        BY <2>1, <4>1, <4>2, <4>3
    <3>2. QED
      BY <2>1, <2>3, <3>1, StepKinds DEF Begins, Replays, Ending, Lock, Fail, balances
  <2>4. QED
    BY <2>2, <2>3 DEF Next
<1>3. QED
  BY <1>1, <1>2, TypeCorrect, LocksHold, PTL DEF Spec

-----------------------------------------------------------------------------
(* Keys                                                                    *)

(* The keys on file are those of the requests that were carried out.       *)
KeysOfApplied ==
  /\ \A t \in Applied : EntryKeys(t, picked[t]) \subseteq keys
  /\ \A k \in keys : \E t \in Applied : k \in EntryKeys(t, picked[t])

LEMMA ReplayHasOriginal ==
  ASSUME KeysOfApplied, NEW t \in Requests, Job[t].kind \in Keyed, EntryKeys(t, {}) \subseteq keys
  PROVE  \E u \in Applied : Job[u].kind \in Keyed /\ Job[u].key = Job[t].key
<1>1. <<"client", Job[t].key>> \in keys
  BY DEF EntryKeys, Keyed
<1>2. PICK u \in Applied : <<"client", Job[t].key>> \in EntryKeys(u, picked[u])
  BY <1>1 DEF KeysOfApplied
<1>3. CASE Job[u].kind \in Keyed
  BY <1>2, <1>3 DEF EntryKeys, Keyed
<1>4. CASE Job[u].kind \notin Keyed
  BY <1>2, <1>4, JobFields DEF EntryKeys, Applied, Keyed, Spends, Resolves
<1>5. QED
  BY <1>3, <1>4

(* Who was carried out stays so, with the holds it resolved.               *)
LEMMA AppliedStays ==
  ASSUME TypeOK, NEW t \in Requests, Step(t)
  PROVE  /\ Applied \subseteq Applied' /\ Applied' \subseteq Applied \cup {t}
         /\ \A u \in Applied : picked'[u] = picked[u]
<1>1. OthersKeep(t)
  BY StepOfOne
<1>2. t \notin Applied
  BY StepKinds DEF Begins, Replays, Ending, Lock, Fail, Apply, Applied
<1>3. QED
  BY <1>1, <1>2 DEF OthersKeep, Applied

LEMMA OnlyApplyApplies ==
  ASSUME TypeOK, NEW t \in Requests, Step(t), ~ Apply(t)
  PROVE  Applied' = Applied /\ keys' = keys
<1>1. pc'[t] # "applied" /\ keys' = keys
  <2>1. CASE Begins(t) \/ Lock(t)
    BY <2>1 DEF Begins, Begin, Lock, balances, TypeOK
  <2>2. CASE Replays(t)
    BY <2>2, Finished DEF Replays, Ends, balances, TypeOK
  <2>3. CASE Ending(t) \/ Fail(t)
    BY <2>3, Finished DEF Ending, Fail, Ends, balances, TypeOK
  <2>4. QED
    BY <2>1, <2>2, <2>3, StepKinds
<1>2. QED
  BY <1>1, AppliedStays DEF Applied

LEMMA OnlyReplaysReplay ==
  ASSUME TypeOK, NEW t \in Requests, Step(t),
         NEW u \in Requests, pc'[u] = "replayed", pc[u] # "replayed"
  PROVE  Job[u].kind \in Keyed /\ EntryKeys(u, {}) \subseteq keys
<1>1. u = t
  BY StepOfOne DEF OthersKeep
<1>2. CASE Begins(t) \/ Lock(t)
  BY <1>1, <1>2 DEF Begins, Begin, Lock, TypeOK
<1>3. CASE Replays(t)
  BY <1>1, <1>3 DEF Replays
<1>4. CASE Ending(t) \/ Fail(t) \/ Apply(t)
  BY <1>1, <1>4, Finished DEF Ending, Fail, Apply, Ends, TypeOK
<1>5. QED
  BY <1>2, <1>3, <1>4, StepKinds

LEMMA KeysStep ==
  ASSUME TypeOK, KeysOfApplied, EachKeyOnce, NEW t \in Requests, Step(t)
  PROVE  KeysOfApplied' /\ EachKeyOnce'
<1> DEFINE Mine == EntryKeys(t, picked[t])
<1>1. \A u \in Requests : pc'[u] = "replayed" =>
        \E v \in Applied' : Job[v].kind \in Keyed /\ Job[v].key = Job[u].key
  <2> SUFFICES ASSUME NEW u \in Requests, pc'[u] = "replayed"
               PROVE  \E v \in Applied : Job[v].kind \in Keyed /\ Job[v].key = Job[u].key
    BY AppliedStays
  <2>1. CASE pc[u] = "replayed"
    BY <2>1 DEF EachKeyOnce
  <2>2. CASE pc[u] # "replayed"
    BY <2>2, OnlyReplaysReplay, ReplayHasOriginal
  <2>3. QED
    BY <2>1, <2>2
<1>2. \A u \in Applied : picked'[u] = picked[u] /\ EntryKeys(u, picked[u]) \subseteq keys
  BY AppliedStays DEF KeysOfApplied
<1>3. \A u, v \in Applied : u # v => EntryKeys(u, picked[u]) \cap EntryKeys(v, picked[v]) = {}
  BY DEF EachKeyOnce
<1>4. CASE Apply(t)
  <2>1. keys' = keys \cup Mine /\ Mine \cap keys = {}
    BY <1>4 DEF Apply, KeyTaken
  <2>2. pc'[t] = "applied" /\ picked'[t] = picked[t]
    BY <1>4, Finished DEF Apply, Ends, TypeOK
  <2>3. Applied' = Applied \cup {t}
    BY <2>2, AppliedStays DEF Applied
  <2>4. \A u \in Applied' : EntryKeys(u, picked'[u]) \subseteq keys'
    BY <1>2, <2>1, <2>2, <2>3
  <2>5. \A k \in keys' : \E u \in Applied' : k \in EntryKeys(u, picked'[u])
    BY <1>2, <2>1, <2>2, <2>3 DEF KeysOfApplied
  <2>6. \A u \in Applied : EntryKeys(u, picked[u]) \cap Mine = {}
    BY <1>2, <2>1
  <2>7. \A u, v \in Applied' : u # v => EntryKeys(u, picked'[u]) \cap EntryKeys(v, picked'[v]) = {}
    BY <1>2, <1>3, <2>2, <2>3, <2>6
  <2>8. QED
    BY <1>1, <2>4, <2>5, <2>7 DEF KeysOfApplied, EachKeyOnce, EntryKeys
<1>5. CASE ~ Apply(t)
  <2>1. Applied' = Applied /\ keys' = keys
    BY <1>5, OnlyApplyApplies
  <2>2. \A u \in Applied' : EntryKeys(u, picked'[u]) \subseteq keys'
    BY <1>2, <2>1
  <2>3. \A k \in keys' : \E u \in Applied' : k \in EntryKeys(u, picked'[u])
    BY <1>2, <2>1 DEF KeysOfApplied
  <2>4. \A u, v \in Applied' : u # v => EntryKeys(u, picked'[u]) \cap EntryKeys(v, picked'[v]) = {}
    BY <1>2, <1>3, <2>1
  <2>5. QED
    BY <1>1, <2>2, <2>3, <2>4 DEF KeysOfApplied, EachKeyOnce, EntryKeys
<1>6. QED
  BY <1>4, <1>5

(* A key is spent once, and a repetition answers for something that was    *)
(* carried out (the dup check and uq_entry_tenant_idem).                   *)
THEOREM KeysSpentOnce == Spec => []EachKeyOnce
<1>1. Init => KeysOfApplied /\ EachKeyOnce
  BY DEF Init, KeysOfApplied, EachKeyOnce, Applied
<1>2. TypeOK /\ KeysOfApplied /\ EachKeyOnce /\ [Next]_vars => KeysOfApplied' /\ EachKeyOnce'
  <2> SUFFICES ASSUME TypeOK, KeysOfApplied, EachKeyOnce, [Next]_vars
               PROVE  KeysOfApplied' /\ EachKeyOnce'
    OBVIOUS
  <2>1. CASE UNCHANGED vars
    BY <2>1 DEF vars, KeysOfApplied, EachKeyOnce, Applied, EntryKeys
  <2>2. QED
    BY <2>1, KeysStep DEF Next
<1>3. QED
  BY <1>1, <1>2, TypeCorrect, PTL DEF Spec

-----------------------------------------------------------------------------
(* Books                                                                   *)

(* A capture under way is to resolve its one hold.                         *)
CapturesOne ==
  \A t \in Requests : pc[t] = "locking" /\ Job[t].kind = "capture" => picked[t] = {Job[t].hold}

LEMMA CapturesOneStep ==
  ASSUME TypeOK, CapturesOne, NEW t \in Requests, Step(t)
  PROVE  CapturesOne'
<1> SUFFICES ASSUME NEW u \in Requests, pc'[u] = "locking", Job[u].kind = "capture"
             PROVE  picked'[u] = {Job[u].hold}
  BY DEF CapturesOne
<1>1. CASE u # t
  BY <1>1, StepOfOne DEF OthersKeep, CapturesOne
<1>2. CASE u = t
  <2>1. CASE \E how \in Ends : Finish(t, how)
    BY <1>2, <2>1 DEF Finish, Close, Ends, TypeOK
  <2>2. CASE Lock(t)
    BY <1>2, <2>2 DEF Lock, CapturesOne
  <2>3. CASE Look(t)
    BY <1>2, <2>3 DEF Look, Keyed
  <2>4. CASE ReadHold(t)
    <3>1. Begin(t, {Job[t].hold}) \/ Finish(t, "refused")
      BY <1>2, <2>4 DEF ReadHold
    <3>2. QED
      BY <1>2, <2>1, <3>1 DEF Begin, TypeOK, Ends
  <2>5. QED
    BY <2>1, <2>2, <2>3, <2>4 DEF Step, Refuse, Fail, Apply, Abort, Ends
<1>3. QED
  BY <1>1, <1>2

(* What a request moves on all rows together is what it is worth: a        *)
(* capture takes its hold, and what one row of a transfer pays the other   *)
(* is paid, whichever way round.                                           *)
LEMMA MovesWorth ==
  ASSUME NEW t \in Requests, picked[t] \in SUBSET Requests,
         Job[t].kind = "capture" => picked[t] = {Job[t].hold}
  PROVE  SumFunctionOnSet([a \in Accounts |-> In(t, a) - Out(t, a) + Reserve(t, a)], Accounts)
           = Worth(t)
<1> DEFINE D == [a \in Accounts |-> In(t, a) - Out(t, a) + Reserve(t, a)]
<1>1. IsFiniteSet(Accounts)
  BY AccountsAssumption
<1>2. /\ Job[t].kind \in Keyed \cup Spends \cup Resolves
      /\ Job[t].from \in Accounts /\ Job[t].to \in Accounts
      /\ Job[t].amount \in Int /\ Job[t].bought \in Int /\ Job[t].hold \in Requests
      /\ Job[Job[t].hold].from \in Accounts /\ Job[Job[t].hold].amount \in Int
  BY JobFields
<1>3. \A a \in Accounts : Kept(picked[t], a) \in Int
  BY KeptIsNat
<1>4. CASE Job[t].kind = "credit"
  <2>1. D[Job[t].to] = Job[t].amount /\ \A a \in Accounts \ {Job[t].to} : D[a] = 0
    BY <1>2, <1>4 DEF In, Out, Reserve, Payee, Payer, Swapped, Spends, Resolves
  <2> HIDE DEF D
  <2>2. QED
    BY <1>1, <1>2, <1>4, <2>1, SumOfOne DEF Worth, D
<1>5. CASE Job[t].kind = "debit"
  <2>1. D[Job[t].from] = - Job[t].amount /\ \A a \in Accounts \ {Job[t].from} : D[a] = 0
    BY <1>2, <1>5 DEF In, Out, Reserve, Payee, Payer, Swapped, Spends, Resolves
  <2> HIDE DEF D
  <2>2. SumFunctionOnSet(D, Accounts) = D[Job[t].from]
    BY <1>1, <1>2, <2>1, SumOfOne
  <2>3. QED
    BY <1>5, <2>1, <2>2 DEF Worth, D
<1>6. CASE Job[t].kind = "hold"
  <2>1. \A a \in Accounts : D[a] = 0
    BY <1>2, <1>6 DEF In, Out, Reserve, Payee, Payer, Swapped, Spends, Resolves
  <2>2. SumFunctionOnSet(D, Accounts) = 0
    BY <1>1, <2>1, SumOfZeros
  <2>3. QED
    BY <1>6, <2>2 DEF Worth
<1>7. CASE Job[t].kind \in {"transfer", "convert"}
  <2> DEFINE paid == IF Job[t].kind = "convert" THEN Job[t].bought ELSE Job[t].amount
  <2>1. /\ Payee(t) \in Accounts /\ Payer(t) \in Accounts /\ Payee(t) # Payer(t)
        /\ paid \in Int /\ paid - Job[t].amount = Worth(t)
    BY <1>2, <1>7, JobAssumption DEF Payee, Payer, Swapped, Worth
  <2>2. \A a \in Accounts : In(t, a) = (IF a = Payee(t) THEN paid ELSE 0)
    BY <1>2, <1>7 DEF In
  <2>3. \A a \in Accounts : Out(t, a) = (IF a = Payer(t) THEN Job[t].amount ELSE 0)
    BY <1>2, <1>7 DEF Out, Spends
  <2>4. \A a \in Accounts : Reserve(t, a) = 0
    BY <1>2, <1>7 DEF Reserve, Resolves
  <2> HIDE DEF paid
  <2>5. /\ D[Payee(t)] = paid /\ D[Payer(t)] = - Job[t].amount
        /\ \A a \in Accounts \ {Payee(t), Payer(t)} : D[a] = 0
    BY <1>2, <2>1, <2>2, <2>3, <2>4
  <2> HIDE DEF D
  <2>6. D[Payee(t)] \in Int /\ D[Payer(t)] \in Int
    BY <1>2, <2>1, <2>5
  <2>7. SumFunctionOnSet(D, Accounts) = D[Payee(t)] + D[Payer(t)]
    BY <1>1, <2>1, <2>5, <2>6, SumOfTwo
  <2>8. QED
    BY <1>2, <2>1, <2>5, <2>7 DEF D
<1>8. CASE Job[t].kind \in {"release", "sweep"}
  <2>1. \A a \in Accounts : D[a] = 0
    BY <1>3, <1>8 DEF In, Out, Reserve, Spends, Resolves
  <2>2. SumFunctionOnSet(D, Accounts) = 0
    BY <1>1, <2>1, SumOfZeros
  <2>3. QED
    BY <1>8, <2>2 DEF Worth
<1>9. CASE Job[t].kind = "capture"
  <2> DEFINE h == Job[t].hold
  <2>0. picked[t] = {h}
    BY <1>9
  <2>1. ASSUME NEW a \in Accounts
        PROVE  D[a] = IF Job[h].from = a THEN - Job[h].amount ELSE 0
    <3>1. In(t, a) = 0 /\ Out(t, a) = 0
      BY <1>9 DEF In, Out, Spends
    <3>2. Reserve(t, a) = - Kept({h}, a)
      BY <1>9, <2>0 DEF Reserve, Resolves
    <3>3. Kept({h}, a) = IF Job[h].from = a THEN Job[h].amount ELSE 0
      BY <1>2, KeptOfOne
    <3>4. QED
      BY <1>2, <3>1, <3>2, <3>3
  <2>2. Worth(t) = - Job[h].amount
    BY <1>9 DEF Worth
  <2>3. /\ D[Job[h].from] = - Job[h].amount /\ D[Job[h].from] \in Int
        /\ \A a \in Accounts \ {Job[h].from} : D[a] = 0
    BY <1>2, <2>1
  <2> HIDE DEF D
  <2>4. SumFunctionOnSet(D, Accounts) = D[Job[h].from]
    BY <1>1, <1>2, <2>3, SumOfOne
  <2>5. QED
    BY <2>2, <2>3, <2>4 DEF D
<1>10. QED
  BY <1>2, <1>4, <1>5, <1>6, <1>7, <1>8, <1>9 DEF Keyed, Spends, Resolves

(* One more request was carried out: a sum over those that were grows by   *)
(* its share, if what the others contributed has not changed.              *)
LEMMA OneMoreApplied ==
  ASSUME TypeOK, NEW t \in Requests, Apply(t), NEW f, NEW g,
         \A u \in Applied : f[u] \in Int /\ g[u] = f[u], g[t] \in Int
  PROVE  SumFunctionOnSet(g, Applied') = SumFunctionOnSet(f, Applied) + g[t]
<1>1. t \notin Applied /\ Applied' = Applied \cup {t}
  <2>1. pc'[t] = "applied" /\ pc[t] = "locking"
    BY Finished DEF Apply, Ends, TypeOK
  <2>2. QED
    BY <2>1, AppliedStays DEF Applied, Step
<1>2. IsFiniteSet(Applied')
  <2>1. Applied' \in SUBSET Requests
    BY DEF Applied
  <2>2. QED
    BY <2>1, FS_Subset, RequestsAssumption
<1>3. \A u \in Applied' : g[u] \in Int
  BY <1>1
<1> DEFINE more == Applied'
           old  == Applied
<1>4. t \in more /\ more \ {t} = old
  BY <1>1
<1> HIDE DEF more, old
<1>5. SumFunctionOnSet(g, more) = g[t] + SumFunctionOnSet(g, old)
  BY <1>2, <1>3, <1>4, SumTakesOut DEF more
<1>6. IsFiniteSet(old)
  BY <1>2, <1>4, FS_Subset DEF more
<1>7. SumFunctionOnSet(g, old) = SumFunctionOnSet(f, old) /\ SumFunctionOnSet(f, old) \in Int
  BY <1>6, SumsAgree, SumOfInts DEF old
<1>8. QED
  BY <1>5, <1>7 DEF more, old

LEMMA WorthIsInt == ASSUME NEW t \in Requests PROVE Worth(t) \in Int
  BY JobFields DEF Worth

LEMMA LedgerStep ==
  ASSUME TypeOK, CapturesOne, LedgerBalances, NEW t \in Requests, Step(t)
  PROVE  LedgerBalances'
<1> DEFINE M == [a \in Accounts |-> available[a] + held[a] - Opening[a]]
           W == [u \in Applied |-> Worth(u)]
<1>1. SumFunctionOnSet(M, Accounts) = SumFunctionOnSet(W, Applied)
  BY DEF LedgerBalances, SumFunction
<1>2. SUFFICES SumFunctionOnSet(M', Accounts) = SumFunctionOnSet(W', Applied')
  BY DEF LedgerBalances, SumFunction
<1>3. CASE Apply(t)
  <2> DEFINE D == [a \in Accounts |-> In(t, a) - Out(t, a) + Reserve(t, a)]
  <2>1. picked[t] \in SUBSET Requests
    BY DEF TypeOK
  <2>2. SumFunctionOnSet(D, Accounts) = Worth(t)
    BY <1>3, <2>1, MovesWorth DEF Apply, CapturesOne
  <2>3. \A a \in Accounts : M[a] \in Int /\ D[a] \in Int /\ M'[a] = M[a] + D[a]
    <3> SUFFICES ASSUME NEW a \in Accounts
                 PROVE  M[a] \in Int /\ D[a] \in Int /\ M'[a] = M[a] + D[a]
      OBVIOUS
    <3>1. In(t, a) \in Int /\ Out(t, a) \in Int /\ Reserve(t, a) \in Int
      BY <2>1, Moves
    <3>2. available[a] \in Int /\ held[a] \in Int /\ Opening[a] \in Int
      BY AccountsAssumption DEF TypeOK
    <3>3. available'[a] = available[a] + In(t, a) - Out(t, a) /\ held'[a] = held[a] + Reserve(t, a)
      BY <1>3 DEF Apply
    <3>4. QED
      BY <3>1, <3>2, <3>3
  <2>4. IsFiniteSet(Accounts)
    BY AccountsAssumption
  <2>5. SumFunctionOnSet(M', Accounts) = SumFunctionOnSet(M, Accounts) + SumFunctionOnSet(D, Accounts)
    <3> HIDE DEF M, D
    <3>1. QED
      BY <2>3, <2>4, SumsAdd
  <2>6. SumFunctionOnSet(W', Applied') = SumFunctionOnSet(W, Applied) + Worth(t)
    <3>1. \A u \in Applied : W[u] \in Int /\ W'[u] = W[u]
      BY <1>3, WorthIsInt, AppliedStays DEF Step, Applied
    <3>2. W'[t] = Worth(t) /\ Worth(t) \in Int
      <4>1. pc'[t] = "applied"
        BY <1>3, Finished DEF Apply, Ends, TypeOK
      <4>2. QED
        BY <4>1, WorthIsInt DEF Applied
    <3> HIDE DEF W
    <3>3. QED
      BY <1>3, <3>1, <3>2, OneMoreApplied
  <2>7. QED
    BY <1>1, <2>2, <2>5, <2>6
<1>4. CASE ~ Apply(t)
  <2>1. Applied' = Applied
    BY <1>4, OnlyApplyApplies
  <2>2. available' = available /\ held' = held
    BY <1>4, StepKinds DEF Begins, Replays, Ending, Lock, Fail, balances
  <2>3. M' = M /\ W' = W
    BY <2>1, <2>2 DEF Worth
  <2>4. QED
    BY <1>1, <2>1, <2>3
<1>5. QED
  BY <1>3, <1>4

(* Money is neither lost nor made (transfer, convert, hold, releaseHold,   *)
(* captureHold, expireHolds): what accounts hold, free or reserved, is     *)
(* what they opened with and what carried out requests put in or took out. *)
THEOREM BooksBalance == Spec => []LedgerBalances
<1>1. Init => CapturesOne /\ LedgerBalances
  <2> SUFFICES ASSUME Init PROVE CapturesOne /\ LedgerBalances
    OBVIOUS
  <2> DEFINE M == [a \in Accounts |-> available[a] + held[a] - Opening[a]]
             W == [u \in Applied |-> Worth(u)]
  <2>1. CapturesOne /\ Applied = {}
    BY DEF Init, CapturesOne, Applied
  <2>2. IsFiniteSet(Accounts) /\ \A a \in Accounts : M[a] = 0
    BY AccountsAssumption DEF Init
  <2>3. SumFunctionOnSet(M, Accounts) = 0
    <3> HIDE DEF M
    <3>1. QED
      BY <2>2, SumOfZeros
  <2>4. SumFunctionOnSet(W, Applied) = 0
    <3> HIDE DEF W
    <3>1. QED
      BY <2>1, SumOfNone
  <2>5. QED
    BY <2>1, <2>3, <2>4 DEF LedgerBalances, SumFunction
<1>2. TypeOK /\ CapturesOne /\ LedgerBalances /\ [Next]_vars => CapturesOne' /\ LedgerBalances'
  <2> SUFFICES ASSUME TypeOK, CapturesOne, LedgerBalances, [Next]_vars
               PROVE  CapturesOne' /\ LedgerBalances'
    OBVIOUS
  <2>1. CASE UNCHANGED vars
    BY <2>1 DEF vars, CapturesOne, LedgerBalances, Applied, Worth
  <2>2. QED
    BY <2>1, CapturesOneStep, LedgerStep DEF Next
<1>3. QED
  BY <1>1, <1>2, TypeCorrect, PTL DEF Spec

-----------------------------------------------------------------------------
(* Holds                                                                   *)

(* A hold with a status, or picked by somebody, was placed.                *)
HoldsPlaced ==
  /\ \A h \in Requests : hold[h] # "none" => pc[h] = "applied"
  /\ \A t \in Requests : \A h \in picked[t] : pc[h] = "applied"

LEMMA HoldsPlacedStep ==
  ASSUME TypeOK, HoldsPlaced, NEW t \in Requests, Step(t)
  PROVE  HoldsPlaced'
<1>1. \A h \in Requests : pc[h] = "applied" => pc'[h] = "applied"
  BY AppliedStays DEF Applied
<1>2. picked \in [Requests -> SUBSET Requests]
  BY DEF TypeOK
<1>3. ASSUME NEW h \in Requests, hold'[h] # "none" PROVE pc'[h] = "applied"
  <2>1. CASE Apply(t)
    <3>1. h \in picked[t] \/ h = t \/ hold[h] # "none"
      BY <1>3, <2>1 DEF Apply
    <3>2. pc'[t] = "applied"
      BY <2>1, Finished DEF Apply, Ends, TypeOK
    <3>3. QED
      BY <1>1, <1>2, <3>1, <3>2 DEF HoldsPlaced
  <2>2. CASE ~ Apply(t)
    <3>1. hold' = hold
      BY <2>2, StepKinds DEF Begins, Replays, Ending, Lock, Fail, balances
    <3>2. QED
      BY <1>1, <1>3, <3>1 DEF HoldsPlaced
  <2>3. QED
    BY <2>1, <2>2
<1>4. ASSUME NEW u \in Requests, NEW h \in picked'[u] PROVE h \in Requests /\ pc[h] = "applied"
  <2>1. CASE u # t
    BY <1>2, <1>4, <2>1, StepOfOne DEF OthersKeep, HoldsPlaced
  <2>2. CASE u = t
    <3>1. CASE Begins(t)
      <4>1. PICK hs \in SUBSET {g \in Requests : hold[g] = "active"} : picked' = [picked EXCEPT ![t] = hs]
        BY <3>1 DEF Begins, Begin
      <4>2. h \in hs
        BY <1>2, <1>4, <2>2, <4>1
      <4>3. QED
        BY <4>1, <4>2 DEF HoldsPlaced
    <3>2. CASE Lock(t)
      BY <1>2, <1>4, <2>2, <3>2 DEF Lock, HoldsPlaced
    <3>3. ASSUME NEW how \in Ends, Finish(t, how) PROVE h \in picked[t]
      BY <1>4, <2>2, <3>3, Finished
    <3>4. QED
      BY <1>2, <2>2, <3>1, <3>2, <3>3, StepKinds DEF Replays, Ending, Fail, Apply, Ends, HoldsPlaced
  <2>3. QED
    BY <2>1, <2>2
<1>5. QED
  BY <1>1, <1>3, <1>4 DEF HoldsPlaced

LEMMA TimelyResolutionKeepsHeld ==
  ASSUME TypeOK, HoldsPlaced, HeldIsActiveHolds, NEW t \in Requests, Apply(t),
         \A h \in picked[t] : hold[h] = "active"
  PROVE  HeldIsActiveHolds'
<1> DEFINE Active == {h \in Requests : hold[h] = "active"}
<1> SUFFICES ASSUME NEW a \in Accounts PROVE held'[a] = Kept(Active', a)
  BY DEF HeldIsActiveHolds, Kept
<1>1. /\ held[a] = Kept(Active, a) /\ held[a] \in Int
      /\ held'[a] = held[a] + Reserve(t, a)
      /\ \A h \in Requests :
           hold'[h] = CASE h \in picked[t]               -> Resolution[Job[t].kind]
                        [] h = t /\ Job[t].kind = "hold" -> "active"
                        [] OTHER                         -> hold[h]
  BY DEF HeldIsActiveHolds, Apply, TypeOK
<1>2. /\ picked[t] \in SUBSET Active /\ Active \in SUBSET Requests
      /\ picked[t] # {} => Job[t].kind \in Resolves
  BY DEF TypeOK
<1>3. CASE Job[t].kind \in Resolves
  <2>1. Active' = Active \ picked[t]
    BY <1>1, <1>3 DEF Resolution, Resolves
  <2>2. Reserve(t, a) = - Kept(picked[t], a)
    BY <1>3 DEF Reserve, Resolves
  <2>3. /\ Kept(Active, a) = Kept(picked[t], a) + Kept(Active \ picked[t], a)
        /\ Kept(picked[t], a) \in Int /\ Kept(Active \ picked[t], a) \in Int
    <3> HIDE DEF Active
    <3>1. Active \ picked[t] \in SUBSET Requests /\ picked[t] \in SUBSET Requests
      BY <1>2
    <3>2. QED
      BY <1>2, <3>1, KeptSplits, KeptIsNat
  <2> HIDE DEF Active
  <2>4. QED
    BY <1>1, <2>1, <2>2, <2>3
<1>4. CASE Job[t].kind = "hold"
  <2>1. picked[t] = {}
    BY <1>2, <1>4 DEF Resolves
  <2>2. t \notin Active
    BY DEF HoldsPlaced, Apply
  <2>3. Active' = Active \cup {t}
    BY <1>1, <1>4, <2>1
  <2>4. Reserve(t, a) = IF Job[t].from = a THEN Job[t].amount ELSE 0
    BY <1>4 DEF Reserve, Resolves
  <2>5. Kept({t}, a) = Reserve(t, a)
    BY <2>4, KeptOfOne
  <2>6. /\ Kept(Active', a) = Kept({t}, a) + Kept(Active, a)
        /\ Kept({t}, a) \in Int /\ Kept(Active, a) \in Int
    <3>1. Active' \in SUBSET Requests /\ {t} \in SUBSET Active' /\ Active' \ {t} = Active
      BY <1>2, <2>2, <2>3
    <3>2. {t} \in SUBSET Requests
      OBVIOUS
    <3> DEFINE Now == Active'
    <3>3. Now \in SUBSET Requests /\ {t} \in SUBSET Now /\ Now \ {t} = Active
      BY <3>1
    <3> HIDE DEF Now
    <3>4. Kept(Now, a) = Kept({t}, a) + Kept(Now \ {t}, a)
      BY <3>3, KeptSplits
    <3>5. Kept({t}, a) \in Int /\ Kept(Active, a) \in Int
      BY <1>2, <3>2, KeptIsNat
    <3>6. QED
      BY <3>3, <3>4, <3>5 DEF Now
  <2> HIDE DEF Active
  <2>7. QED
    BY <1>1, <2>5, <2>6
<1>5. CASE Job[t].kind \notin Resolves \cup {"hold"}
  <2>1. picked[t] = {}
    BY <1>2, <1>5
  <2>2. Active' = Active
    BY <1>1, <1>5, <2>1
  <2>3. Reserve(t, a) = 0
    BY <1>5 DEF Reserve
  <2> HIDE DEF Active
  <2>4. QED
    BY <1>1, <2>2, <2>3
<1>6. QED
  BY <1>3, <1>4, <1>5

(* What a row has in reserve parts from its active holds only where a      *)
(* request resolves a hold that another has resolved since it looked.      *)
THEOREM HeldDriftsLate == Spec => HeldDriftsOnlyLate
<1> DEFINE Late == \E t \in Requests : /\ pc[t] # "applied" /\ pc'[t] = "applied"
                                       /\ \E h \in picked[t] : hold[h] # "active"
<1>1. Init => HoldsPlaced
  BY DEF Init, HoldsPlaced
<1>2. TypeOK /\ HoldsPlaced /\ [Next]_vars => HoldsPlaced'
  <2>1. UNCHANGED vars /\ HoldsPlaced => HoldsPlaced'
    BY DEF vars, HoldsPlaced
  <2>2. QED
    BY <2>1, HoldsPlacedStep DEF Next
<1>3. TypeOK /\ HoldsPlaced /\ [Next]_vars => [HeldIsActiveHolds /\ ~ HeldIsActiveHolds' => Late]_vars
  <2> SUFFICES ASSUME TypeOK, HoldsPlaced, NEW t \in Requests, Step(t),
                      HeldIsActiveHolds, ~ HeldIsActiveHolds'
               PROVE  Late
    BY DEF Next
  <2>1. CASE Apply(t)
    <3>1. pc[t] # "applied" /\ pc'[t] = "applied"
      BY <2>1, Finished DEF Apply, Ends, TypeOK
    <3>2. \E h \in picked[t] : hold[h] # "active"
      BY <2>1, TimelyResolutionKeepsHeld
    <3>3. QED
      BY <3>1, <3>2
  <2>2. CASE ~ Apply(t)
    <3>1. held' = held /\ hold' = hold
      BY <2>2, StepKinds DEF Begins, Replays, Ending, Lock, Fail, balances
    <3>2. QED
      BY <3>1 DEF HeldIsActiveHolds, Kept
  <2>3. QED
    BY <2>1, <2>2
<1>4. QED
  BY <1>1, <1>2, <1>3, TypeCorrect, PTL DEF Spec, HeldDriftsOnlyLate

-----------------------------------------------------------------------------
(* The order of locks                                                      *)

(* A request asks for one of the rows it may ask for next, and unless it   *)
(* is a sweep those it has yet to pass are higher than those it has.       *)
Rest(t) == Needs(t, picked[t]) \ passed[t]

InOrder ==
  \A t \in Requests : pc[t] = "locking" =>
    /\ next[t] \in Follow(t, Rest(t))
    /\ Job[t].kind # "sweep" => \A a \in passed[t] : \A b \in Rest(t) : a < b

LEMMA InOrderStep ==
  ASSUME TypeOK, Locked, InOrder, NEW t \in Requests, Step(t)
  PROVE  InOrder'
<1> SUFFICES ASSUME NEW u \in Requests, pc'[u] = "locking"
             PROVE  /\ next'[u] \in Follow(u, Rest(u)')
                    /\ Job[u].kind # "sweep" => \A a \in passed'[u] : \A b \in Rest(u)' : a < b
  BY DEF InOrder, Follow
<1>1. CASE u # t
  BY <1>1, StepOfOne DEF OthersKeep, InOrder, Rest, Needs, Credited
<1>2. CASE Begins(t) /\ u = t
  <2>1. PICK hs \in SUBSET {h \in Requests : hold[h] = "active"} : Begin(t, hs)
    BY <1>2 DEF Begins
  <2>2. passed[t] = {}
    BY <1>2 DEF Begins, Locked, Backed
  <2>3. picked'[t] = hs /\ passed'[t] = {} /\ next'[t] \in Follow(t, Needs(t, hs))
    BY <2>1, <2>2 DEF Begin, TypeOK
  <2>4. Rest(t)' = Needs(t, hs)
    BY <2>3 DEF Rest, Needs, Credited
  <2>5. QED
    BY <1>2, <2>3, <2>4
<1>3. CASE Lock(t) /\ u = t
  <2> DEFINE a == next[t]
  <2>1. a \in Accounts /\ picked[t] \in SUBSET Requests /\ pc[t] = "locking"
    BY <1>3 DEF Lock, TypeOK
  <2>2. passed'[t] = passed[t] \cup {a} /\ picked'[t] = picked[t]
    BY <1>3 DEF Lock, TypeOK
  <2>3. Rest(t)' = Needs(t, picked[t]) \ passed'[t]
    BY <2>2 DEF Rest, Needs, Credited
  <2>4. Rest(t)' = Rest(t) \ {a} /\ Rest(t) \in SUBSET Accounts
    BY <2>1, <2>2, <2>3, NeedsAccounts DEF Rest
  <2>5. next'[t] \in Follow(t, Rest(t)')
    BY <1>3, <2>3 DEF Lock, TypeOK
  <2>6. ASSUME Job[t].kind # "sweep" PROVE \A c \in passed'[t] : \A b \in Rest(t)' : c < b
    <3>1. a \in Follow(t, Rest(t)) /\ \A c \in passed[t] : \A b \in Rest(t) : c < b
      BY <2>1, <2>6 DEF InOrder
    <3>2. \A b \in Rest(t) : a <= b
      BY <2>1, <2>6, <3>1, AccountsAssumption DEF Follow
    <3>3. \A b \in Rest(t) \ {a} : a < b
      <4> SUFFICES ASSUME NEW b \in Rest(t) \ {a} PROVE a < b
        OBVIOUS
      <4>1. a \in Nat /\ b \in Nat /\ b # a /\ a <= b
        BY <2>1, <2>4, <3>2, AccountsAssumption
      <4> HIDE DEF a
      <4>2. QED
        BY <4>1
    <3>4. QED
      BY <2>2, <2>4, <3>1, <3>3
  <2>7. QED
    BY <1>3, <2>5, <2>6
<1>4. CASE \E how \in Ends : Finish(t, how)
  BY <1>1, <1>4 DEF Finish, Close, Ends, TypeOK
<1>5. QED
  BY <1>1, <1>2, <1>3, <1>4, StepKinds DEF Replays, Ending, Fail, Apply, Ends

(* In a circle of requests that keep to the order, each waits for a lower  *)
(* row than the one its owner waits for: those who wait for higher rows    *)
(* than one of them would be a smaller circle.                             *)
LEMMA CirclesNeedSweeps ==
  ASSUME TypeOK, Locked, InOrder, NEW t \in Requests, InDeadlock(t)
  PROVE  \E u \in Requests : Job[u].kind = "sweep" /\ pc[u] = "locking"
<1> SUFFICES ASSUME \A u \in Requests : pc[u] = "locking" => Job[u].kind # "sweep"
             PROVE  FALSE
  OBVIOUS
<1> DEFINE Circles == {C \in SUBSET Blocked : C # {} /\ \A u \in C : owner[next[u]] \in C}
<1>1. PICK C \in Circles : \A D \in Circles : D \subseteq C => D = C
  <2>1. IsFiniteSet(Blocked)
    BY FS_Subset, RequestsAssumption DEF Blocked
  <2>2. Circles \in SUBSET SUBSET Blocked /\ Circles # {}
    BY DEF InDeadlock
  <2> HIDE DEF Circles
  <2>3. QED
    BY <2>1, <2>2, SmallestSet
<1>2. ASSUME NEW u \in C
      PROVE  /\ u \in Requests /\ pc[u] = "locking" /\ next[u] \in Accounts
             /\ next[u] \in Rest(u) /\ owner[next[u]] \in C
  <2>1. u \in Requests /\ pc[u] = "locking" /\ next[u] \in exists
    BY DEF Blocked
  <2>2. next[u] \in Accounts
    BY <2>1 DEF TypeOK
  <2>3. next[u] \in Rest(u)
    BY <2>1, <2>2, AccountsAssumption DEF Locked, Covers, Rest
  <2>4. QED
    BY <2>1, <2>2, <2>3
<1>3. ASSUME NEW u \in C PROVE next[owner[next[u]]] > next[u]
  <2> DEFINE v == owner[next[u]]
  <2>1. v \in C /\ v \in Requests /\ pc[v] = "locking" /\ next[v] \in Accounts /\ next[v] \in Rest(v)
    BY <1>2
  <2>2. next[u] \in passed[v]
    BY <1>2, <2>1 DEF Locked, Backed
  <2>3. next[u] < next[v]
    BY <2>1, <2>2 DEF InOrder
  <2>4. QED
    BY <1>2, <2>1, <2>3, AccountsAssumption
<1>4. PICK u \in C : TRUE
  OBVIOUS
<1> DEFINE D == {v \in C : next[v] > next[u]}
<1>5. owner[next[u]] \in D
  BY <1>2, <1>3
<1>6. \A v \in D : owner[next[v]] \in D
  <2> SUFFICES ASSUME NEW v \in D PROVE owner[next[v]] \in D
    OBVIOUS
  <2>1. owner[next[v]] \in C /\ next[owner[next[v]]] > next[v] /\ next[v] > next[u]
    BY <1>2, <1>3
  <2>2. next[owner[next[v]]] \in Nat /\ next[v] \in Nat /\ next[u] \in Nat
    BY <1>2, <2>1, AccountsAssumption
  <2>3. QED
    BY <2>1, <2>2
<1>7. D \in Circles /\ D \subseteq C
  BY <1>5, <1>6
<1>8. u \in D
  BY <1>1, <1>7
<1>9. next[u] \in Nat
  BY <1>2, AccountsAssumption
<1>10. QED
  BY <1>8, <1>9

(* Only the sweep, which goes through its holds in no order (expireHolds), *)
(* can be caught in a deadlock: requests that lock their rows from the     *)
(* lowest up (transfer, convert) never wait for one another in a circle.   *)
THEOREM SweepsAlone == Spec => OnlySweepsDeadlock
<1> DEFINE Sweeping == \E u \in Requests : Job[u].kind = "sweep" /\ pc[u] = "locking"
<1>1. Init => InOrder
  BY DEF Init, InOrder
<1>2. TypeOK /\ Locked /\ InOrder /\ [Next]_vars => InOrder'
  <2>1. UNCHANGED vars /\ InOrder => InOrder'
    BY DEF vars, InOrder, Rest, Needs, Credited, Follow
  <2>2. QED
    BY <2>1, InOrderStep DEF Next
<1>3. TypeOK /\ Locked /\ InOrder /\ [Next]_vars =>
        [\A t \in Requests : pc[t] # "aborted" /\ pc'[t] = "aborted" => Sweeping]_vars
  <2> SUFFICES ASSUME TypeOK, Locked, InOrder, NEW u \in Requests, Step(u),
                      NEW t \in Requests, pc[t] # "aborted", pc'[t] = "aborted"
               PROVE  Sweeping
    BY DEF Next
  <2>1. t = u
    BY StepOfOne DEF OthersKeep
  <2>2. InDeadlock(t)
    <3>1. CASE Look(t)
      BY <3>1 DEF Look, Begin, Finish, Close, TypeOK
    <3>2. CASE ReadHold(t)
      BY <3>2 DEF ReadHold, Begin, Finish, Close, TypeOK
    <3>3. CASE Lock(t) \/ Refuse(t) \/ Fail(t) \/ Apply(t)
      BY <3>3 DEF Lock, Refuse, Fail, Apply, Finish, Close, TypeOK
    <3>4. QED
      BY <2>1, <3>1, <3>2, <3>3 DEF Step, Abort
  <2>3. QED
    BY <2>2, CirclesNeedSweeps
<1>4. QED
  BY <1>1, <1>2, <1>3, TypeCorrect, LocksHold, PTL DEF Spec, OnlySweepsDeadlock
=============================================================================
